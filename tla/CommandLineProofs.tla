-------------------------- MODULE CommandLineProofs --------------------------
(***************************************************************************)
(* What mctally makes of its command line, whatever the words: LineInv of  *)
(* CommandLine holds when main() begins, every step keeps it, and it says  *)
(* that the hosts asked and the requests are what the words say.           *)
(* ReachProofs takes it from here to the specification.                    *)
(***************************************************************************)
EXTENDS CommandLine, SequenceTheorems, WellFoundedInduction, TLAPS

(***************************************************************************)
(* Sequences that list what stands at some places.                         *)
(***************************************************************************)
LEMMA ListsNothing ==
  ASSUME NEW f, DOMAIN f = {}
  PROVE  Lists(<<>>, f)
<1> DEFINE at == [k \in {} |-> k]
<1>1. DOMAIN <<>> = {}
  OBVIOUS
<1>2. at \in [DOMAIN <<>> -> DOMAIN f]
  BY <1>1
<1>3. \A p \in DOMAIN f : \E k \in DOMAIN <<>> : at[k] = p
  OBVIOUS
<1> HIDE DEF at
<1> QED
  BY <1>1, <1>2, <1>3 DEF Lists

\* One place behind all the others, and what stands there.
LEMMA ListsAppend ==
  ASSUME NEW S, NEW s \in Seq(S), NEW v \in S,
         NEW f, NEW g, NEW x, Lists(s, f),
         DOMAIN g = DOMAIN f \cup {x}, g[x] = v,
         \A p \in DOMAIN f : g[p] = f[p] /\ Before(p, x)
  PROVE  Lists(Append(s, v), g)
<1> DEFINE n == Len(s)
           t == Append(s, v)
<1>1. n \in Nat /\ DOMAIN s = 1 .. n
  OBVIOUS
<1>2. /\ DOMAIN t = 1 .. n + 1 /\ t[n + 1] = v
      /\ \A k \in 1 .. n : t[k] = s[k]
  BY AppendProperties
<1>3. PICK at \in [DOMAIN s -> DOMAIN f] :
        /\ \A p \in DOMAIN f : \E k \in DOMAIN s : at[k] = p
        /\ \A k \in DOMAIN s : \A l \in DOMAIN s : k < l => Before(at[k], at[l])
        /\ \A k \in DOMAIN s : s[k] = f[at[k]]
  BY DEF Lists
<1> HIDE DEF n, t
<1> DEFINE to == [k \in 1 .. n + 1 |-> IF k = n + 1 THEN x ELSE at[k]]
<1>4. /\ to[n + 1] = x
      /\ \A k \in 1 .. n : to[k] = at[k] /\ at[k] \in DOMAIN f
  BY <1>1, <1>3
<1>5. \A k \in 1 .. n + 1 : k \in 1 .. n \/ k = n + 1
  BY <1>1
<1>6. to \in [DOMAIN t -> DOMAIN g]
  BY <1>1, <1>2, <1>3
<1> HIDE DEF to
<1>7. \A p \in DOMAIN g : \E k \in DOMAIN t : to[k] = p
  <2>1. n + 1 \in DOMAIN t /\ \A k \in 1 .. n : k \in DOMAIN t
    BY <1>1, <1>2
  <2>2. \A p \in DOMAIN f : \E k \in 1 .. n : to[k] = p
    BY <1>1, <1>3, <1>4
  <2> QED
    BY <1>4, <2>1, <2>2
<1>8. ASSUME NEW k \in DOMAIN t, NEW l \in DOMAIN t, k < l
      PROVE  Before(to[k], to[l])
  <2>1. k \in 1 .. n
    BY <1>1, <1>2, <1>8
  <2>2. CASE l \in 1 .. n
    BY <1>1, <1>3, <1>4, <1>8, <2>1, <2>2
  <2>3. CASE l = n + 1
    BY <1>4, <2>1, <2>3
  <2> QED
    BY <1>2, <1>5, <2>2, <2>3
<1>9. \A k \in DOMAIN t : t[k] = g[to[k]]
  <2>1. \A k \in 1 .. n : t[k] = g[to[k]]
    BY <1>1, <1>2, <1>3, <1>4
  <2> QED
    BY <1>2, <1>4, <1>5, <2>1
<1> QED
  BY <1>6, <1>7, <1>8, <1>9 DEF Lists, t

\* Some places behind all the others.
LEMMA ListsConcat ==
  ASSUME NEW S, NEW s \in Seq(S), NEW t \in Seq(S),
         NEW f, NEW g, NEW h, Lists(s, f), Lists(t, h),
         DOMAIN g = DOMAIN f \cup DOMAIN h,
         \A p \in DOMAIN f : g[p] = f[p],
         \A q \in DOMAIN h : g[q] = h[q],
         \A p \in DOMAIN f : \A q \in DOMAIN h : Before(p, q)
  PROVE  Lists(s \o t, g)
<1> DEFINE n == Len(s)
           m == Len(t)
           u == s \o t
<1>1. n \in Nat /\ DOMAIN s = 1 .. n /\ m \in Nat /\ DOMAIN t = 1 .. m
  OBVIOUS
<1>2. /\ DOMAIN u = 1 .. n + m
      /\ \A k \in 1 .. n : u[k] = s[k]
      /\ \A k \in 1 .. m : u[n + k] = t[k]
  <2>1. /\ u \in Seq(S) /\ Len(u) = n + m
        /\ \A i \in 1 .. n + m : u[i] = IF i <= n THEN s[i] ELSE t[i - n]
    BY ConcatProperties
  <2>2. DOMAIN u = 1 .. n + m
    BY <2>1
  <2> HIDE DEF n, m, u
  <2>3. \A k \in 1 .. n : u[k] = s[k]
    BY <1>1, <2>1
  <2>4. ASSUME NEW k \in 1 .. m PROVE u[n + k] = t[k]
    <3>1. n + k \in 1 .. n + m /\ ~(n + k <= n) /\ (n + k) - n = k
      BY <1>1
    <3> QED
      BY <2>1, <3>1
  <2> QED
    BY <2>2, <2>3, <2>4
<1>3. PICK at \in [DOMAIN s -> DOMAIN f] :
        /\ \A p \in DOMAIN f : \E k \in DOMAIN s : at[k] = p
        /\ \A k \in DOMAIN s : \A l \in DOMAIN s : k < l => Before(at[k], at[l])
        /\ \A k \in DOMAIN s : s[k] = f[at[k]]
  BY DEF Lists
<1>4. PICK on \in [DOMAIN t -> DOMAIN h] :
        /\ \A p \in DOMAIN h : \E k \in DOMAIN t : on[k] = p
        /\ \A k \in DOMAIN t : \A l \in DOMAIN t : k < l => Before(on[k], on[l])
        /\ \A k \in DOMAIN t : t[k] = h[on[k]]
  BY DEF Lists
<1> HIDE DEF n, m, u
<1> DEFINE to == [k \in 1 .. n + m |-> IF k <= n THEN at[k] ELSE on[k - n]]
<1>5. \A k \in 1 .. n : k \in 1 .. n + m /\ to[k] = at[k] /\ at[k] \in DOMAIN f
  BY <1>1, <1>3
<1>6. \A k \in 1 .. m : n + k \in 1 .. n + m /\ to[n + k] = on[k] /\ on[k] \in DOMAIN h
  <2>1. ASSUME NEW k \in 1 .. m
        PROVE  n + k \in 1 .. n + m /\ to[n + k] = on[k]
    <3>1. n + k \in 1 .. n + m /\ ~(n + k <= n) /\ (n + k) - n = k
      BY <1>1
    <3>2. to[n + k] = IF n + k <= n THEN at[n + k] ELSE on[(n + k) - n]
      BY <3>1
    <3> QED
      BY <3>1, <3>2
  <2> HIDE DEF to
  <2> QED
    BY <1>1, <1>4, <2>1
<1>7. \A k \in 1 .. n + m : k \in 1 .. n \/ \E l \in 1 .. m : k = n + l
  <2>1. ASSUME NEW k \in 1 .. n + m, k \notin 1 .. n PROVE k - n \in 1 .. m /\ k = n + (k - n)
    BY <1>1, <2>1
  <2> QED
    BY <2>1
<1>8. to \in [DOMAIN u -> DOMAIN g]
  <2> DEFINE all == DOMAIN g
  <2>1. \A k \in 1 .. n : to[k] \in all
    BY <1>5
  <2>2. \A k \in 1 .. m : to[n + k] \in all
    BY <1>6
  <2>3. \A k \in 1 .. n + m : to[k] \in all
    <3> HIDE DEF to, all
    <3> QED
      BY <1>7, <2>1, <2>2
  <2> QED
    BY <1>2, <2>3
<1> HIDE DEF to
<1>9. \A p \in DOMAIN g : \E k \in DOMAIN u : to[k] = p
  <2>1. \A p \in DOMAIN f : \E k \in 1 .. n : to[k] = p /\ k \in DOMAIN u
    BY <1>1, <1>2, <1>3, <1>5
  <2>2. \A p \in DOMAIN h : \E k \in 1 .. m : to[n + k] = p /\ n + k \in DOMAIN u
    BY <1>1, <1>2, <1>4, <1>6
  <2> QED
    BY <2>1, <2>2
<1>10. ASSUME NEW k \in DOMAIN u, NEW l \in DOMAIN u, k < l
       PROVE  Before(to[k], to[l])
  <2>1. CASE k \in 1 .. n /\ l \in 1 .. n
    BY <1>1, <1>3, <1>5, <1>10, <2>1
  <2>2. CASE k \in 1 .. n /\ \E j \in 1 .. m : l = n + j
    BY <1>5, <1>6, <2>2
  <2>3. ASSUME NEW i \in 1 .. m, NEW j \in 1 .. m, k = n + i, l = n + j
        PROVE  Before(to[k], to[l])
    <3>1. i < j
      BY <1>1, <1>10, <2>3
    <3>2. Before(on[i], on[j])
      BY <1>1, <1>4, <3>1
    <3>3. to[k] = on[i] /\ to[l] = on[j]
      BY <1>6, <2>3
    <3> QED
      BY <3>2, <3>3
  <2>4. ASSUME NEW i \in 1 .. m, k = n + i, l \in 1 .. n PROVE FALSE
    BY <1>1, <1>10, <2>4
  <2> QED
    BY <1>2, <1>7, <2>1, <2>2, <2>3, <2>4
<1>11. \A k \in DOMAIN u : u[k] = g[to[k]]
  <2>1. \A k \in 1 .. n : u[k] = g[to[k]]
    BY <1>1, <1>2, <1>3, <1>5
  <2>2. ASSUME NEW k \in 1 .. m PROVE u[n + k] = g[to[n + k]]
    <3>1. u[n + k] = t[k] /\ t[k] = h[on[k]]
      BY <1>1, <1>2, <1>4
    <3>2. to[n + k] = on[k] /\ on[k] \in DOMAIN h
      BY <1>6
    <3>3. g[on[k]] = h[on[k]]
      BY <3>2
    <3> QED
      BY <3>1, <3>2, <3>3
  <2> QED
    BY <1>2, <1>7, <2>1, <2>2
<1> QED
  BY <1>8, <1>9, <1>10, <1>11 DEF Lists, u

\* The same places in the same order, and something else that stands there.
LEMMA ListsOther ==
  ASSUME NEW s, NEW t, NEW f, NEW g, Lists(s, f),
         DOMAIN t = DOMAIN s, DOMAIN g = DOMAIN f,
         \A k \in DOMAIN s : \A p \in DOMAIN f : s[k] = f[p] => t[k] = g[p]
  PROVE  Lists(t, g)
<1>1. PICK at \in [DOMAIN s -> DOMAIN f] :
        /\ \A p \in DOMAIN f : \E k \in DOMAIN s : at[k] = p
        /\ \A k \in DOMAIN s : \A l \in DOMAIN s : k < l => Before(at[k], at[l])
        /\ \A k \in DOMAIN s : s[k] = f[at[k]]
  BY DEF Lists
<1>2. at \in [DOMAIN t -> DOMAIN g] /\ \A k \in DOMAIN t : t[k] = g[at[k]]
  BY <1>1
<1> QED
  BY <1>1, <1>2 DEF Lists

\* What is listed stands somewhere, and what stands somewhere is listed.
LEMMA ListsEach ==
  ASSUME NEW s, NEW f, Lists(s, f)
  PROVE  /\ \A k \in DOMAIN s : \E p \in DOMAIN f : s[k] = f[p]
         /\ \A p \in DOMAIN f : \E k \in DOMAIN s : s[k] = f[p]
<1>1. PICK at \in [DOMAIN s -> DOMAIN f] :
        /\ \A p \in DOMAIN f : \E k \in DOMAIN s : at[k] = p
        /\ \A k \in DOMAIN s : s[k] = f[at[k]]
  BY DEF Lists
<1> QED
  BY <1>1

(***************************************************************************)
(* The words, and the places that the properties speak of.                 *)
(***************************************************************************)
\* A word has one field more than its text at most.
LEMMA WordIs ==
  ASSUME NEW w \in AnyWord
  PROVE  \A name \in {"h", "p", "flag", "v", "other", "end"} :
           name \in DOMAIN w => DOMAIN w = {"text", "bad", name}
<1>1. DOMAIN w \in { {"text", "bad"}, {"text", "bad", "h"}, {"text", "bad", "p"},
                     {"text", "bad", "flag"}, {"text", "bad", "v"},
                     {"text", "bad", "other"}, {"text", "bad", "end"} }
  BY DEF AnyWord
<1> QED
  BY <1>1

LEMMA WordSays ==
  ASSUME NEW w \in AnyWord
  PROVE  /\ w.text \in STRING
         /\ "h" \in DOMAIN w => w.h \in Seq(STRING)
         /\ "p" \in DOMAIN w => w.p \in Int
         /\ "flag" \in DOMAIN w => w.flag \in DOMAIN Flags
<1>1. CASE w \in [text : STRING, bad : BOOLEAN, h : Seq(STRING)]
  BY <1>1
<1>2. CASE w \in [text : STRING, bad : BOOLEAN, p : Int]
  BY <1>2
<1>3. CASE w \in [text : STRING, bad : BOOLEAN, flag : DOMAIN Flags]
  <2>1. w.flag \in DOMAIN Flags /\ w.text \in STRING /\ DOMAIN w = {"text", "bad", "flag"}
    BY <1>3
  <2> QED
    BY <2>1
<1>4. CASE w \in [text : STRING, bad : BOOLEAN, v : {TRUE}]
           \/ w \in [text : STRING, bad : BOOLEAN, other : {TRUE}]
           \/ w \in [text : STRING, bad : BOOLEAN, end : {TRUE}]
           \/ w \in [text : STRING, bad : BOOLEAN]
  <2>1. /\ w.text \in STRING
        /\ DOMAIN w \in { {"text", "bad"}, {"text", "bad", "v"}, {"text", "bad", "other"},
                          {"text", "bad", "end"} }
    BY <1>4
  <2> QED
    BY <2>1
<1> QED
  BY <1>1, <1>2, <1>3, <1>4, Zenon DEF AnyWord

LEMMA WordsAre ==
  ASSUME LineTypeOK
  PROVE  /\ Len(words) \in Nat /\ DOMAIN words = 1 .. Len(words)
         /\ \A k \in 1 .. Len(words) : words[k] \in AnyWord
         /\ OptionEnds \subseteq 1 .. Len(words)
<1>1. words \in Seq(AnyWord)
  BY DEF LineTypeOK
<1> QED
  BY <1>1 DEF OptionEnds

LEMMA HostPlacesAre ==
  ASSUME LineTypeOK
  PROVE  /\ \A k \in 1 .. Len(words) : "h" \in DOMAIN words[k] =>
              /\ Len(words[k].h) \in Nat /\ DOMAIN words[k].h = 1 .. Len(words[k].h)
              /\ \A m \in DOMAIN words[k].h : <<k, m>> \in HostPlaces <=> words[k].h[m] # ""
         /\ \A q \in HostPlaces :
              /\ q = <<q[1], q[2]>> /\ q[1] \in 1 .. Len(words)
              /\ "h" \in DOMAIN words[q[1]] /\ q[2] \in 1 .. Len(words[q[1]].h)
<1> DEFINE with == {l \in DOMAIN words : "h" \in DOMAIN words[l]}
           at == UNION {{<<k, m>> : m \in DOMAIN words[k].h} : k \in with}
<1>1. \A q : q \in HostPlaces <=> q \in at /\ words[q[1]].h[q[2]] # ""
  BY DEF HostPlaces
<1>2. \A q : q \in at <=> \E k \in with : \E m \in DOMAIN words[k].h : q = <<k, m>>
  OBVIOUS
<1>3. \A k, m : <<k, m>>[1] = k /\ <<k, m>>[2] = m
  OBVIOUS
<1>4. DOMAIN words = 1 .. Len(words) /\ \A k \in 1 .. Len(words) : words[k] \in AnyWord
  BY WordsAre
<1>5. ASSUME NEW k \in with
      PROVE  Len(words[k].h) \in Nat /\ DOMAIN words[k].h = 1 .. Len(words[k].h)
  <2>1. words[k].h \in Seq(STRING)
    BY <1>4, WordSays
  <2> QED
    BY <2>1
<1> HIDE DEF at
<1>6. ASSUME NEW k \in with, NEW m \in DOMAIN words[k].h
      PROVE  <<k, m>> \in HostPlaces <=> words[k].h[m] # ""
  <2> DEFINE q == <<k, m>>
  <2>1. q \in at /\ q[1] = k /\ q[2] = m
    BY <1>2, <1>3
  <2> HIDE DEF q
  <2>2. q \in HostPlaces <=> words[k].h[m] # ""
    BY <1>1, <2>1
  <2> QED
    BY <2>2 DEF q
<1>7. ASSUME NEW q \in HostPlaces
      PROVE  /\ q = <<q[1], q[2]>> /\ q[1] \in with
             /\ q[2] \in DOMAIN words[q[1]].h
  <2>1. PICK k \in with : \E m \in DOMAIN words[k].h : q = <<k, m>>
    BY <1>1, <1>2
  <2>2. PICK m \in DOMAIN words[k].h : q = <<k, m>>
    BY <2>1
  <2>3. q[1] = k /\ q[2] = m
    BY <1>3, <2>2
  <2> QED
    BY <2>2, <2>3
<1> QED
  BY <1>4, <1>5, <1>6, <1>7

LEMMA HostsAre ==
  ASSUME NEW place
  PROVE  /\ DOMAIN HostsBefore(place) = {q \in HostPlaces : Before(q, place)}
         /\ \A q \in DOMAIN HostsBefore(place) : HostsBefore(place)[q] = words[q[1]].h[q[2]]
  BY DEF HostsBefore

\* A word that is no -h, or an -h with all its pieces, is behind its hosts.
LEMMA WordBehindHosts ==
  ASSUME LineTypeOK, NEW o \in 1 .. Len(words), NEW n \in Nat \ {0},
         "h" \in DOMAIN words[o] => n = Len(words[o].h) + 1
  PROVE  HostsBefore(<<o + 1, 1>>) = HostsBefore(<<o, n>>)
<1>1. Len(words) \in Nat
  BY WordsAre
<1>2. ASSUME NEW q \in HostPlaces
      PROVE  Before(q, <<o + 1, 1>>) <=> Before(q, <<o, n>>)
  <2>1. /\ q[1] \in 1 .. Len(words) /\ "h" \in DOMAIN words[q[1]]
        /\ q[2] \in 1 .. Len(words[q[1]].h) /\ Len(words[q[1]].h) \in Nat
    BY HostPlacesAre
  <2>2. Before(q, <<o + 1, 1>>) <=> q[1] < o + 1 \/ (q[1] = o + 1 /\ q[2] < 1)
    BY DEF Before
  <2>3. Before(q, <<o, n>>) <=> q[1] < o \/ (q[1] = o /\ q[2] < n)
    BY DEF Before
  <2>4. q[1] = o => q[2] < n
    BY <2>1
  <2> HIDE DEF Before
  <2> QED
    BY <1>1, <2>1, <2>2, <2>3, <2>4
<1>3. {q \in HostPlaces : Before(q, <<o + 1, 1>>)} = {q \in HostPlaces : Before(q, <<o, n>>)}
  BY <1>2
<1> QED
  BY <1>3 DEF HostsBefore

\* A piece more, and the host that it names.
LEMMA PieceBehindHosts ==
  ASSUME LineTypeOK, NEW o \in Nat, o \in 1 .. Len(words), "h" \in DOMAIN words[o],
         NEW n \in Nat, n \in DOMAIN words[o].h
  PROVE  /\ DOMAIN HostsBefore(<<o, n + 1>>) =
              DOMAIN HostsBefore(<<o, n>>) \cup (IF words[o].h[n] = "" THEN {} ELSE {<<o, n>>})
         /\ \A q \in DOMAIN HostsBefore(<<o, n>>) :
              Before(q, <<o, n>>) /\ HostsBefore(<<o, n + 1>>)[q] = HostsBefore(<<o, n>>)[q]
         /\ words[o].h[n] # "" => HostsBefore(<<o, n + 1>>)[<<o, n>>] = words[o].h[n]
<1> DEFINE there == DOMAIN HostsBefore(<<o, n>>)
           now == DOMAIN HostsBefore(<<o, n + 1>>)
<1>1. <<o, n>> \in HostPlaces <=> words[o].h[n] # ""
  BY HostPlacesAre
<1>2. ASSUME NEW q \in HostPlaces
      PROVE  Before(q, <<o, n + 1>>) <=> Before(q, <<o, n>>) \/ q = <<o, n>>
  <2> DEFINE k == q[1]
             m == q[2]
  <2>1. /\ q = <<k, m>> /\ k \in 1 .. Len(words) /\ m \in 1 .. Len(words[k].h)
        /\ Len(words[k].h) \in Nat
    BY HostPlacesAre
  <2>2. Len(words) \in Nat
    BY WordsAre
  <2>3. Before(q, <<o, n + 1>>) <=> k < o \/ (k = o /\ m < n + 1)
    BY DEF Before
  <2>4. Before(q, <<o, n>>) <=> k < o \/ (k = o /\ m < n)
    BY DEF Before
  <2> HIDE DEF k, m
  <2>5. k \in Int /\ m \in Int
    BY <2>2, <2>1
  <2>6. q = <<o, n>> <=> k = o /\ m = n
    BY <2>1
  <2>7. k < o \/ (k = o /\ m < n + 1)
          <=> (k < o \/ (k = o /\ m < n)) \/ (k = o /\ m = n)
    BY <2>5
  <2> QED
    BY <2>3, <2>4, <2>6, <2>7
<1>3. /\ there = {q \in HostPlaces : Before(q, <<o, n>>)}
      /\ now = {q \in HostPlaces : Before(q, <<o, n + 1>>)}
  <2> DEFINE new == <<o, n + 1>>
  <2> HIDE DEF new
  <2>1. DOMAIN HostsBefore(new) = {q \in HostPlaces : Before(q, new)}
    BY HostsAre
  <2> QED
    BY <2>1, HostsAre DEF new
<1>4. Before(<<o, n>>, <<o, n>>) <=> FALSE
  BY DEF Before
<1>5. \A q \in there : q \in now /\ Before(q, <<o, n>>)
  BY <1>2, <1>3
<1>6. \A q \in there : HostsBefore(<<o, n + 1>>)[q] = HostsBefore(<<o, n>>)[q]
  BY <1>5, HostsAre
<1>7. words[o].h[n] # "" => <<o, n>> \in now /\ HostsBefore(<<o, n + 1>>)[<<o, n>>] = words[o].h[n]
  <2>1. ASSUME words[o].h[n] # "" PROVE <<o, n>> \in now
    BY <1>1, <1>2, <1>3, <2>1
  <2>2. <<o, n>>[1] = o /\ <<o, n>>[2] = n
    OBVIOUS
  <2> QED
    BY <2>1, <2>2, HostsAre
<1> HIDE DEF there, now
<1>8. now = there \cup (IF words[o].h[n] = "" THEN {} ELSE {<<o, n>>})
  BY <1>1, <1>2, <1>3, <1>7
<1> QED
  BY <1>5, <1>6, <1>7, <1>8 DEF there, now

\* A word more among those of a kind, behind the others.
LEMMA WordBehind ==
  ASSUME NEW S, NEW s \in Seq(S), NEW v \in S,
         NEW P, NEW o \in Int, \A k \in P : k \in Int /\ k < o,
         NEW f, NEW g, Lists(s, f),
         DOMAIN f = P \X {1}, DOMAIN g = (P \cup {o}) \X {1},
         \A p \in DOMAIN f : g[p] = f[p], g[<<o, 1>>] = v
  PROVE  Lists(Append(s, v), g)
<1>1. DOMAIN g = DOMAIN f \cup {<<o, 1>>}
  <2>1. \A A, p : p \in A \X {1} <=> \E k \in A : p = <<k, 1>>
    OBVIOUS
  <2>2. \A p : p \in DOMAIN g <=> p \in DOMAIN f \/ p = <<o, 1>>
    <3>1. \A p : p \in DOMAIN g <=> \E k \in P \cup {o} : p = <<k, 1>>
      BY <2>1
    <3>2. \A p : p \in DOMAIN f <=> \E k \in P : p = <<k, 1>>
      BY <2>1
    <3> QED
      BY Zenon, <3>1, <3>2
  <2> QED
    BY <2>2
<1>2. ASSUME NEW p \in DOMAIN f PROVE Before(p, <<o, 1>>)
  <2>1. p[1] \in P
    OBVIOUS
  <2> QED
    BY <2>1 DEF Before
<1> DEFINE x == <<o, 1>>
<1>3. /\ DOMAIN g = DOMAIN f \cup {x} /\ g[x] = v
      /\ \A p \in DOMAIN f : g[p] = f[p] /\ Before(p, x)
  BY <1>1, <1>2
<1> HIDE DEF x
<1> QED
  BY <1>3, ListsAppend

\* What the first words but one and that one are, for each kind.
LEMMA FirstWords ==
  ASSUME NEW o \in Nat \ {0}
  PROVE  /\ FlagWords(o) = FlagWords(o - 1) \cup (IF "flag" \in DOMAIN words[o] THEN {o} ELSE {})
         /\ Passed(o) = Passed(o - 1) \cup (IF DOMAIN words[o] = {"text", "bad"} THEN {o} ELSE {})
         /\ \A k \in FlagWords(o - 1) \cup Passed(o - 1) : k \in Int /\ k < o
         /\ Refused(o) <=> \/ Refused(o - 1)
                           \/ "v" \in DOMAIN words[o] \/ "other" \in DOMAIN words[o]
                           \/ "p" \in DOMAIN words[o] /\ words[o].p = NotANumber
<1>1. 1 .. o = (1 .. o - 1) \cup {o} /\ \A k \in 1 .. o - 1 : k \in Int /\ k < o
  OBVIOUS
<1>2. FlagWords(o) = FlagWords(o - 1) \cup (IF "flag" \in DOMAIN words[o] THEN {o} ELSE {})
  BY <1>1 DEF FlagWords
<1>3. Passed(o) = Passed(o - 1) \cup (IF DOMAIN words[o] = {"text", "bad"} THEN {o} ELSE {})
  BY <1>1 DEF Passed
<1>4. \A k \in FlagWords(o - 1) \cup Passed(o - 1) : k \in Int /\ k < o
  BY <1>1 DEF FlagWords, Passed
<1>5. Refused(o) <=> \/ Refused(o - 1)
                     \/ "v" \in DOMAIN words[o] \/ "other" \in DOMAIN words[o]
                     \/ "p" \in DOMAIN words[o] /\ words[o].p = NotANumber
  BY <1>1 DEF Refused
<1> QED
  BY <1>2, <1>3, <1>4, <1>5

(***************************************************************************)
(* LineInv holds when main() begins.                                       *)
(***************************************************************************)
LEMMA InitLineInv ==
  ASSUME InitLine, words \in Seq(AnyWord)
  PROVE  LineInv
<1>1. /\ optind = 1 /\ piece = 1 /\ argn = 1 /\ operands = <<>> /\ hosts = <<>>
      /\ requests = <<>> /\ port = ClientPort /\ result = "options"
  BY DEF InitLine
<1>2. LineTypeOK
  BY <1>1 DEF LineTypeOK
<1>3. /\ Len(words) \in Nat /\ DOMAIN words = 1 .. Len(words)
      /\ \A k \in 1 .. Len(words) : words[k] \in AnyWord
      /\ OptionEnds \subseteq 1 .. Len(words)
  BY <1>2, WordsAre
<1>4. piece <= IF AtOption("h") THEN Len(words[optind].h) + 1 ELSE 1
  <2>1. ASSUME AtOption("h") PROVE Len(words[optind].h) \in Nat
    <3>1. optind \in 1 .. Len(words) /\ "h" \in DOMAIN words[optind]
      BY <1>1, <1>3, <2>1 DEF AtOption, AtWord
    <3> QED
      BY <1>2, <3>1, HostPlacesAre
  <2> QED
    BY <1>1, <2>1
<1>5. FlagWords(0) = {} /\ Passed(0) = {} /\ PortWords(0) = {} /\ ~Refused(0)
  BY DEF FlagWords, Passed, PortWords, Refused
<1>6. Lists(hosts, HostsBefore(<<1, 1>>))
  <2>1. ASSUME NEW q \in HostPlaces PROVE ~Before(q, <<1, 1>>)
    <3> DEFINE k == q[1]
               m == q[2]
    <3>1. k \in 1 .. Len(words) /\ m \in 1 .. Len(words[k].h) /\ Len(words[k].h) \in Nat
      BY <1>2, HostPlacesAre
    <3>2. Before(q, <<1, 1>>) <=> k < 1 \/ (k = 1 /\ m < 1)
      BY DEF Before
    <3> HIDE DEF k, m
    <3> QED
      BY <1>3, <3>1, <3>2
  <2>2. DOMAIN HostsBefore(<<1, 1>>) = {}
    BY <2>1, HostsAre
  <2> QED
    BY <1>1, <2>2, ListsNothing
<1>7. DOMAIN FlagsOf({}) = {} /\ DOMAIN WordsOf({}) = {}
  BY DEF FlagsOf, WordsOf
<1>8. Lists(requests, FlagsOf(FlagWords(0))) /\ Lists(operands, WordsOf(Passed(0)))
  BY <1>1, <1>5, <1>7, ListsNothing
<1>9. TakenSoFar
  <2>1. optind - 1 = 0 /\ optind \in 1 .. Len(words) + 1 /\ \A k \in OptionEnds : k >= optind
    BY <1>1, <1>3
  <2>2. PortIsFrom(0)
    BY <1>1, <1>5 DEF PortIsFrom
  <2> QED
    BY <1>1, <1>4, <1>5, <1>6, <1>8, <2>1, <2>2 DEF TakenSoFar
<1> QED
  BY <1>1, <1>2, <1>9 DEF LineInv, AskedSoFar, NobodyAsked

(***************************************************************************)
(* Every step keeps LineInv.                                               *)
(***************************************************************************)
\* The port, when one word more has been taken.
LEMMA PortTaken ==
  ASSUME NEW o \in Nat \ {0}, PortIsFrom(o - 1), words' = words,
         "p" \in DOMAIN words[o] => port' = words[o].p % 65536,
         "p" \notin DOMAIN words[o] => port' = port
  PROVE  PortIsFrom(o)'
<1> DEFINE before == PortWords(o - 1)
           now == PortWords(o)
<1>1. now = before \cup (IF "p" \in DOMAIN words[o] THEN {o} ELSE {})
  BY DEF PortWords
<1>2. \A k \in before : k \in Int /\ k <= o - 1
  BY DEF PortWords
<1>3. PortWords(o)' = now
  BY DEF PortWords
<1>4. /\ before = {} => port = ClientPort
      /\ before # {} => \E k \in before : IsLast(k, before) /\ port = words[k].p % 65536
  BY DEF PortIsFrom
<1> HIDE DEF before, now
<1>5. /\ now = {} => port' = ClientPort
      /\ now # {} => \E k \in now : IsLast(k, now) /\ port' = words[k].p % 65536
  <2>1. CASE "p" \in DOMAIN words[o]
    <3>1. o \in now
      BY <1>1, <2>1
    <3>2. ASSUME NEW l \in now PROVE l <= o
      <4>1. l \in before \/ l = o
        BY <1>1
      <4>2. l \in before => l \in Int /\ l <= o - 1
        BY <1>2
      <4> QED
        BY <4>1, <4>2
    <3>3. IsLast(o, now)
      BY <3>1, <3>2 DEF IsLast
    <3> QED
      BY <2>1, <3>1, <3>3
  <2>2. CASE "p" \notin DOMAIN words[o]
    <3>1. now = before
      BY <1>1, <2>2
    <3> QED
      BY <1>4, <2>2, <3>1
  <2> QED
    BY <2>1, <2>2
<1> QED
  BY <1>3, <1>5 DEF PortIsFrom, IsLast

\* What is known while options are taken, of the word that is taken next.
LEMMA Taking ==
  ASSUME LineInv, result = "options"
  PROVE  /\ LineTypeOK /\ Len(words) \in Nat /\ DOMAIN words = 1 .. Len(words)
         /\ optind \in 1 .. Len(words) + 1 /\ piece \in Nat \ {0} /\ argn = 1
         /\ OptionEnds \subseteq 1 .. Len(words) /\ \A k \in OptionEnds : k >= optind
         /\ ~Refused(optind - 1) /\ PortIsFrom(optind - 1)
         /\ Lists(hosts, HostsBefore(<<optind, piece>>))
         /\ Lists(requests, FlagsOf(FlagWords(optind - 1)))
         /\ Lists(operands, WordsOf(Passed(optind - 1)))
  BY WordsAre DEF LineInv, TakenSoFar

\* What TakenSoFar says of the next state.
LEMMA TakenNext ==
  ASSUME words' = words, permutes' = permutes, result' = "options",
         NEW o, optind' = o, NEW n, piece' = n, argn' = 1,
         o \in 1 .. Len(words) + 1, n \in Nat \ {0},
         n <= IF o <= Len(words) /\ "h" \in DOMAIN words[o] THEN Len(words[o].h) + 1 ELSE 1,
         \A k \in OptionEnds : k >= o,
         ~Refused(o - 1), PortIsFrom(o - 1)',
         Lists(hosts', HostsBefore(<<o, n>>)),
         Lists(requests', FlagsOf(FlagWords(o - 1))),
         Lists(operands', WordsOf(Passed(o - 1)))
  PROVE  TakenSoFar'
<1>1. OptionEnds' = OptionEnds
  BY DEF OptionEnds
<1>2. HostsBefore(<<optind, piece>>)' = HostsBefore(<<o, n>>)
  <2>1. HostPlaces' = HostPlaces
    BY DEF HostPlaces
  <2>2. {q \in HostPlaces' : Before(q, <<optind', piece'>>)} = {q \in HostPlaces : Before(q, <<o, n>>)}
    BY <2>1
  <2>3. HostsBefore(<<optind, piece>>)' =
          [p \in {q \in HostPlaces' : Before(q, <<optind', piece'>>)} |-> words'[p[1]].h[p[2]]]
    BY Zenon DEF HostsBefore
  <2>4. HostsBefore(<<o, n>>) =
          [p \in {q \in HostPlaces : Before(q, <<o, n>>)} |-> words[p[1]].h[p[2]]]
    BY Zenon DEF HostsBefore
  <2> HIDE DEF HostPlaces
  <2> QED
    BY <2>2, <2>3, <2>4
<1>3. FlagsOf(FlagWords(optind - 1))' = FlagsOf(FlagWords(o - 1))
  BY DEF FlagsOf, FlagWords
<1>4. WordsOf(Passed(optind - 1))' = WordsOf(Passed(o - 1))
  BY DEF WordsOf, Passed
<1>5. ~Refused(optind - 1)'
  BY DEF Refused
<1>6. PortIsFrom(optind - 1)'
  BY DEF PortIsFrom, PortWords, IsLast
<1>7. piece' <= IF AtOption("h")' THEN Len(words'[optind'].h) + 1 ELSE 1
  BY DEF AtOption, AtWord
<1> QED
  BY <1>1, <1>2, <1>3, <1>4, <1>5, <1>6, <1>7 DEF TakenSoFar

LEMMA FlagTaken ==
  ASSUME NEW S, requests \in Seq(S), NEW o \in Nat \ {0},
         Lists(requests, FlagsOf(FlagWords(o - 1))),
         "flag" \in DOMAIN words[o], Flags[words[o].flag] \in S
  PROVE  Lists(Append(requests, Flags[words[o].flag]), FlagsOf(FlagWords(o)))
<1> DEFINE P == FlagWords(o - 1)
           v == Flags[words[o].flag]
<1>1. FlagWords(o) = P \cup {o} /\ \A k \in P : k \in Int /\ k < o
  BY FirstWords
<1> DEFINE f == FlagsOf(P)
           g == FlagsOf(P \cup {o})
<1>2. /\ DOMAIN f = P \X {1} /\ DOMAIN g = (P \cup {o}) \X {1}
      /\ \A p \in DOMAIN f : g[p] = f[p]
      /\ g[<<o, 1>>] = v
  BY DEF FlagsOf
<1> DEFINE s == requests
<1>3. v \in S /\ Lists(s, f)
  OBVIOUS
<1>4. s \in Seq(S) /\ o \in Int
  OBVIOUS
<1> HIDE DEF P, v, f, g, s
<1>5. Lists(Append(s, v), g)
  BY <1>1, <1>2, <1>3, <1>4, WordBehind
<1> QED
  BY <1>1, <1>5 DEF v, g, s

LEMMA OperandPassed ==
  ASSUME operands \in Seq(AnyWord), NEW o \in Nat \ {0}, words[o] \in AnyWord,
         Lists(operands, WordsOf(Passed(o - 1))), DOMAIN words[o] = {"text", "bad"}
  PROVE  Lists(Append(operands, words[o]), WordsOf(Passed(o)))
<1> DEFINE P == Passed(o - 1)
           v == words[o]
<1>1. Passed(o) = P \cup {o} /\ \A k \in P : k \in Int /\ k < o
  BY FirstWords
<1> DEFINE f == WordsOf(P)
           g == WordsOf(P \cup {o})
<1>2. /\ DOMAIN f = P \X {1} /\ DOMAIN g = (P \cup {o}) \X {1}
      /\ \A p \in DOMAIN f : g[p] = f[p]
      /\ g[<<o, 1>>] = v
  BY DEF WordsOf
<1> DEFINE s == operands
<1>3. v \in AnyWord /\ Lists(s, f)
  OBVIOUS
<1>4. s \in Seq(AnyWord) /\ o \in Int
  OBVIOUS
<1> HIDE DEF P, v, f, g, s
<1>5. Lists(Append(s, v), g)
  BY <1>1, <1>2, <1>3, <1>4, WordBehind
<1> QED
  BY <1>1, <1>5 DEF v, g, s

LEMMA HostWordIs ==
  ASSUME LineTypeOK, NEW k \in 1 .. Len(words), "h" \in DOMAIN words[k]
  PROVE  Len(words[k].h) \in Nat
  BY HostPlacesAre

\* One word is taken, which is no end of the options and refuses nothing.
LEMMA WordTaken ==
  ASSUME LineInv, AtWord, optind \notin OptionEnds, NextWord, result' = result,
         ~("v" \in DOMAIN words[optind] \/ "other" \in DOMAIN words[optind]),
         "h" \in DOMAIN words[optind] => piece = Len(words[optind].h) + 1,
         "p" \in DOMAIN words[optind] =>
           words[optind].p # NotANumber /\ port' = words[optind].p % 65536,
         "p" \notin DOMAIN words[optind] => port' = port,
         requests' = IF "flag" \in DOMAIN words[optind]
                     THEN Append(requests, Flags[words[optind].flag]) ELSE requests,
         operands' = IF DOMAIN words[optind] = {"text", "bad"}
                     THEN Append(operands, words[optind]) ELSE operands,
         hosts' = hosts
  PROVE  LineInv'
<1> PICK o : o = optind
  OBVIOUS
<1> DEFINE Requests == STRING \cup {Flags[x] : x \in DOMAIN Flags}
<1>1. result = "options" /\ o <= Len(words)
  BY DEF AtWord
<1>2. /\ LineTypeOK /\ Len(words) \in Nat /\ DOMAIN words = 1 .. Len(words)
      /\ o \in 1 .. Len(words) + 1 /\ piece \in Nat \ {0} /\ argn = 1
      /\ OptionEnds \subseteq 1 .. Len(words) /\ \A k \in OptionEnds : k >= o
      /\ ~Refused(o - 1) /\ PortIsFrom(o - 1)
      /\ Lists(hosts, HostsBefore(<<o, piece>>))
      /\ Lists(requests, FlagsOf(FlagWords(o - 1)))
      /\ Lists(operands, WordsOf(Passed(o - 1)))
  BY <1>1, Taking
<1>3. o \in 1 .. Len(words) /\ o \in Nat \ {0} /\ o \in Int
  BY <1>1, <1>2
<1>4. words[o] \in AnyWord
  BY <1>2, <1>3, WordsAre
<1>5. words' = words /\ permutes' = permutes /\ optind' = o + 1 /\ piece' = 1 /\ argn' = argn
  BY DEF NextWord
<1>6. requests \in Seq(Requests) /\ operands \in Seq(AnyWord)
  BY <1>2 DEF LineTypeOK
<1>7. "flag" \in DOMAIN words[o] => Flags[words[o].flag] \in Requests
  BY <1>4, WordSays
<1> HIDE DEF Requests
<1>8. requests' \in Seq(Requests)
  <2>1. "flag" \in DOMAIN words[o] => Append(requests, Flags[words[o].flag]) \in Seq(Requests)
    BY <1>6, <1>7, AppendProperties
  <2> QED
    BY <1>6, <2>1
<1>9. operands' \in Seq(AnyWord)
  <2>1. Append(operands, words[o]) \in Seq(AnyWord)
    BY <1>4, <1>6, AppendProperties
  <2> QED
    BY <1>6, <2>1
<1>10. LineTypeOK'
  BY <1>2, <1>5, <1>8, <1>9 DEF LineTypeOK, Requests
<1>11. \A k \in OptionEnds : k >= o + 1
  BY <1>2, <1>3
<1>12. ~Refused(o)
  <2>1. Refused(o) <=> \/ Refused(o - 1)
                       \/ "v" \in DOMAIN words[o] \/ "other" \in DOMAIN words[o]
                       \/ "p" \in DOMAIN words[o] /\ words[o].p = NotANumber
    BY <1>3, FirstWords
  <2> QED
    BY <1>2, <2>1
<1>13. PortIsFrom(o)'
  BY <1>2, <1>3, <1>5, PortTaken
<1>14. Lists(hosts, HostsBefore(<<o + 1, 1>>))
  <2>1. piece \in Nat \ {0} /\ LineTypeOK
    BY <1>2
  <2>2. HostsBefore(<<o + 1, 1>>) = HostsBefore(<<o, piece>>)
    BY <1>3, <2>1, WordBehindHosts
  <2> QED
    BY <1>2, <2>2
<1>15. Lists(requests', FlagsOf(FlagWords(o)))
  <2>1. FlagWords(o) = FlagWords(o - 1) \cup (IF "flag" \in DOMAIN words[o] THEN {o} ELSE {})
    BY <1>3, FirstWords
  <2>2. CASE "flag" \in DOMAIN words[o]
    <3>1. Lists(Append(requests, Flags[words[o].flag]), FlagsOf(FlagWords(o)))
      BY <1>2, <1>3, <1>6, <1>7, <2>2, FlagTaken
    <3>2. requests' = Append(requests, Flags[words[o].flag])
      BY <2>2
    <3> QED
      BY <3>1, <3>2
  <2>3. CASE "flag" \notin DOMAIN words[o]
    <3>1. FlagWords(o) = FlagWords(o - 1)
      BY <2>1, <2>3
    <3> QED
      BY <1>2, <2>3, <3>1
  <2> QED
    BY <2>2, <2>3
<1>16. Lists(operands', WordsOf(Passed(o)))
  <2>1. Passed(o) = Passed(o - 1) \cup (IF DOMAIN words[o] = {"text", "bad"} THEN {o} ELSE {})
    BY <1>3, FirstWords
  <2>2. CASE DOMAIN words[o] = {"text", "bad"}
    <3>1. Lists(Append(operands, words[o]), WordsOf(Passed(o)))
      BY <1>2, <1>3, <1>4, <1>6, <2>2, OperandPassed
    <3>2. operands' = Append(operands, words[o])
      BY <2>2
    <3> QED
      BY <3>1, <3>2
  <2>3. CASE DOMAIN words[o] # {"text", "bad"}
    <3>1. Passed(o) = Passed(o - 1)
      BY <2>1, <2>3
    <3> QED
      BY <1>2, <2>3, <3>1
  <2> QED
    BY <2>2, <2>3
<1>17. TakenSoFar'
  <2>1. PICK next : next = o + 1
    OBVIOUS
  <2>2. next - 1 = o /\ next \in 1 .. Len(words) + 1
    BY <1>2, <1>3, <2>1
  <2>3. 1 <= IF next <= Len(words) /\ "h" \in DOMAIN words[next] THEN Len(words[next].h) + 1 ELSE 1
    <3>1. ASSUME next <= Len(words), "h" \in DOMAIN words[next] PROVE Len(words[next].h) \in Nat
      <4>1. next \in 1 .. Len(words)
        BY <1>2, <2>2, <3>1
      <4>2. LineTypeOK
        BY DEF LineInv
      <4> QED
        BY <3>1, <4>1, <4>2, HostWordIs
    <3> QED
      BY <3>1
  <2>4. 1 \in Nat \ {0} /\ piece' = 1 /\ optind' = next /\ argn' = 1 /\ result' = "options"
    BY <1>1, <1>2, <1>5, <2>1
  <2>5. /\ \A k \in OptionEnds : k >= next
        /\ Lists(hosts', HostsBefore(<<next, 1>>))
    BY <1>11, <1>14, <2>1
  <2>6. /\ ~Refused(next - 1) /\ PortIsFrom(next - 1)'
        /\ Lists(requests', FlagsOf(FlagWords(next - 1)))
        /\ Lists(operands', WordsOf(Passed(next - 1)))
    BY <1>12, <1>13, <1>15, <1>16, <2>2
  <2> QED
    BY <1>5, <2>2, <2>4, <2>3, <2>5, <2>6, TakenNext
<1>18. result' = "options"
  BY <1>1
<1> QED
  BY <1>10, <1>17, <1>18 DEF LineInv, AskedSoFar, NobodyAsked

\* An option or an operand that main() goes on from.
LEMMA OptionKeepsLine ==
  ASSUME LineInv, HostOption \/ PortOption \/ Flag \/ PassOperand
  PROVE  LineInv'
<1> DEFINE w == words[optind]
<1>1. AtWord /\ NextWord /\ result = "options" /\ result' = result /\ hosts' = hosts
  BY DEF HostOption, PortOption, Flag, PassOperand, AtOption, AtOperand, AtWord
<1>2. /\ LineTypeOK /\ Len(words) \in Nat /\ optind \in 1 .. Len(words) /\ piece \in Nat \ {0}
      /\ piece <= IF AtOption("h") THEN Len(w.h) + 1 ELSE 1
  BY <1>1, WordsAre DEF LineInv, TakenSoFar, AtWord
<1>3. w \in AnyWord
  BY <1>2, WordsAre
<1>4. \A name \in {"h", "p", "flag", "v", "other", "end"} :
        name \in DOMAIN w => DOMAIN w = {"text", "bad", name}
  BY <1>3, WordIs
<1>5. \/ /\ "h" \in DOMAIN w /\ ~(piece <= Len(w.h))
         /\ port' = port /\ requests' = requests /\ operands' = operands
      \/ /\ "p" \in DOMAIN w /\ w.p # NotANumber
         /\ port' = w.p % 65536 /\ requests' = requests /\ operands' = operands
      \/ /\ "flag" \in DOMAIN w
         /\ port' = port /\ requests' = Append(requests, Flags[w.flag]) /\ operands' = operands
      \/ /\ DOMAIN w = {"text", "bad"} /\ permutes
         /\ port' = port /\ requests' = requests /\ operands' = Append(operands, w)
  <2>1. ASSUME HostOption
        PROVE  /\ "h" \in DOMAIN w /\ ~(piece <= Len(w.h))
               /\ port' = port /\ requests' = requests /\ operands' = operands
    BY <1>1, <2>1 DEF HostOption, AtOption, AtPiece
  <2>2. ASSUME PortOption
        PROVE  /\ "p" \in DOMAIN w /\ w.p # NotANumber
               /\ port' = w.p % 65536 /\ requests' = requests /\ operands' = operands
    BY <2>2 DEF PortOption, AtOption
  <2>3. ASSUME Flag
        PROVE  /\ "flag" \in DOMAIN w /\ requests' = Append(requests, Flags[w.flag])
               /\ port' = port /\ operands' = operands
    BY <2>3 DEF Flag, AtOption
  <2>4. ASSUME PassOperand
        PROVE  /\ DOMAIN w = {"text", "bad"} /\ permutes
               /\ operands' = Append(operands, w) /\ port' = port /\ requests' = requests
    BY <2>4 DEF PassOperand, AtOperand
  <2> HIDE DEF w
  <2> QED
    BY <2>1, <2>2, <2>3, <2>4
<1>6. optind \in OptionEnds => "end" \in DOMAIN w \/ (~permutes /\ DOMAIN w = {"text", "bad"})
  BY DEF OptionEnds
<1>7. "h" \in DOMAIN w => Len(w.h) \in Nat
  BY <1>2, HostWordIs
<1>8. AtOption("h") <=> "h" \in DOMAIN w
  BY <1>1 DEF AtOption
<1> HIDE DEF w
<1>9. "h" \in DOMAIN w => piece = Len(w.h) + 1
  <2>1. ASSUME "h" \in DOMAIN w PROVE piece <= Len(w.h) + 1 /\ ~(piece <= Len(w.h))
    <3>1. ~(piece <= Len(w.h))
      BY <1>4, <1>5, <2>1
    <3> QED
      BY <1>2, <1>8, <2>1, <3>1
  <2> QED
    BY <1>2, <1>7, <2>1
<1>10. optind \notin OptionEnds /\ ~("v" \in DOMAIN w \/ "other" \in DOMAIN w)
  BY <1>4, <1>5, <1>6
<1>11. /\ "p" \in DOMAIN w => w.p # NotANumber /\ port' = w.p % 65536
       /\ "p" \notin DOMAIN w => port' = port
       /\ requests' = IF "flag" \in DOMAIN w THEN Append(requests, Flags[w.flag]) ELSE requests
       /\ operands' = IF DOMAIN w = {"text", "bad"} THEN Append(operands, w) ELSE operands
  BY <1>4, <1>5
<1> QED
  BY <1>1, <1>9, <1>10, <1>11, WordTaken DEF w

\* A piece of an -h is taken.
LEMMA PieceKeepsLine == LineInv /\ TakePiece => LineInv'
<1> SUFFICES ASSUME LineInv, TakePiece PROVE LineInv'
  OBVIOUS
<1>0. PICK o, n : o = optind /\ n = piece
  OBVIOUS
<1> DEFINE host == words[o].h[n]
<1>1. /\ result = "options" /\ o <= Len(words) /\ "h" \in DOMAIN words[o]
      /\ n <= Len(words[o].h)
  BY <1>0 DEF TakePiece, AtPiece, AtOption, AtWord
<1>2. hosts' = (IF host = "" THEN hosts ELSE Append(hosts, host))
  BY <1>0 DEF TakePiece
<1>3. /\ optind' = o /\ piece' = n + 1 /\ result' = "options" /\ words' = words
      /\ permutes' = permutes /\ argn' = argn /\ operands' = operands /\ port' = port
      /\ requests' = requests
  BY <1>0, <1>1 DEF TakePiece
<1>4. /\ LineTypeOK /\ Len(words) \in Nat /\ DOMAIN words = 1 .. Len(words)
      /\ o \in 1 .. Len(words) + 1 /\ n \in Nat \ {0} /\ argn = 1
      /\ \A k \in OptionEnds : k >= o
  BY <1>0, <1>1, Taking
<1>5. /\ ~Refused(o - 1) /\ PortIsFrom(o - 1)
      /\ Lists(hosts, HostsBefore(<<o, n>>))
      /\ Lists(requests, FlagsOf(FlagWords(o - 1)))
      /\ Lists(operands, WordsOf(Passed(o - 1)))
  BY <1>0, <1>1, Taking
<1>6. o \in 1 .. Len(words) /\ o \in Nat /\ n \in Nat
  BY <1>1, <1>4
<1>7. words[o] \in AnyWord
  BY <1>4, <1>6, WordsAre
<1>8. words[o].h \in Seq(STRING) /\ Len(words[o].h) \in Nat
  BY <1>1, <1>7, WordSays
<1>9. n \in 1 .. Len(words[o].h)
  BY <1>1, <1>4, <1>8
<1>10. n \in DOMAIN words[o].h /\ host \in STRING \cup {"localhost"}
  BY <1>8, <1>9
<1>11. hosts \in Seq(STRING \cup {"localhost"})
  BY <1>4 DEF LineTypeOK
<1>12. LineTypeOK'
  <2> HIDE DEF host
  <2>1. Append(hosts, host) \in Seq(STRING \cup {"localhost"})
    BY <1>10, <1>11, AppendProperties
  <2>2. hosts' \in Seq(STRING \cup {"localhost"})
    BY <1>2, <1>11, <2>1
  <2> QED
    BY <1>3, <1>4, <2>2 DEF LineTypeOK
<1>13. Lists(hosts', HostsBefore(<<o, n + 1>>))
  <2> DEFINE f == HostsBefore(<<o, n>>)
             g == HostsBefore(<<o, n + 1>>)
             x == <<o, n>>
  <2>1. /\ DOMAIN g = DOMAIN f \cup (IF host = "" THEN {} ELSE {x})
        /\ \A q \in DOMAIN f : Before(q, x) /\ g[q] = f[q]
        /\ host # "" => g[x] = host
    BY <1>1, <1>4, <1>6, <1>10, PieceBehindHosts
  <2>2. Lists(hosts, f)
    BY <1>5
  <2> HIDE DEF f, g, x, host
  <2>3. CASE host = ""
    <3>1. DOMAIN g = DOMAIN f /\ \A k \in DOMAIN hosts : \A p \in DOMAIN f : hosts[k] = f[p] => hosts[k] = g[p]
      BY <2>1, <2>3
    <3>2. Lists(hosts, g)
      BY <2>2, <3>1, ListsOther
    <3> QED
      BY <1>2, <2>3, <3>2 DEF g
  <2>4. CASE host # ""
    <3>1. DOMAIN g = DOMAIN f \cup {x} /\ g[x] = host /\ \A q \in DOMAIN f : g[q] = f[q] /\ Before(q, x)
      BY <2>1, <2>4
    <3>2. host \in STRING \cup {"localhost"}
      BY <1>10
    <3>3. Lists(Append(hosts, host), g)
      BY <1>11, <2>2, <3>1, <3>2, ListsAppend
    <3> QED
      BY <1>2, <2>4, <3>3 DEF g
  <2> QED
    BY <2>3, <2>4
<1>14. TakenSoFar'
  <2>1. PICK next : next = n + 1
    OBVIOUS
  <2>2. next \in Nat \ {0} /\ piece' = next /\ result' = "options" /\ argn' = 1
    BY <1>3, <1>4, <2>1
  <2>3. next <= Len(words[o].h) + 1
    BY <1>1, <1>6, <1>8, <2>1
  <2>4. next <= IF o <= Len(words) /\ "h" \in DOMAIN words[o] THEN Len(words[o].h) + 1 ELSE 1
    BY <1>1, <2>3
  <2>5. PortIsFrom(o - 1)'
    BY <1>3, <1>5 DEF PortIsFrom, PortWords, IsLast
  <2>6. Lists(hosts', HostsBefore(<<o, next>>))
    BY <1>13, <2>1
  <2>7. Lists(requests', FlagsOf(FlagWords(o - 1))) /\ Lists(operands', WordsOf(Passed(o - 1)))
    BY <1>3, <1>5
  <2> HIDE DEF host
  <2>8. /\ words' = words /\ permutes' = permutes /\ optind' = o
        /\ o \in 1 .. Len(words) + 1 /\ \A k \in OptionEnds : k >= o
    BY <1>3, <1>4
  <2> QED
    BY <1>5, <2>2, <2>4, <2>5, <2>6, <2>7, <2>8, TakenNext
<1>15. result' = "options"
  BY <1>3
<1> QED
  BY <1>12, <1>14, <1>15 DEF LineInv, AskedSoFar, NobodyAsked

LEMMA MinIs ==
  ASSUME NEW S, S \subseteq Int, NEW m \in S, \A k \in S : k >= m
  PROVE  Min(S) = m
<1> DEFINE Least(x) == x \in S /\ \A y \in S : x <= y
<1>1. Least(m)
  OBVIOUS
<1>2. Min(S) = CHOOSE x : Least(x)
  BY Zenon DEF Min
<1>3. \A x : Least(x) => x = m
  OBVIOUS
<1> QED
  BY <1>1, <1>2, <1>3, Zenon

\* Where getopt() stops, the options end.
LEMMA StopsAtTheEnd ==
  ASSUME LineInv, OptionsEnd
  PROVE  /\ OptionsUpTo = optind - 1 /\ piece = 1
         /\ AtOption("end") <=> optind <= Len(words) /\ "end" \in DOMAIN words[optind]
<1>1. result = "options" /\ (~AtWord \/ AtOption("end") \/ (AtOperand /\ ~permutes))
  BY DEF OptionsEnd
<1>2. /\ LineTypeOK /\ Len(words) \in Nat /\ DOMAIN words = 1 .. Len(words)
      /\ optind \in 1 .. Len(words) + 1 /\ piece \in Nat \ {0}
      /\ OptionEnds \subseteq 1 .. Len(words) /\ \A k \in OptionEnds : k >= optind
  BY <1>1, Taking
<1>3. AtWord <=> optind <= Len(words)
  BY <1>1 DEF AtWord
<1>4. OptionsUpTo = optind - 1
  <2>1. CASE optind > Len(words)
    <3>1. OptionEnds = {} /\ optind = Len(words) + 1
      BY <1>2, <2>1
    <3> QED
      BY <1>2, <3>1 DEF OptionsUpTo
  <2>2. CASE optind <= Len(words)
    <3>1. optind \in DOMAIN words
      BY <1>2, <2>2
    <3>2. AtOption("end") \/ (AtOperand /\ ~permutes)
      BY <1>1, <1>3, <2>2
    <3>3. optind \in OptionEnds
      BY <3>1, <3>2 DEF OptionEnds, AtOption, AtOperand
    <3>4. OptionEnds \subseteq Int
      BY <1>2
    <3>5. Min(OptionEnds) = optind
      BY <1>2, <3>3, <3>4, MinIs
    <3> QED
      BY <3>3, <3>5 DEF OptionsUpTo
  <2> QED
    BY <1>2, <2>1, <2>2
<1>5. ~AtOption("h")
  <2>1. ASSUME AtOption("h") PROVE FALSE
    <3>1. AtWord /\ "h" \in DOMAIN words[optind]
      BY <2>1 DEF AtOption
    <3>2. optind \in 1 .. Len(words)
      BY <1>2, <1>3, <3>1
    <3>3. words[optind] \in AnyWord
      BY <1>2, <3>2, WordsAre
    <3>4. DOMAIN words[optind] = {"text", "bad", "h"}
      BY <3>1, <3>3, WordIs
    <3> QED
      BY <1>1, <3>1, <3>4 DEF AtOption, AtOperand
  <2> QED
    BY <2>1
<1>6. piece = 1
  <2>1. piece <= 1
    BY <1>1, <1>5 DEF LineInv, TakenSoFar
  <2> QED
    BY <1>2, <2>1
<1>7. AtOption("end") <=> optind <= Len(words) /\ "end" \in DOMAIN words[optind]
  BY <1>3 DEF AtOption
<1> QED
  BY <1>4, <1>6, <1>7

\* The last words, in their order.
LEMMA RestListed ==
  ASSUME LineTypeOK, NEW m \in Nat, m <= Len(words)
  PROVE  /\ SubSeq(words, m + 1, Len(words)) \in Seq(AnyWord)
         /\ Lists(SubSeq(words, m + 1, Len(words)), WordsOf(m + 1 .. Len(words)))
<1> DEFINE l == Len(words)
           t == SubSeq(words, m + 1, l)
           rest == m + 1 .. l
           f == WordsOf(rest)
           at == [k \in 1 .. l - m |-> <<m + k, 1>>]
<1>1. l \in Nat /\ \A k \in 1 .. l : words[k] \in AnyWord
  BY WordsAre
<1>2. /\ t \in Seq(AnyWord) /\ DOMAIN t = 1 .. l - m
      /\ \A k \in 1 .. l - m : t[k] = words[m + k]
  <2> HIDE DEF l
  <2>1. \A k \in m + 1 .. l : words[k] \in AnyWord
    BY <1>1
  <2>2. m + 1 \in Int /\ l \in Int
    BY <1>1
  <2>3. /\ t \in Seq(AnyWord) /\ Len(t) = IF m + 1 <= l THEN l - (m + 1) + 1 ELSE 0
        /\ \A k \in 1 .. l - (m + 1) + 1 : t[k] = words[m + 1 + k - 1]
    BY <2>1, <2>2, SubSeqProperties
  <2>4. /\ l - (m + 1) + 1 = l - m /\ \A k \in 1 .. l - m : m + 1 + k - 1 = m + k
        /\ (IF m + 1 <= l THEN l - (m + 1) + 1 ELSE 0) = l - m
    <3>1. m <= l
      BY DEF l
    <3> QED
      BY <1>1, <3>1
  <2> HIDE DEF t
  <2>5. Len(t) = l - m /\ t \in Seq(AnyWord)
    BY <2>3, <2>4
  <2>6. DOMAIN t = 1 .. l - m
    BY <2>5
  <2>7. \A k \in 1 .. l - m : t[k] = words[m + k]
    BY <2>3, <2>4
  <2> QED
    BY <2>5, <2>6, <2>7
<1>3. DOMAIN f = rest \X {1} /\ \A p \in DOMAIN f : f[p] = words[p[1]]
  BY DEF WordsOf
<1> HIDE DEF t, l, f
<1>4. \A k \in 1 .. l - m : m + k \in rest /\ at[k] = <<m + k, 1>>
  BY <1>1
<1>5. at \in [DOMAIN t -> DOMAIN f]
  BY <1>2, <1>3, <1>4
<1>6. ASSUME NEW p \in DOMAIN f PROVE \E k \in DOMAIN t : at[k] = p
  <2>1. PICK k \in rest : p = <<k, 1>>
    BY <1>3
  <2>2. k - m \in 1 .. l - m /\ m + (k - m) = k
    BY <1>1
  <2> QED
    BY <1>2, <1>4, <2>1, <2>2
<1> HIDE DEF at, rest
<1>7. ASSUME NEW j \in DOMAIN t, NEW k \in DOMAIN t, j < k
      PROVE  Before(at[j], at[k])
  <2>1. at[j] = <<m + j, 1>> /\ at[k] = <<m + k, 1>>
    BY <1>2, <1>4
  <2>2. m + j < m + k
    BY <1>1, <1>2, <1>7
  <2> QED
    BY <2>1, <2>2 DEF Before
<1>8. ASSUME NEW k \in DOMAIN t PROVE t[k] = f[at[k]]
  <2>1. at[k] = <<m + k, 1>> /\ at[k] \in DOMAIN f
    BY <1>2, <1>4, <1>5
  <2>2. f[at[k]] = words[m + k]
    BY <1>3, <2>1
  <2> QED
    BY <1>2, <2>2
<1>9. Lists(t, f)
  BY <1>5, <1>6, <1>7, <1>8 DEF Lists
<1> QED
  BY <1>2, <1>9 DEF t, f, l, rest

\* What AskedSoFar says of the next state.
LEMMA AskedNext ==
  ASSUME words' = words, permutes' = permutes,
         NEW u, OptionsUpTo = u, ~Refused(u), PortIsFrom(u)',
         IF DOMAIN HostsBefore(<<u + 1, 1>>) = {} THEN hosts' = <<"localhost">>
         ELSE Lists(hosts', HostsBefore(<<u + 1, 1>>)),
         Lists(operands', WordsOf(Operands)),
         argn' \in 1 .. Len(operands') + 1,
         \A k \in 1 .. argn' - 1 : ~operands'[k].bad,
         NEW m, m \in 0 .. Len(requests'),
         Lists(SubSeq(requests', 1, m), FlagsOf(FlagWords(u))),
         Len(requests') = m + argn' - 1,
         \A k \in 1 .. argn' - 1 : requests'[m + k] = operands'[k].text,
         result' = "asked" => argn' = Len(operands') + 1 /\ requests' # <<>>
  PROVE  AskedSoFar'
<1>1. OptionsUpTo' = u
  BY DEF OptionsUpTo, OptionEnds
<1>2. FlagsOf(FlagWords(OptionsUpTo))' = FlagsOf(FlagWords(u))
  BY <1>1 DEF FlagsOf, FlagWords
<1>3. Operands' = Operands
  BY <1>1 DEF Operands, Passed
<1>4. WordsOf(Operands)' = WordsOf(Operands)
  BY <1>3 DEF WordsOf
<1>5. ~Refused(OptionsUpTo)'
  BY <1>1 DEF Refused
<1>6. PortIsFrom(OptionsUpTo)'
  BY <1>1 DEF PortIsFrom, PortWords, IsLast
<1>7. HostsBefore(<<OptionsUpTo + 1, 1>>)' = HostsBefore(<<u + 1, 1>>)
  <2>1. HostPlaces' = HostPlaces
    BY DEF HostPlaces
  <2>2. {q \in HostPlaces' : Before(q, <<OptionsUpTo' + 1, 1>>)}
          = {q \in HostPlaces : Before(q, <<u + 1, 1>>)}
    BY <1>1, <2>1
  <2>3. HostsBefore(<<OptionsUpTo + 1, 1>>)' =
          [p \in {q \in HostPlaces' : Before(q, <<OptionsUpTo' + 1, 1>>)} |-> words'[p[1]].h[p[2]]]
    BY Zenon DEF HostsBefore
  <2>4. HostsBefore(<<u + 1, 1>>) =
          [p \in {q \in HostPlaces : Before(q, <<u + 1, 1>>)} |-> words[p[1]].h[p[2]]]
    BY Zenon DEF HostsBefore
  <2> QED
    BY <2>2, <2>3, <2>4
<1>8. HostsTold'
  BY <1>7 DEF HostsTold
<1>9. /\ Lists(SubSeq(requests, 1, m), FlagsOf(FlagWords(OptionsUpTo)))'
      /\ Lists(operands, WordsOf(Operands))'
  BY <1>2, <1>4
<1>10. \E i \in 0 .. Len(requests') :
          /\ Lists(SubSeq(requests', 1, i), FlagsOf(FlagWords(OptionsUpTo))')
          /\ Len(requests') = i + argn' - 1
          /\ \A k \in 1 .. argn' - 1 : requests'[i + k] = operands'[k].text
  BY <1>9
<1> QED
  BY <1>5, <1>6, <1>8, <1>9, <1>10 DEF AskedSoFar

\* The operands are those that getopt() passed and all that is left.
LEMMA OperandsListed ==
  ASSUME LineInv, OptionsEnd
  PROVE  operands' \in Seq(AnyWord) /\ Lists(operands', WordsOf(Operands))
<1>1. PICK o : o = optind
  OBVIOUS
<1> DEFINE end == o <= Len(words) /\ "end" \in DOMAIN words[o]
<1>2. PICK m : m = IF end THEN o ELSE o - 1
  OBVIOUS
<1>3. result = "options"
  BY DEF OptionsEnd
<1>4. /\ LineTypeOK /\ Len(words) \in Nat /\ o \in 1 .. Len(words) + 1
      /\ Lists(operands, WordsOf(Passed(o - 1)))
  BY <1>1, <1>3, Taking
<1>5. OptionsUpTo = o - 1 /\ (AtOption("end") <=> end)
  BY <1>1, StopsAtTheEnd
<1>6. operands' = operands \o SubSeq(words, m + 1, Len(words))
  <2>1. operands' = operands \o SubSeq(words, IF AtOption("end") THEN optind + 1 ELSE optind, Len(words))
    BY DEF OptionsEnd
  <2> HIDE DEF end
  <2>2. m + 1 = IF AtOption("end") THEN optind + 1 ELSE optind
    BY <1>1, <1>2, <1>4, <1>5
  <2> QED
    BY <2>1, <2>2
<1>7. m \in Nat /\ m <= Len(words)
  BY <1>2, <1>4
<1> DEFINE rest == m + 1 .. Len(words)
           P == Passed(o - 1)
<1>8. Operands = P \cup rest
  <2>1. OptionsUpTo + 1 = o
    BY <1>4, <1>5
  <2>2. Operands = Passed(o - 1) \cup IF end THEN o + 1 .. Len(words) ELSE o .. Len(words)
    BY <1>5, <2>1, Zenon DEF Operands
  <2> HIDE DEF end
  <2>3. (IF end THEN o + 1 .. Len(words) ELSE o .. Len(words)) = rest
    BY <1>2, <1>4
  <2> QED
    BY <2>2, <2>3
<1> DEFINE s == operands
           t == SubSeq(words, m + 1, Len(words))
           f == WordsOf(P)
           h == WordsOf(rest)
           g == WordsOf(P \cup rest)
<1>9. s \in Seq(AnyWord) /\ t \in Seq(AnyWord) /\ Lists(s, f) /\ Lists(t, h)
  <2>1. s \in Seq(AnyWord)
    BY <1>4 DEF LineTypeOK
  <2> QED
    BY <1>4, <1>7, <2>1, RestListed
<1>10. /\ DOMAIN f = P \X {1} /\ DOMAIN h = rest \X {1} /\ DOMAIN g = (P \cup rest) \X {1}
       /\ \A p \in DOMAIN f : g[p] = f[p]
       /\ \A q \in DOMAIN h : g[q] = h[q]
  BY DEF WordsOf
<1>11. \A k \in P : k \in Int /\ k < o
  BY <1>4 DEF Passed
<1>12. \A k \in rest : k \in Int /\ o <= k
  BY <1>2, <1>4, <1>7
<1> HIDE DEF P, rest, s, t, f, g, h
<1>13. DOMAIN g = DOMAIN f \cup DOMAIN h
  BY <1>10
<1>14. ASSUME NEW p \in DOMAIN f, NEW q \in DOMAIN h
       PROVE  Before(p, q)
  <2>1. PICK k \in P : p = <<k, 1>>
    BY <1>10
  <2>2. PICK l \in rest : q = <<l, 1>>
    BY <1>10
  <2>3. k < l
    BY <1>4, <1>11, <1>12
  <2> QED
    BY <2>1, <2>2, <2>3 DEF Before
<1>15. Lists(s \o t, g)
  BY <1>9, <1>10, <1>13, <1>14, ListsConcat
<1>16. s \o t \in Seq(AnyWord)
  BY <1>9, ConcatProperties
<1> QED
  BY <1>6, <1>8, <1>15, <1>16 DEF s, t, g

\* main() asks localhost if no host was named.
LEMMA HostsListed ==
  ASSUME LineInv, OptionsEnd, NEW u, OptionsUpTo = u
  PROVE  /\ hosts' \in Seq(STRING \cup {"localhost"})
         /\ IF DOMAIN HostsBefore(<<u + 1, 1>>) = {} THEN hosts' = <<"localhost">>
            ELSE Lists(hosts', HostsBefore(<<u + 1, 1>>))
<1>1. result = "options"
  BY DEF OptionsEnd
<1>2. /\ LineTypeOK /\ optind \in 1 .. Len(words) + 1 /\ Len(words) \in Nat
      /\ Lists(hosts, HostsBefore(<<optind, piece>>))
  BY <1>1, Taking
<1>3. u = optind - 1 /\ piece = 1
  BY StopsAtTheEnd
<1>4. u + 1 = optind
  BY <1>2, <1>3
<1> DEFINE told == HostsBefore(<<u + 1, 1>>)
<1>5. Lists(hosts, told)
  <2>1. <<u + 1, 1>> = <<optind, piece>>
    BY <1>3, <1>4
  <2> QED
    BY <1>2, <2>1, Zenon
<1>6. hosts \in Seq(STRING \cup {"localhost"})
  BY <1>2 DEF LineTypeOK
<1>7. hosts' = IF hosts = <<>> THEN <<"localhost">> ELSE hosts
  BY DEF OptionsEnd
<1> HIDE DEF told
<1>8. hosts = <<>> <=> DOMAIN told = {}
  <2>1. hosts = <<>> <=> DOMAIN hosts = {}
    BY <1>6
  <2>2. DOMAIN hosts = {} <=> DOMAIN told = {}
    BY <1>5, ListsEach
  <2> QED
    BY <2>1, <2>2
<1>9. hosts' \in Seq(STRING \cup {"localhost"})
  <2>1. \A S, x : x \in S => <<x>> \in Seq(S)
    OBVIOUS
  <2>2. \A S, x : x \in S \cup {x}
    OBVIOUS
  <2>3. <<"localhost">> \in Seq(STRING \cup {"localhost"})
    BY <2>1, <2>2, Zenon
  <2> QED
    BY <1>6, <1>7, <2>3
<1>10. IF DOMAIN told = {} THEN hosts' = <<"localhost">> ELSE Lists(hosts', told)
  BY <1>5, <1>7, <1>8
<1> QED
  BY <1>9, <1>10 DEF told

\* The options end, and nothing has been asked for an operand.
LEMMA EndKeepsLine ==
  ASSUME LineInv, OptionsEnd
  PROVE  LineInv'
<1>1. PICK u : u = OptionsUpTo
  OBVIOUS
<1>2. result = "options"
  BY DEF OptionsEnd
<1>3. /\ LineTypeOK /\ Len(words) \in Nat /\ optind \in 1 .. Len(words) + 1 /\ argn = 1
      /\ ~Refused(optind - 1) /\ PortIsFrom(optind - 1)
      /\ Lists(requests, FlagsOf(FlagWords(optind - 1)))
  BY <1>2, Taking
<1>4. u = optind - 1
  BY <1>1, StopsAtTheEnd
<1>5. /\ ~Refused(u) /\ PortIsFrom(u) /\ Lists(requests, FlagsOf(FlagWords(u)))
  BY <1>3, <1>4
<1>6. /\ words' = words /\ permutes' = permutes /\ argn' = argn /\ port' = port
      /\ requests' = requests /\ result' = "operands"
  BY DEF OptionsEnd
<1>7. operands' \in Seq(AnyWord) /\ Lists(operands', WordsOf(Operands))
  BY OperandsListed
<1>8. /\ hosts' \in Seq(STRING \cup {"localhost"})
      /\ IF DOMAIN HostsBefore(<<u + 1, 1>>) = {} THEN hosts' = <<"localhost">>
         ELSE Lists(hosts', HostsBefore(<<u + 1, 1>>))
  BY <1>1, HostsListed
<1>9. LineTypeOK'
  BY <1>3, <1>6, <1>7, <1>8 DEF LineTypeOK
<1>10. AskedSoFar'
  <2>1. PICK m : m = Len(requests)
    OBVIOUS
  <2>2. requests \in Seq(STRING \cup {Flags[x] : x \in DOMAIN Flags})
    BY <1>3 DEF LineTypeOK
  <2>3. m \in 0 .. Len(requests') /\ SubSeq(requests', 1, m) = requests /\ m \in Nat
    BY <1>6, <2>1, <2>2
  <2>4. PortIsFrom(u)'
    BY <1>5, <1>6 DEF PortIsFrom, PortWords, IsLast
  <2>5. Lists(SubSeq(requests', 1, m), FlagsOf(FlagWords(u)))
    BY <1>5, <2>3
  <2>6. argn' = 1 /\ Len(operands') \in Nat /\ result' # "asked"
    BY <1>3, <1>6, <1>7
  <2>7. argn' \in 1 .. Len(operands') + 1 /\ Len(requests') = m + argn' - 1
    BY <1>6, <2>1, <2>3, <2>6
  <2>8. 1 .. argn' - 1 = {}
    BY <2>6
  <2>9. words' = words /\ permutes' = permutes /\ OptionsUpTo = u
    BY <1>1, <1>6
  <2> QED
    BY <1>5, <1>7, <1>8, <2>3, <2>4, <2>5, <2>6, <2>7, <2>8, <2>9, AskedNext
<1> QED
  BY <1>6, <1>9, <1>10 DEF LineInv, TakenSoFar, NobodyAsked

LEMMA HasLeast ==
  ASSUME NEW S, S \subseteq Nat, S # {}
  PROVE  \E m \in S : \A k \in S : m <= k
<1> DEFINE less == OpToRel(<, Nat)
<1>1. \A k \in Nat : \A m \in Nat : k < m => <<k, m>> \in less
  BY DEF OpToRel
<1>2. IsWellFoundedOn(less, Nat)
  BY NatLessThanWellFounded, Zenon
<1> HIDE DEF less
<1>3. PICK m \in S : \A k \in S : ~ (<<k, m>> \in less)
  BY <1>2, WFMin
<1>4. \A k \in S : ~ (k < m)
  BY <1>1, <1>3
<1> QED
  BY <1>4

\* An option that refuses the line is one before the options end.
LEMMA RefusalCounts ==
  ASSUME LineInv, PortThrows \/ ShowVersion \/ UnknownOption
  PROVE  Refused(OptionsUpTo)
<1> DEFINE w == words[optind]
<1>1. /\ AtWord /\ result = "options"
      /\ \/ "v" \in DOMAIN w \/ "other" \in DOMAIN w
         \/ "p" \in DOMAIN w /\ w.p = NotANumber
  BY DEF PortThrows, ShowVersion, UnknownOption, AtOption, AtWord
<1>2. /\ LineTypeOK /\ Len(words) \in Nat /\ optind \in 1 .. Len(words) + 1
      /\ OptionEnds \subseteq 1 .. Len(words) /\ \A k \in OptionEnds : k >= optind
  BY <1>1, Taking
<1>3. optind \in 1 .. Len(words)
  BY <1>1, <1>2 DEF AtWord
<1>4. w \in AnyWord
  BY <1>2, <1>3, WordsAre
<1>5. \A name \in {"h", "p", "flag", "v", "other", "end"} :
        name \in DOMAIN w => DOMAIN w = {"text", "bad", name}
  BY <1>4, WordIs
<1>6. optind \in OptionEnds => "end" \in DOMAIN w \/ DOMAIN w = {"text", "bad"}
  BY DEF OptionEnds
<1>7. optind \notin OptionEnds
  <2> HIDE DEF w
  <2> QED
    BY <1>1, <1>5, <1>6
<1>8. OptionsUpTo \in Int /\ optind <= OptionsUpTo
  <2>1. CASE OptionEnds = {}
    BY <1>2, <1>3, <2>1 DEF OptionsUpTo
  <2>2. CASE OptionEnds # {}
    <3>1. OptionEnds \subseteq Nat /\ OptionEnds \subseteq Int
      BY <1>2
    <3>2. PICK m \in OptionEnds : \A k \in OptionEnds : m <= k
      BY <2>2, <3>1, HasLeast
    <3>3. Min(OptionEnds) = m
      BY <3>1, <3>2, MinIs
    <3>4. OptionsUpTo = m - 1
      BY <2>2, <3>3 DEF OptionsUpTo
    <3>5. m \in Int /\ m >= optind /\ m # optind
      BY <1>2, <1>7, <3>1
    <3> QED
      BY <1>3, <3>4, <3>5
  <2> QED
    BY <2>1, <2>2
<1>9. optind \in 1 .. OptionsUpTo
  BY <1>3, <1>8
<1> QED
  BY <1>1, <1>9 DEF Refused

\* What NobodyAsked says of the next state.
LEMMA NobodyNext ==
  ASSUME words' = words, permutes' = permutes,
         result' \in {"aborted", "version"} => Refused(OptionsUpTo),
         result' = "usage" => Refused(OptionsUpTo) \/ FlagWords(OptionsUpTo) \cup Operands = {},
         result' = "badExpression" => \E k \in Operands : words[k].bad
  PROVE  NobodyAsked'
<1>1. OptionsUpTo' = OptionsUpTo
  BY DEF OptionsUpTo, OptionEnds
<1>2. Refused(OptionsUpTo)' <=> Refused(OptionsUpTo)
  BY <1>1 DEF Refused
<1>3. FlagWords(OptionsUpTo)' = FlagWords(OptionsUpTo)
  BY <1>1 DEF FlagWords
<1>4. Operands' = Operands
  BY <1>1 DEF Operands, Passed
<1> QED
  BY <1>2, <1>3, <1>4 DEF NobodyAsked

LEMMA RefusalKeepsLine ==
  ASSUME LineInv, PortThrows \/ ShowVersion \/ UnknownOption
  PROVE  LineInv'
<1>1. /\ words' = words /\ permutes' = permutes /\ operands' = operands /\ hosts' = hosts
      /\ requests' = requests /\ result' \in {"aborted", "version", "usage"}
  BY DEF PortThrows, ShowVersion, UnknownOption, NextWord
<1>2. Refused(OptionsUpTo)
  BY RefusalCounts
<1>3. LineTypeOK'
  BY <1>1 DEF LineInv, LineTypeOK
<1>4. NobodyAsked'
  BY <1>1, <1>2, NobodyNext
<1> QED
  BY <1>1, <1>3, <1>4 DEF LineInv, TakenSoFar, AskedSoFar

\* What is known while operands are taken.
LEMMA Asking ==
  ASSUME LineInv, result \in {"operands", "asked"}
  PROVE  /\ LineTypeOK /\ operands \in Seq(AnyWord)
         /\ requests \in Seq(STRING \cup {Flags[x] : x \in DOMAIN Flags})
         /\ ~Refused(OptionsUpTo) /\ PortIsFrom(OptionsUpTo) /\ HostsTold
         /\ Lists(operands, WordsOf(Operands))
         /\ argn \in 1 .. Len(operands) + 1
         /\ \A k \in 1 .. argn - 1 : ~operands[k].bad
         /\ \E m \in 0 .. Len(requests) :
              /\ Lists(SubSeq(requests, 1, m), FlagsOf(FlagWords(OptionsUpTo)))
              /\ Len(requests) = m + argn - 1
              /\ \A k \in 1 .. argn - 1 : requests[m + k] = operands[k].text
         /\ result = "asked" => argn = Len(operands) + 1 /\ requests # <<>>
  BY DEF LineInv, LineTypeOK, AskedSoFar

\* A request behind the others leaves those as they are.
LEMMA RequestAdded ==
  ASSUME NEW S, NEW s \in Seq(S), NEW x \in S, NEW m \in 0 .. Len(s)
  PROVE  /\ Append(s, x) \in Seq(S) /\ Len(Append(s, x)) = Len(s) + 1
         /\ Append(s, x)[Len(s) + 1] = x
         /\ \A k \in 1 .. Len(s) : Append(s, x)[k] = s[k]
         /\ SubSeq(Append(s, x), 1, m) = SubSeq(s, 1, m)
<1> DEFINE n == Len(s)
           t == Append(s, x)
<1>1. n \in Nat /\ m \in 0 .. n /\ \A k \in 1 .. n : s[k] \in S
  OBVIOUS
<1>2. /\ t \in Seq(S) /\ Len(t) = n + 1 /\ t[n + 1] = x
      /\ \A k \in 1 .. n : t[k] = s[k]
  BY AppendProperties
<1> HIDE DEF t, n
<1>3. \A k \in 1 .. m : s[k] \in S /\ t[k] \in S /\ t[k] = s[k]
  BY <1>1, <1>2
<1> DEFINE a == SubSeq(s, 1, m)
           b == SubSeq(t, 1, m)
<1>4. 1 \in Int /\ m \in Int /\ m - 1 + 1 = m /\ \A k \in 1 .. m : 1 + k - 1 = k
  BY <1>1
<1>5. /\ a \in Seq(S) /\ Len(a) = IF 1 <= m THEN m - 1 + 1 ELSE 0
      /\ \A k \in 1 .. m - 1 + 1 : a[k] = s[1 + k - 1]
  BY <1>3, <1>4, SubSeqProperties
<1>6. /\ b \in Seq(S) /\ Len(b) = IF 1 <= m THEN m - 1 + 1 ELSE 0
      /\ \A k \in 1 .. m - 1 + 1 : b[k] = t[1 + k - 1]
  BY <1>3, <1>4, SubSeqProperties
<1> HIDE DEF a, b
<1>7. Len(a) = m /\ Len(b) = m
  BY <1>1, <1>5, <1>6
<1>8. \A k \in 1 .. m : a[k] = b[k]
  BY <1>3, <1>4, <1>5, <1>6
<1>9. a = b
  BY <1>5, <1>6, <1>7, <1>8, SeqEqual
<1> QED
  BY <1>2, <1>9 DEF a, b, t, n

LEMMA ExpressionKeepsLine ==
  ASSUME LineInv, Expression
  PROVE  LineInv'
<1>1. PICK u : u = OptionsUpTo
  OBVIOUS
<1>2. PICK n : n = argn
  OBVIOUS
<1> DEFINE S == STRING \cup {Flags[x] : x \in DOMAIN Flags}
           text == operands[n].text
<1>3. result = "operands" /\ n <= Len(operands) /\ ~operands[n].bad
  BY <1>2 DEF Expression
<1>4. /\ words' = words /\ permutes' = permutes /\ operands' = operands
      /\ hosts' = hosts /\ port' = port /\ result' = "operands"
      /\ requests' = Append(requests, text) /\ argn' = n + 1
  BY <1>2, <1>3 DEF Expression
<1>5. /\ LineTypeOK /\ operands \in Seq(AnyWord) /\ requests \in Seq(S)
      /\ n \in 1 .. Len(operands) + 1
      /\ \A k \in 1 .. n - 1 : ~operands[k].bad
  BY <1>2, <1>3, Asking
<1>6. /\ ~Refused(u) /\ PortIsFrom(u) /\ HostsTold
      /\ Lists(operands, WordsOf(Operands))
  BY <1>1, <1>3, Asking
<1>7. PICK m \in 0 .. Len(requests) :
        /\ Lists(SubSeq(requests, 1, m), FlagsOf(FlagWords(u)))
        /\ Len(requests) = m + n - 1
        /\ \A k \in 1 .. n - 1 : requests[m + k] = operands[k].text
  BY <1>1, <1>2, <1>3, Asking
<1>8. n \in 1 .. Len(operands) /\ Len(operands) \in Nat /\ Len(requests) \in Nat
  BY <1>3, <1>5
<1>9. text \in STRING
  <2>1. operands[n] \in AnyWord
    BY <1>5, <1>8
  <2> QED
    BY <2>1, WordSays
<1>10. text \in S
  BY <1>9
<1> HIDE DEF S, text
<1>11. /\ requests' \in Seq(S) /\ Len(requests') = Len(requests) + 1
       /\ requests'[Len(requests) + 1] = text
       /\ \A k \in 1 .. Len(requests) : requests'[k] = requests[k]
       /\ SubSeq(requests', 1, m) = SubSeq(requests, 1, m)
  BY <1>4, <1>5, <1>10, RequestAdded
<1>12. LineTypeOK'
  BY <1>4, <1>5, <1>11 DEF LineTypeOK, S
<1>13. AskedSoFar'
  <2>1. m \in 0 .. Len(requests') /\ Len(requests') = m + argn' - 1 /\ argn' - 1 = n
    BY <1>4, <1>7, <1>8, <1>11
  <2>2. Lists(SubSeq(requests', 1, m), FlagsOf(FlagWords(u)))
    BY <1>7, <1>11
  <2>3. \A k \in 1 .. n : k \in 1 .. n - 1 \/ k = n
    BY <1>8
  <2>4. \A k \in 1 .. argn' - 1 : ~operands'[k].bad
    <3>1. \A k \in 1 .. n : ~operands[k].bad
      BY <1>3, <1>5, <2>3
    <3> QED
      BY <1>4, <2>1, <3>1
  <2>5. \A k \in 1 .. argn' - 1 : requests'[m + k] = operands'[k].text
    <3>1. ASSUME NEW k \in 1 .. n - 1 PROVE requests'[m + k] = operands[k].text
      <4>1. m + k \in 1 .. Len(requests)
        BY <1>7, <1>8
      <4> QED
        BY <1>7, <1>11, <4>1
    <3>2. requests'[m + n] = operands[n].text
      <4>1. m + n = Len(requests) + 1
        BY <1>7, <1>8
      <4> QED
        BY <1>11, <4>1 DEF text
    <3>3. \A k \in 1 .. n : requests'[m + k] = operands[k].text
      BY <2>3, <3>1, <3>2
    <3> QED
      BY <1>4, <2>1, <3>3
  <2>6. PortIsFrom(u)'
    BY <1>4, <1>6 DEF PortIsFrom, PortWords, IsLast
  <2>7. IF DOMAIN HostsBefore(<<u + 1, 1>>) = {} THEN hosts' = <<"localhost">>
        ELSE Lists(hosts', HostsBefore(<<u + 1, 1>>))
    BY <1>1, <1>4, <1>6 DEF HostsTold
  <2>8. argn' \in 1 .. Len(operands') + 1 /\ result' # "asked"
    BY <1>4, <1>8
  <2>9. /\ words' = words /\ permutes' = permutes /\ OptionsUpTo = u
        /\ Lists(operands', WordsOf(Operands))
    BY <1>1, <1>4, <1>6
  <2> QED
    BY <1>6, <2>1, <2>2, <2>4, <2>5, <2>6, <2>7, <2>8, <2>9, AskedNext
<1> QED
  BY <1>4, <1>12, <1>13 DEF LineInv, TakenSoFar, NobodyAsked

\* What stands at some words, word by word.
LEMMA ListsWords ==
  ASSUME NEW s, NEW places
  PROVE  /\ Lists(s, WordsOf(places)) =>
              /\ \A k \in places : \E n \in DOMAIN s : s[n] = words[k]
              /\ \A n \in DOMAIN s : \E k \in places : s[n] = words[k]
         /\ Lists(s, FlagsOf(places)) => (DOMAIN s = {} <=> places = {})
<1>1. ASSUME NEW p \in places \X {1} PROVE p[1] \in places
  OBVIOUS
<1>2. \A k \in places : <<k, 1>> \in places \X {1} /\ <<k, 1>>[1] = k
  OBVIOUS
<1>3. ASSUME Lists(s, WordsOf(places))
      PROVE  /\ \A k \in places : \E n \in DOMAIN s : s[n] = words[k]
             /\ \A n \in DOMAIN s : \E k \in places : s[n] = words[k]
  <2> DEFINE f == WordsOf(places)
  <2>1. DOMAIN f = places \X {1} /\ \A p \in places \X {1} : f[p] = words[p[1]]
    BY DEF WordsOf
  <2>2. Lists(s, f)
    BY <1>3
  <2> HIDE DEF f
  <2>3. /\ \A k \in DOMAIN s : \E p \in DOMAIN f : s[k] = f[p]
        /\ \A p \in DOMAIN f : \E k \in DOMAIN s : s[k] = f[p]
    BY <2>2, ListsEach
  <2>4. ASSUME NEW k \in places PROVE \E n \in DOMAIN s : s[n] = words[k]
    <3>1. <<k, 1>> \in DOMAIN f /\ f[<<k, 1>>] = words[k]
      BY <1>2, <2>1
    <3> QED
      BY <2>3, <3>1
  <2>5. ASSUME NEW n \in DOMAIN s PROVE \E k \in places : s[n] = words[k]
    <3>1. PICK p \in DOMAIN f : s[n] = f[p]
      BY <2>3
    <3>2. p[1] \in places /\ s[n] = words[p[1]]
      BY <1>1, <2>1, <3>1
    <3> QED
      BY <3>2
  <2> QED
    BY <2>4, <2>5
<1>4. ASSUME Lists(s, FlagsOf(places))
      PROVE  DOMAIN s = {} <=> places = {}
  <2> DEFINE f == FlagsOf(places)
  <2>1. DOMAIN f = places \X {1}
    BY DEF FlagsOf
  <2>2. Lists(s, f)
    BY <1>4
  <2> HIDE DEF f
  <2>3. /\ \A k \in DOMAIN s : \E p \in DOMAIN f : s[k] = f[p]
        /\ \A p \in DOMAIN f : \E k \in DOMAIN s : s[k] = f[p]
    BY <2>2, ListsEach
  <2>4. DOMAIN s = {} <=> DOMAIN f = {}
    BY <2>3
  <2> QED
    BY <1>1, <1>2, <2>1, <2>4
<1> QED
  BY <1>3, <1>4

LEMMA BadExpressionKeepsLine ==
  ASSUME LineInv, BadExpression
  PROVE  LineInv'
<1>1. PICK n : n = argn
  OBVIOUS
<1>2. result = "operands" /\ n <= Len(operands) /\ operands[n].bad
  BY <1>1 DEF BadExpression
<1>3. /\ words' = words /\ permutes' = permutes /\ operands' = operands /\ hosts' = hosts
      /\ requests' = requests /\ result' = "badExpression"
  BY DEF BadExpression
<1>4. /\ LineTypeOK /\ operands \in Seq(AnyWord) /\ n \in 1 .. Len(operands) + 1
      /\ Lists(operands, WordsOf(Operands))
  BY <1>1, <1>2, Asking
<1>5. n \in DOMAIN operands
  BY <1>2, <1>4
<1>6. \A i \in DOMAIN operands : \E k \in Operands : operands[i] = words[k]
  BY <1>4, ListsWords
<1>7. \E k \in Operands : words[k].bad
  <2>1. PICK k \in Operands : operands[n] = words[k]
    BY <1>5, <1>6
  <2> QED
    BY <1>2, <2>1
<1>8. NobodyAsked'
  BY <1>3, <1>7, NobodyNext
<1>9. LineTypeOK'
  BY <1>3, <1>4 DEF LineTypeOK
<1> QED
  BY <1>3, <1>8, <1>9 DEF LineInv, TakenSoFar, AskedSoFar

\* There are no requests if no word asks for anything.
LEMMA AsksNothing ==
  ASSUME LineInv, result \in {"operands", "asked"}, argn > Len(operands)
  PROVE  requests = <<>> <=> FlagWords(OptionsUpTo) \cup Operands = {}
<1>1. PICK n : n = argn
  OBVIOUS
<1> DEFINE S == STRING \cup {Flags[x] : x \in DOMAIN Flags}
           flags == FlagWords(OptionsUpTo)
<1>2. /\ operands \in Seq(AnyWord) /\ requests \in Seq(S) /\ n \in 1 .. Len(operands) + 1
      /\ Lists(operands, WordsOf(Operands))
  BY <1>1, Asking
<1>3. PICK m \in 0 .. Len(requests) :
        /\ Lists(SubSeq(requests, 1, m), FlagsOf(flags))
        /\ Len(requests) = m + n - 1
  BY <1>1, Asking
<1> HIDE DEF S, flags
<1>4. n = Len(operands) + 1 /\ Len(operands) \in Nat
  BY <1>1, <1>2
<1>5. Len(requests) = m + Len(operands) /\ m \in Nat
  BY <1>2, <1>3, <1>4
<1>6. m = 0 <=> flags = {}
  <2> DEFINE first == SubSeq(requests, 1, m)
  <2>1. DOMAIN first = {} <=> flags = {}
    BY <1>3, ListsWords
  <2>2. \A k \in 1 .. m : requests[k] \in S
    BY <1>2, <1>3
  <2>3. 1 \in Int /\ m \in Int
    BY <1>5
  <2>4. first \in Seq(S) /\ Len(first) = IF 1 <= m THEN m - 1 + 1 ELSE 0
    BY <2>2, <2>3, SubSeqProperties
  <2> HIDE DEF first
  <2>5. DOMAIN first = 1 .. m
    BY <1>5, <2>4
  <2> QED
    BY <1>5, <2>1, <2>5
<1>7. Len(operands) = 0 <=> Operands = {}
  <2>1. /\ \A k \in Operands : \E i \in DOMAIN operands : operands[i] = words[k]
        /\ \A i \in DOMAIN operands : \E k \in Operands : operands[i] = words[k]
    BY <1>2, ListsWords
  <2>2. DOMAIN operands = 1 .. Len(operands)
    BY <1>2
  <2>3. \A i \in Nat : i = 0 <=> 1 .. i = {}
    OBVIOUS
  <2>4. Len(operands) = 0 <=> DOMAIN operands = {}
    BY <1>4, <2>2, <2>3
  <2> QED
    BY <2>1, <2>4
<1>8. requests = <<>> <=> Len(requests) = 0
  BY <1>2
<1> QED
  BY <1>4, <1>5, <1>6, <1>7, <1>8 DEF flags

LEMMA NothingKeepsLine ==
  ASSUME LineInv, NothingToAsk
  PROVE  LineInv'
<1>1. result = "operands" /\ argn > Len(operands) /\ requests = <<>>
  BY DEF NothingToAsk
<1>2. /\ words' = words /\ permutes' = permutes /\ operands' = operands /\ hosts' = hosts
      /\ requests' = requests /\ result' = "usage"
  BY DEF NothingToAsk
<1>3. FlagWords(OptionsUpTo) \cup Operands = {}
  BY <1>1, AsksNothing
<1>4. NobodyAsked'
  BY <1>2, <1>3, NobodyNext
<1>5. LineTypeOK'
  BY <1>2 DEF LineInv, LineTypeOK
<1> QED
  BY <1>2, <1>4, <1>5 DEF LineInv, TakenSoFar, AskedSoFar

LEMMA AskKeepsLine ==
  ASSUME LineInv, AskThem
  PROVE  LineInv'
<1>1. PICK u : u = OptionsUpTo
  OBVIOUS
<1>2. /\ result = "operands" /\ argn > Len(operands) /\ requests # <<>>
      /\ words' = words /\ permutes' = permutes /\ operands' = operands /\ hosts' = hosts
      /\ port' = port /\ requests' = requests /\ argn' = argn /\ result' = "asked"
  BY DEF AskThem
<1>3. /\ LineTypeOK /\ operands \in Seq(AnyWord) /\ argn \in 1 .. Len(operands) + 1
      /\ \A k \in 1 .. argn - 1 : ~operands[k].bad
  BY <1>2, Asking
<1>4. /\ ~Refused(u) /\ PortIsFrom(u) /\ HostsTold
      /\ Lists(operands, WordsOf(Operands))
  BY <1>1, <1>2, Asking
<1>5. PICK m \in 0 .. Len(requests) :
        /\ Lists(SubSeq(requests, 1, m), FlagsOf(FlagWords(u)))
        /\ Len(requests) = m + argn - 1
        /\ \A k \in 1 .. argn - 1 : requests[m + k] = operands[k].text
  BY <1>1, <1>2, Asking
<1>6. argn = Len(operands) + 1
  BY <1>2, <1>3
<1>7. LineTypeOK'
  BY <1>2, <1>3 DEF LineTypeOK
<1>8. AskedSoFar'
  <2>1. PortIsFrom(u)'
    BY <1>2, <1>4 DEF PortIsFrom, PortWords, IsLast
  <2>2. IF DOMAIN HostsBefore(<<u + 1, 1>>) = {} THEN hosts' = <<"localhost">>
        ELSE Lists(hosts', HostsBefore(<<u + 1, 1>>))
    BY <1>1, <1>2, <1>4 DEF HostsTold
  <2>3. /\ words' = words /\ permutes' = permutes /\ OptionsUpTo = u
        /\ Lists(operands', WordsOf(Operands))
        /\ argn' \in 1 .. Len(operands') + 1
        /\ \A k \in 1 .. argn' - 1 : ~operands'[k].bad
    BY <1>1, <1>2, <1>3, <1>4
  <2>4. /\ m \in 0 .. Len(requests')
        /\ Lists(SubSeq(requests', 1, m), FlagsOf(FlagWords(u)))
        /\ Len(requests') = m + argn' - 1
        /\ \A k \in 1 .. argn' - 1 : requests'[m + k] = operands'[k].text
    BY <1>2, <1>5
  <2>5. argn' = Len(operands') + 1 /\ requests' # <<>>
    BY <1>2, <1>6
  <2> QED
    BY <1>4, <2>1, <2>2, <2>3, <2>4, <2>5, AskedNext
<1> QED
  BY <1>2, <1>7, <1>8 DEF LineInv, TakenSoFar, NobodyAsked

LEMMA LineStays ==
  ASSUME LineInv, UNCHANGED lineVars
  PROVE  LineInv'
<1>1. /\ words' = words /\ permutes' = permutes /\ optind' = optind /\ piece' = piece
      /\ operands' = operands /\ argn' = argn /\ hosts' = hosts /\ port' = port
      /\ requests' = requests /\ result' = result
  BY DEF lineVars
<1>2. OptionEnds' = OptionEnds /\ OptionsUpTo' = OptionsUpTo
  BY <1>1 DEF OptionEnds, OptionsUpTo
<1>3. Operands' = Operands
  BY <1>1, <1>2 DEF Operands, Passed
<1>4. \A to : /\ Refused(to)' <=> Refused(to)
              /\ PortIsFrom(to)' <=> PortIsFrom(to)
              /\ FlagsOf(FlagWords(to))' = FlagsOf(FlagWords(to))
              /\ WordsOf(Passed(to))' = WordsOf(Passed(to))
  BY <1>1 DEF Refused, PortIsFrom, PortWords, IsLast, FlagsOf, FlagWords, WordsOf, Passed
<1>5. \A p : HostsBefore(p)' = HostsBefore(p)
  <2>1. HostPlaces' = HostPlaces
    BY <1>1 DEF HostPlaces
  <2> QED
    BY <1>1, <2>1 DEF HostsBefore
<1>6. LineTypeOK' /\ NobodyAsked'
  <2>1. LineTypeOK'
    BY <1>1 DEF LineInv, LineTypeOK
  <2>2. NobodyAsked
    BY DEF LineInv
  <2>3. NobodyAsked'
    BY <1>1, <2>2, NobodyNext DEF NobodyAsked
  <2> QED
    BY <2>1, <2>3
<1>7. TakenSoFar'
  <2>1. AtOption("h")' <=> AtOption("h")
    BY <1>1 DEF AtOption, AtWord
  <2>2. TakenSoFar
    BY DEF LineInv
  <2> QED
    BY <1>1, <1>2, <1>4, <1>5, <2>1, <2>2 DEF TakenSoFar
<1>8. AskedSoFar'
  <2>1. HostsTold' <=> HostsTold
    BY <1>1, <1>2, <1>5 DEF HostsTold
  <2>2. WordsOf(Operands)' = WordsOf(Operands)
    BY <1>1, <1>3 DEF WordsOf
  <2>3. AskedSoFar
    BY DEF LineInv
  <2> QED
    BY <1>1, <1>2, <1>4, <2>1, <2>2, <2>3 DEF AskedSoFar
<1> QED
  BY <1>6, <1>7, <1>8 DEF LineInv

LEMMA LineStep ==
  ASSUME LineInv, [ReadLine]_lineVars
  PROVE  LineInv'
<1>1. CASE TakePiece
  BY <1>1, PieceKeepsLine
<1>2. CASE HostOption \/ PortOption \/ Flag \/ PassOperand
  BY <1>2, OptionKeepsLine
<1>3. CASE PortThrows \/ ShowVersion \/ UnknownOption
  BY <1>3, RefusalKeepsLine
<1>4. CASE OptionsEnd
  BY <1>4, EndKeepsLine
<1>5. CASE Expression
  BY <1>5, ExpressionKeepsLine
<1>6. CASE BadExpression
  BY <1>6, BadExpressionKeepsLine
<1>7. CASE NothingToAsk
  BY <1>7, NothingKeepsLine
<1>8. CASE AskThem
  BY <1>8, AskKeepsLine
<1>9. CASE UNCHANGED lineVars
  BY <1>9, LineStays
<1> QED
  BY <1>1, <1>2, <1>3, <1>4, <1>5, <1>6, <1>7, <1>8, <1>9 DEF ReadLine

\* The texts of the operands, in the order of the requests for them.
LEMMA TextsListed ==
  ASSUME LineInv, result = "asked", NEW m \in 0 .. Len(requests),
         Len(requests) = m + argn - 1,
         \A k \in 1 .. argn - 1 : requests[m + k] = operands[k].text
  PROVE  Lists(SubSeq(requests, m + 1, Len(requests)), TextsOf(Operands))
<1> DEFINE S == STRING \cup {Flags[x] : x \in DOMAIN Flags}
           n == Len(requests)
           t == SubSeq(requests, m + 1, n)
           f == WordsOf(Operands)
           g == TextsOf(Operands)
<1>1. /\ operands \in Seq(AnyWord) /\ requests \in Seq(S)
      /\ Lists(operands, f) /\ argn = Len(operands) + 1
  BY Asking
<1>2. /\ n \in Nat /\ m \in Nat /\ m + 1 \in Int /\ n \in Int
      /\ Len(operands) \in Nat /\ DOMAIN operands = 1 .. Len(operands)
      /\ n = m + Len(operands) /\ argn - 1 = Len(operands)
  BY <1>1
<1>3. \A k \in m + 1 .. n : requests[k] \in S
  BY <1>1, <1>2
<1> HIDE DEF S
<1>4. /\ t \in Seq(S) /\ Len(t) = IF m + 1 <= n THEN n - (m + 1) + 1 ELSE 0
      /\ \A k \in 1 .. n - (m + 1) + 1 : t[k] = requests[m + 1 + k - 1]
  BY <1>2, <1>3, SubSeqProperties
<1> HIDE DEF t, n
<1>5. Len(t) = Len(operands) /\ n - (m + 1) + 1 = Len(operands)
  BY <1>2, <1>4
<1>6. DOMAIN t = DOMAIN operands
  BY <1>2, <1>4, <1>5
<1>7. \A k \in DOMAIN operands : t[k] = operands[k].text
  <2>1. \A k \in 1 .. Len(operands) : m + 1 + k - 1 = m + k
    BY <1>2
  <2>2. \A k \in 1 .. Len(operands) : requests[m + k] = operands[k].text
    BY <1>2
  <2> QED
    BY <1>2, <1>4, <1>5, <2>1, <2>2
<1>8. DOMAIN g = DOMAIN f /\ \A p \in DOMAIN f : g[p] = f[p].text
  BY DEF WordsOf, TextsOf
<1> HIDE DEF f, g
<1>9. \A k \in DOMAIN operands : \A p \in DOMAIN f : operands[k] = f[p] => t[k] = g[p]
  BY <1>7, <1>8
<1>10. Lists(t, g)
  BY <1>1, <1>6, <1>8, <1>9, ListsOther
<1> QED
  BY <1>10 DEF t, n, g

\* The invariant says what is asked of whom.
LEMMA LineAsks ==
  ASSUME LineInv
  PROVE  AsksAsTold
<1> DEFINE flags == FlagWords(OptionsUpTo)
           nobody == \/ Refused(OptionsUpTo) \/ \E k \in Operands : words[k].bad
                     \/ flags \cup Operands = {}
           Says == \E m \in 0 .. Len(requests) :
                     /\ Lists(SubSeq(requests, 1, m), FlagsOf(flags))
                     /\ Lists(SubSeq(requests, m + 1, Len(requests)), TextsOf(Operands))
<1>1. ASSUME result = "asked" PROVE ~nobody /\ HostsTold /\ Says
  <2>1. /\ operands \in Seq(AnyWord) /\ ~Refused(OptionsUpTo) /\ HostsTold
        /\ Lists(operands, WordsOf(Operands)) /\ argn = Len(operands) + 1
        /\ \A k \in 1 .. argn - 1 : ~operands[k].bad
        /\ requests # <<>>
    BY <1>1, Asking
  <2>2. PICK m \in 0 .. Len(requests) :
          /\ Lists(SubSeq(requests, 1, m), FlagsOf(flags))
          /\ Len(requests) = m + argn - 1
          /\ \A k \in 1 .. argn - 1 : requests[m + k] = operands[k].text
    BY <1>1, Asking
  <2>3. Says
    BY <1>1, <2>2, TextsListed
  <2>4. argn - 1 = Len(operands) /\ DOMAIN operands = 1 .. Len(operands)
        /\ argn > Len(operands)
    BY <2>1
  <2>5. \A k \in Operands : \E i \in DOMAIN operands : operands[i] = words[k]
    BY <2>1, ListsWords
  <2>6. \A k \in Operands : ~words[k].bad
    BY <2>1, <2>4, <2>5
  <2>7. flags \cup Operands # {}
    BY <1>1, <2>1, <2>4, AsksNothing
  <2> HIDE DEF flags, Says
  <2> QED
    BY <2>1, <2>3, <2>6, <2>7
<1>2. ASSUME result \notin {"options", "operands", "asked"} PROVE nobody
  <2>1. result \in {"aborted", "version", "usage", "badExpression"}
    BY <1>2 DEF LineInv, LineTypeOK
  <2>2. NobodyAsked
    BY DEF LineInv
  <2> QED
    BY <2>1, <2>2 DEF NobodyAsked
<1> QED
  BY <1>1, <1>2 DEF AsksAsTold

=============================================================================
