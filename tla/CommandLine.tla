---------------------------- MODULE CommandLine ----------------------------
(***************************************************************************)
(* What mctally's main() makes of its command line: whom it will ask, at   *)
(* which port and for what, or why it asks nobody.                         *)
(*                                                                         *)
(* apps/mctally/mctally.cc                                                 *)
(***************************************************************************)
EXTENDS Integers, SequencesExt

(***************************************************************************)
(* A command line is a sequence of words with their text, bad if std::regex *)
(* cannot be made of it.  An option, with its argument in the same word,    *)
(* has a field that is named for it: h (the texts between the commas of    *)
(* its argument), p (a number, or NotANumber), flag (one of Flags' letters), *)
(* v, other (what getopt() does not take) or end (--).                     *)
(***************************************************************************)
NotANumber == -1
ClientPort == 2125

Flags == [a |-> "loadAverages", l |-> "logins", t |-> "uptime", u |-> "uname"]

AnyWord ==
  [text : STRING, bad : BOOLEAN]
  \cup [text : STRING, bad : BOOLEAN, h : Seq(STRING)]
  \cup [text : STRING, bad : BOOLEAN, p : Int]
  \cup [text : STRING, bad : BOOLEAN, flag : DOMAIN Flags]
  \cup [text : STRING, bad : BOOLEAN, v : {TRUE}]
  \cup [text : STRING, bad : BOOLEAN, other : {TRUE}]
  \cup [text : STRING, bad : BOOLEAN, end : {TRUE}]

VARIABLES
  words,     \* the command line
  permutes,  \* getopt() looks for options behind operands, as glibc's does
  optind,    \* the word that comes next
  piece,     \* the piece of its argument that comes next
  operands,  \* the operands, as far as they were found
  argn,      \* the operand that comes next
  hosts, port, requests,  \* main()'s
  result     \* "options", "operands", or how it ended

lineVars == <<words, permutes, optind, piece, operands, argn, hosts, port, requests, result>>

InitLine ==
  /\ permutes \in BOOLEAN
  /\ optind = 1 /\ piece = 1 /\ argn = 1
  /\ operands = <<>> /\ hosts = <<>> /\ requests = <<>>
  /\ port = ClientPort
  /\ result = "options"

AtWord == result = "options" /\ optind <= Len(words)

\* getopt() has come to that option, or to an operand.
AtOption(name) == AtWord /\ name \in DOMAIN words[optind]
AtOperand == AtWord /\ DOMAIN words[optind] = {"text", "bad"}

NextWord ==
  /\ optind' = optind + 1 /\ piece' = 1
  /\ UNCHANGED <<words, permutes, argn>>

\* SplitArg() has come to a piece of an -h.
AtPiece == AtOption("h") /\ piece <= Len(words[optind].h)

\* Variant of TakePiece that forgets the hosts of an earlier -h.
TakePiece_Last ==
  /\ AtPiece
  /\ LET host == words[optind].h[piece]
         old == IF piece = 1 THEN <<>> ELSE hosts
     IN hosts' = IF host = "" THEN old ELSE Append(old, host)
  /\ piece' = piece + 1
  /\ UNCHANGED <<words, permutes, optind, operands, argn, port, requests, result>>

\* Pieces between two commas, or a comma and an end, are left out.
TakePiece ==
  /\ AtPiece
  /\ LET host == words[optind].h[piece]
     IN hosts' = IF host = "" THEN hosts ELSE Append(hosts, host)
  /\ piece' = piece + 1
  /\ UNCHANGED <<words, permutes, optind, operands, argn, port, requests, result>>

HostOption ==
  /\ AtOption("h") /\ ~AtPiece /\ NextWord
  /\ UNCHANGED <<operands, hosts, port, requests, result>>

\* Variant of PortOption that takes the first -p alone.
PortOption_First ==
  /\ AtOption("p") /\ words[optind].p # NotANumber /\ NextWord
  /\ port' = IF port = ClientPort THEN words[optind].p % 65536 ELSE port
  /\ UNCHANGED <<operands, hosts, requests, result>>

\* The number is narrowed to 16 bits.
PortOption ==
  /\ AtOption("p") /\ words[optind].p # NotANumber /\ NextWord
  /\ port' = words[optind].p % 65536
  /\ UNCHANGED <<operands, hosts, requests, result>>

\* std::stoul throws, and nothing catches.
PortThrows ==
  /\ AtOption("p") /\ words[optind].p = NotANumber /\ NextWord
  /\ result' = "aborted"
  /\ UNCHANGED <<operands, hosts, port, requests>>

Flag ==
  /\ AtOption("flag") /\ NextWord
  /\ requests' = Append(requests, Flags[words[optind].flag])
  /\ UNCHANGED <<operands, hosts, port, result>>

ShowVersion ==
  /\ AtOption("v") /\ NextWord
  /\ result' = "version"
  /\ UNCHANGED <<operands, hosts, port, requests>>

UnknownOption ==
  /\ AtOption("other") /\ NextWord
  /\ result' = "usage"
  /\ UNCHANGED <<operands, hosts, port, requests>>

PassOperand ==
  /\ AtOperand /\ permutes /\ NextWord
  /\ operands' = Append(operands, words[optind])
  /\ UNCHANGED <<hosts, port, requests, result>>

\* All that is left are operands: behind --, behind the first of them or, if
\* getopt() permutes, at the end.
OptionsEnd ==
  /\ result = "options"
  /\ ~AtWord \/ AtOption("end") \/ (AtOperand /\ ~permutes)
  /\ operands' = operands \o
       SubSeq(words, IF AtOption("end") THEN optind + 1 ELSE optind, Len(words))
  /\ hosts' = IF hosts = <<>> THEN <<"localhost">> ELSE hosts
  /\ result' = "operands"
  /\ UNCHANGED <<words, permutes, optind, piece, argn, port, requests>>

Expression ==
  /\ result = "operands" /\ argn <= Len(operands) /\ ~operands[argn].bad
  /\ requests' = Append(requests, operands[argn].text)
  /\ argn' = argn + 1
  /\ UNCHANGED <<words, permutes, optind, piece, operands, hosts, port, result>>

BadExpression ==
  /\ result = "operands" /\ argn <= Len(operands) /\ operands[argn].bad
  /\ result' = "badExpression"
  /\ UNCHANGED <<words, permutes, optind, piece, operands, argn, hosts, port, requests>>

NothingToAsk ==
  /\ result = "operands" /\ argn > Len(operands) /\ requests = <<>>
  /\ result' = "usage"
  /\ UNCHANGED <<words, permutes, optind, piece, operands, argn, hosts, port, requests>>

\* Module Client goes on from here.
AskThem ==
  /\ result = "operands" /\ argn > Len(operands) /\ requests # <<>>
  /\ result' = "asked"
  /\ UNCHANGED <<words, permutes, optind, piece, operands, argn, hosts, port, requests>>

ReadLine ==
  \/ TakePiece \/ HostOption \/ PortOption \/ PortThrows \/ Flag \/ ShowVersion
  \/ UnknownOption \/ PassOperand \/ OptionsEnd
  \/ Expression \/ BadExpression \/ NothingToAsk \/ AskThem

-----------------------------------------------------------------------------
(***************************************************************************)
(* Properties                                                              *)
(***************************************************************************)
\* Where the options end, and the words that are operands.
OptionEnds ==
  {k \in DOMAIN words :
     \/ "end" \in DOMAIN words[k]
     \/ ~permutes /\ DOMAIN words[k] = {"text", "bad"}}

OptionsUpTo == IF OptionEnds = {} THEN Len(words) ELSE Min(OptionEnds) - 1

Passed(upTo) == {k \in 1 .. upTo : DOMAIN words[k] = {"text", "bad"}}

Operands ==
  LET rest == OptionsUpTo + 1
  IN Passed(OptionsUpTo) \cup
       IF rest <= Len(words) /\ "end" \in DOMAIN words[rest]
       THEN rest + 1 .. Len(words) ELSE rest .. Len(words)

(***************************************************************************)
(* A place on the command line is a word and a piece of it, the first if   *)
(* it has no pieces.                                                       *)
(***************************************************************************)
Before(p, q) == p[1] < q[1] \/ (p[1] = q[1] /\ p[2] < q[2])

\* The sequence s is what f says of the places that it is about, of each of
\* them once and in their order.
Lists(s, f) ==
  \E at \in [DOMAIN s -> DOMAIN f] :
    /\ \A p \in DOMAIN f : \E k \in DOMAIN s : at[k] = p
    /\ \A k \in DOMAIN s : \A l \in DOMAIN s : k < l => Before(at[k], at[l])
    /\ \A k \in DOMAIN s : s[k] = f[at[k]]

\* The places where -h names a host.
HostPlaces ==
  {q \in UNION {{<<k, m>> : m \in DOMAIN words[k].h} :
                  k \in {l \in DOMAIN words : "h" \in DOMAIN words[l]}} :
     words[q[1]].h[q[2]] # ""}

\* The hosts that stand before a place, the requests of the first words' flags
\* and the texts of some words.
HostsBefore(place) ==
  [p \in {q \in HostPlaces : Before(q, place)} |-> words[p[1]].h[p[2]]]

FlagWords(upTo) == {k \in 1 .. upTo : "flag" \in DOMAIN words[k]}
WordsOf(places) == [p \in places \X {1} |-> words[p[1]]]
FlagsOf(places) == [p \in places \X {1} |-> Flags[words[p[1]].flag]]
TextsOf(places) == [p \in places \X {1} |-> words[p[1]].text]

\* There is something among the first words that ends main() at once.
Refused(upTo) ==
  \E k \in 1 .. upTo :
    \/ "v" \in DOMAIN words[k] \/ "other" \in DOMAIN words[k]
    \/ "p" \in DOMAIN words[k] /\ words[k].p = NotANumber

HostsTold ==
  LET told == HostsBefore(<<OptionsUpTo + 1, 1>>)
  IN IF DOMAIN told = {} THEN hosts = <<"localhost">> ELSE Lists(hosts, told)

\* main() asks the hosts of all -h, each time it names them, or else localhost,
\* for what the options say, in their order, and then for each operand's
\* packages; and it asks nobody if there is anything that it does not take,
\* -v, or nothing to ask for.  What is meant does not depend on where the
\* operands stand if getopt() permutes.
AsksAsTold ==
  LET flags == FlagWords(OptionsUpTo)
      nobody == \/ Refused(OptionsUpTo) \/ \E k \in Operands : words[k].bad
                \/ flags \cup Operands = {}
  IN result \notin {"options", "operands"} =>
       /\ result = "asked" <=> ~nobody
       /\ result = "asked" =>
            /\ HostsTold
            /\ \E m \in 0 .. Len(requests) :
                 /\ Lists(SubSeq(requests, 1, m), FlagsOf(flags))
                 /\ Lists(SubSeq(requests, m + 1, Len(requests)), TextsOf(Operands))

\* The first words' -p, the last of which counts.
PortWords(upTo) == {k \in 1 .. upTo : "p" \in DOMAIN words[k]}
IsLast(k, places) == k \in places /\ \A l \in places : l <= k

PortIsFrom(upTo) ==
  /\ PortWords(upTo) = {} => port = ClientPort
  /\ PortWords(upTo) # {} =>
       \E k \in PortWords(upTo) : IsLast(k, PortWords(upTo)) /\ port = words[k].p % 65536

\* mctally connects to the port that -p gives, and to 2125 without -p, as its
\* usage says; but a number that is no TCP port is narrowed to one.
ConnectsToPortGiven ==
  result = "asked" =>
    LET told == PortWords(OptionsUpTo)
    IN IF told = {} THEN port = 2125
       ELSE \E k \in told : IsLast(k, told) /\ port = words[k].p

-----------------------------------------------------------------------------
(***************************************************************************)
(* What makes AsksAsTold inductive, and the port what the words say.       *)
(***************************************************************************)
LineTypeOK ==
  /\ words \in Seq(AnyWord) /\ operands \in Seq(AnyWord)
  /\ hosts \in Seq(STRING \cup {"localhost"})
  /\ requests \in Seq(STRING \cup {Flags[x] : x \in DOMAIN Flags})
  /\ result \in {"options", "operands", "asked", "aborted", "version", "usage",
                 "badExpression"}

\* The options so far have been taken, up to a piece of an -h, and no word
\* behind their end.
TakenSoFar ==
  result = "options" =>
    /\ optind \in 1 .. Len(words) + 1 /\ piece \in Nat \ {0} /\ argn = 1
    /\ piece <= IF AtOption("h") THEN Len(words[optind].h) + 1 ELSE 1
    /\ \A k \in OptionEnds : k >= optind
    /\ ~Refused(optind - 1) /\ PortIsFrom(optind - 1)
    /\ Lists(hosts, HostsBefore(<<optind, piece>>))
    /\ Lists(requests, FlagsOf(FlagWords(optind - 1)))
    /\ Lists(operands, WordsOf(Passed(optind - 1)))

\* All options have been taken, and the first operands.
AskedSoFar ==
  result \in {"operands", "asked"} =>
    /\ ~Refused(OptionsUpTo) /\ PortIsFrom(OptionsUpTo) /\ HostsTold
    /\ Lists(operands, WordsOf(Operands))
    /\ argn \in 1 .. Len(operands) + 1
    /\ \A k \in 1 .. argn - 1 : ~operands[k].bad
    /\ \E m \in 0 .. Len(requests) :
         /\ Lists(SubSeq(requests, 1, m), FlagsOf(FlagWords(OptionsUpTo)))
         /\ Len(requests) = m + argn - 1
         /\ \A k \in 1 .. argn - 1 : requests[m + k] = operands[k].text
    /\ result = "asked" => argn = Len(operands) + 1 /\ requests # <<>>

\* There is a reason to ask nobody.
NobodyAsked ==
  /\ result \in {"aborted", "version"} => Refused(OptionsUpTo)
  /\ result = "usage" => Refused(OptionsUpTo) \/ FlagWords(OptionsUpTo) \cup Operands = {}
  /\ result = "badExpression" => \E k \in Operands : words[k].bad

LineInv == LineTypeOK /\ TakenSoFar /\ AskedSoFar /\ NobodyAsked

=============================================================================
