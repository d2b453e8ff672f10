------------------------------- MODULE Reach -------------------------------
(***************************************************************************)
(* A mctallyd that was given a configuration file, and then a mctally that *)
(* was given a command line, which is to find the daemon on one of the     *)
(* ports that it listens on.                                               *)
(*                                                                         *)
(* classes/src/DwmMcTallyConfigParse.y, apps/mctally/mctally.cc            *)
(***************************************************************************)
EXTENDS Config, CommandLine

CONSTANT Lines   \* the command lines that may follow each file

ASSUME LinesAssumption ==
  DOMAIN Lines = Files /\ \A f \in Files : Lines[f] \subseteq Seq(AnyWord)

Init == InitConfig /\ words \in Lines[file] /\ InitLine

\* mctallyd has read its file.
ReadsLine == rc # "parsing" /\ ReadLine /\ UNCHANGED configVars

\* Both programs have read all; the model's stutter.
Terminated ==
  /\ rc # "parsing" /\ result \notin {"options", "operands"}
  /\ UNCHANGED <<configVars, lineVars>>

Next == (Parse /\ UNCHANGED lineVars) \/ ReadsLine \/ Terminated

Spec == Init /\ [][Next]_<<configVars, lineVars>>

-----------------------------------------------------------------------------
\* The ports of the addresses that the file gives, NoPort for one without.
PortsInFile ==
  LET end == <<Len(file) + 1, 1>>
      places == Given(file, LastService(file, end), "addresses", end)
  IN {a.port : a \in ToSet(LastOf(file, places, "addresses", <<>>))}

PortsListenedOn == {e.port : e \in config.service.addresses}

\* There is an address whose port mctallyd chose itself.
ChosenByDaemon == PortsInFile = {} \/ NoPort \in PortsInFile

\* A mctally that was told a TCP port, by the last of its -p, meets a mctallyd
\* whose file says the same port, and no other, unless mctallyd has chosen a
\* port itself, about which neither text says anything.
MeetWhereTold ==
  rc = "true" /\ result = "asked" =>
    \A k \in PortWords(OptionsUpTo) :
      IsLast(k, PortWords(OptionsUpTo)) /\ ValidPort(words[k].p) =>
        /\ words[k].p \in PortsInFile => port \in PortsListenedOn
        /\ port \in PortsListenedOn => words[k].p \in PortsInFile \/ ChosenByDaemon

\* The two programs meet if neither was told a port, as mctally's usage and
\* manual page have it: the port that mctallyd is listening on, 2125 by default.
\* They do not: mctallyd's own default is 2124.
DefaultsMeet ==
  rc = "true" /\ result = "asked" /\ PortsInFile \subseteq {NoPort}
  /\ PortWords(OptionsUpTo) = {} => port \in PortsListenedOn

=============================================================================
