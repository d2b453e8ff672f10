----------------------------- MODULE MCAnswers -----------------------------
(***************************************************************************)
(* A small instance of Answers.  Each host has what one kind of question   *)
(* needs: lists of packages and ports, with names that differ by case, a   *)
(* name installed twice, a line without a version and one without a name;  *)
(* release lines, doubled and unknown ones; clocks, one of them set back.  *)
(***************************************************************************)
EXTENDS Answers

Names == {"libDwm", "libdwm", "mctally", "org.macports.mctally", "org.macports.libDwm"}
MCLower ==
  [n \in Names |-> CASE n = "libDwm" -> "libdwm"
                     [] n = "org.macports.libDwm" -> "org.macports.libdwm"
                     [] OTHER -> n]
MCReleaseNames == [v \in {"13.6", "14.1"} |-> IF v = "13.6" THEN "Ventura" ELSE "Sonoma"]

Line(n, v) == [name |-> n, version |-> v]
KeyLine(k, v) == [key |-> k, value |-> v]

PackageLines == {Line("libDwm", "1"), Line("libDwm", "2"), Line("libdwm", "1"),
                 Line("mctally", ""), Line("", "")}
PortLines == {Line("mctally", "3"), Line("libDwm", "")}
SwVersLines == {KeyLine("ProductName", "macOS"), KeyLine("ProductVersion", "14.1"),
                KeyLine("ProductVersion", "26.0"), KeyLine("BuildVersion", "23B81")}
OsReleaseLines == {KeyLine("NAME", "Debian"), KeyLine("PRETTY_NAME", ""),
                   KeyLine("PRETTY_NAME", "Debian 12"), KeyLine("PRETTY_NAME", "Debian 13")}

\* The uptime, the clock and the clock's time of boot.
Clocks == {<<0, 5, 5>>, <<59, 64, 5>>, <<60, 3, 5>>, <<3599, 3604, 5>>,
           <<86400, 86405, 5>>, <<90061, 90066, 5>>}

Host(os, clock, p, q, r) ==
  [os |-> os, up |-> clock[1], now |-> clock[2], boot |-> clock[3],
   packages |-> p, ports |-> q, release |-> r]

MCHosts ==
  {Host("macOS", <<0, 5, 5>>, p, q, <<>>) : p \in SeqOf(PackageLines, 2), q \in SeqOf(PortLines, 2)}
  \cup {Host(os, <<0, 5, 5>>, p, <<>>, <<>>) : os \in {"FreeBSD", "Linux"}, p \in SeqOf(PackageLines, 2)}
  \cup {Host("macOS", <<0, 5, 5>>, <<>>, <<>>, r) : r \in SeqOf(SwVersLines, 3)}
  \cup {Host(os, <<0, 5, 5>>, <<>>, <<>>, r) : os \in {"FreeBSD", "Linux"}, r \in SeqOf(OsReleaseLines, 2)}
  \cup {Host(os, c, <<>>, <<>>, <<>>) : os \in {"macOS", "FreeBSD", "Linux"}, c \in Clocks}

Expr(names, text) == [bad |-> FALSE, names |-> names, text |-> text]
Exprs == {[bad |-> TRUE, names |-> {}, text |-> "("],
          Expr({"libDwm", "org.macports.libDwm"}, ".*libDwm"),
          Expr({"mctally", "org.macports.mctally"}, ".*mctally"),
          Expr({"libDwm", "mctally"}, "[a-z].*")}

MCQuestions ==
  {[form |-> "one", exprs |-> <<e>>] : e \in Exprs}
  \cup {[form |-> "list", exprs |-> s] : s \in SeqOf(Exprs, 2)}
  \cup {[form |-> f, exprs |-> <<>>] : f \in {"prettyName", "uptime", "other"}}

Login(user, idle) == <<user, "pts/1", "", 7, idle>>
MCSystemNames == <<"Linux", "host", "6.1", "#1", "x86_64">>
MCOtherData ==
  {[loadAverages |-> <<0, 1, 2>>], [logins |-> <<>>],
   [logins |-> <<Login("dwm", 0), Login("root", 3)>>]}

\* What the object may have been used for.
MCUsed ==
  {NoResponse,
   ResponseOf([installedPackages |-> [selector |-> "old", pkgs |-> [n \in {"old"} |-> "0"]]]),
   ResponseOf([uname |-> [k \in 1 .. 6 |-> "old"]]),
   ResponseOf([loadAverages |-> <<9, 9, 9>>]),
   ResponseOf([logins |-> <<Login("old", 9)>>]),
   ResponseOf([uptime |-> 999])}

=============================================================================
