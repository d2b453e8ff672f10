# mctally in TLA+

mctally shows what is installed and running on a set of hosts. Each host runs
the daemon `mctallyd`; the command `mctally` and the CGI program `mctallycgi`
ask many daemons at once and print what they answer. This directory holds TLA+
models of those programs, TLC configurations that check them on small
instances, and proofs of the main safety properties for instances of any size.

    tlc -config MCServer_safety.cfg MCServer      # one run
    tlapm ServerProofs.tla                        # one module's proofs

## 1. The system

| part | state | operations | meets the others through |
|---|---|---|---|
| **mctallyd process** (`mctallyd.cc.in`) | the SIGTERM disposition, `g_gotSigTerm`, `g_serverContext` stopped or not, the PID file | `SavePID`, `RemovePID`, `SigTermHandler`, `BoostSignalHandler`, `main()` | signals; the PID file and the service address, which other processes also want |
| **Server** (`DwmMcTallyServer.*`) | `_responders`, the acceptors and which of them are armed | constructor, `AcceptLoop`'s handler, `ClientAllowed`, `CleanupResponders`, `Stop` | runs in `main()`'s thread; owns Responders; accepts from the kernel's queues |
| **Responder** (`DwmMcTallyResponder.*`) | `_running`, its thread, its peer | constructor (key exchange, thread), `Run`, `HandleRequest`, `Join`, destructor | its thread and the Server's thread share `_running` and the object |
| **Client session** (`SendReceive`, `PeerThread`) | the place in the requests, the responses so far | `GetPeer`, `SendReceive`, `PrintResponses` | two streams to one Responder |
| **Client programs** (`mctally.cc`, `mctallycgi.cc`) | the command line's hosts, port and requests; the threads, standard output and its mutex | `SplitArg`, `main()`, one `PeerThread` per host | threads share the requests (by reference), the mutex and the output |
| **Request, Response** | an enumerator with a selector; a variant of data | constructors, `Read`, `Write`, `ToJson`, `FromJson` | the bytes of a session; JSON (in tests) |
| **Configuration parser** (`DwmMcTallyConfigParse.y`, `.lex`, `ServiceConfig`) | addresses, key directory, allowed clients, syslog settings | `Config::Parse`, `Clear` | read once by `main()` before the Server exists |
| **Logins** | utmp's cursor and buffer, a static mutex | `SetFromUtmp`, `GetIdleTime` | called by Responder threads, concurrently |
| **Other host information** (`Utils`, `Uname`, `LoadAvg`, `InstalledPackages`) | none | `GetInstalledVersions`, `GetUptime`, `TimeIntervalString`, ... | called by Responder threads, concurrently |
| **External** | | libDwm, libCredence (`Peer`), boost asio, the kernel | modelled only as `src/` uses them |

What is hard in it:

- **Concurrency.** One Responder thread per client runs beside the thread that
  accepts, sweeps and destroys. They are tied together by one atomic flag,
  `_running`, which both sides store. In the clients, all hosts' threads write
  to one output in many small pieces.
- **Failure.** Clients close or reset at any moment; accepts, handshakes,
  `std::thread`'s constructor, sends, receives and information sources fail.
- **Ordering.** Three SIGTERM dispositions follow one another at start-up, with
  the PID file and `bind()` between them. Responses are matched to requests by
  enumerator and place only.
- **Timeouts.** The key exchange and the authentication are bounded by 2000 ms;
  `Receive` is not, on either side.

What makes each part correct:

- Server and Responder: no thread outlives its object; the accepting thread
  never waits for a client; no connection is lost or owned twice; finished
  threads are reaped; SIGTERM ends the process.
- Session: each answer is kept in its request's place; both ends agree on where
  a message starts; all or nothing is printed; both threads end.
- Client programs: reports are not mixed; `main()` returns after the last
  thread; one silent host does not hold up the others' reports.
- Configuration: a file is accepted only if all of it is valid, and means what
  its last settings say; what is written can be read back.
- Logins: each request gets one whole walk over utmp, whatever the others do.
- Host information: on every system a client gets the installed packages that a
  good expression of its own matches, whatever else fails; the pretty name is
  whole or empty, its parts what the host said; an uptime is never more than the clock's time.
- Forms: what is written is read back as it was, also into an object that was in
  use; what is damaged is refused, and a refused document changes no Response.
- Command line: the hosts, requests and port are what the words say, in their
  order; a client and a daemon meet when both were told the same TCP port.
- Process: the PID file is never a mixture and never names a daemon that has
  ended in order; SIGTERM is never lost.

`PROJECT.json` lists the same as *hazards*, each with its line in the source
and the properties that would catch it.

## 2. The modules

### Server, with ResponderPool as what it promises

`Server.tla` is the main thread, every Responder's thread, the kernel's accept
queues and the clients. An action is the code between two points at which
another thread, a client or a signal could tell the difference.

| model | code |
|---|---|
| `main`, `acc`, `sock`, `ri` | where the one asio thread is, the acceptor and the socket of the completion handler that runs, the iterator of `CleanupResponders` |
| `responders`, `armed`, `backlog` | `_responders`, the outstanding `async_accept`s, the listening sockets' queues |
| `thread`, `running` | where each `Responder::Run` is; `_running` |
| `client`, `sigterm` | what a read from the connection would find; SIGTERM |
| `Accept`, `AcceptError` -> `SweepSkip`/`SweepJoin`/`Joined`/`SweepErase`/`SweepEnd` -> `Admit`/`Deny`/`RemoteEndpointThrows`/`ExitAcceptLoop` -> `Rearm` | the completion handler in `AcceptLoop`, with `CleanupResponders` and `Join` inlined step by step, because threads move between those steps |
| `HandshakeOk`/`HandshakeFails`, `SpawnThread`/`SpawnThrows`, `Publish` | the Responder's constructor, split at the thread's start and at `_running.store(true)` |
| `AuthOk` ... `StoreNotRunning`, `ThreadReturns` | `Responder::Run` |
| `BoostSignalHandler`, `Stop`, `DestroyNext`, `DestroyResponder`, `DestroyTerminates`, `Exit` | SIGTERM to `main()`'s return, with `~Responder` |

A connection's identity is used again once the server holds nothing of it, so
that a few connections stand for an unbounded sequence of clients. A
Responder is named by its connection.

`ResponderPool.tla` is the promise: a connection is *free*, *rejected*,
*serving* or *finished*; only allowed clients leave *free*; a served one is
given back only once it is finished; a rejected one only at shutdown; the
process ends in order only when it holds nothing. `Server` maps to it by
`slotOf` and `processOf`, and `ImplementsPool` is the refinement.

### Session, with Query as what it promises

`Session.tla` is one `PeerThread` and one `Responder::Run` over two streams of
*fields*. A Request is written as one or two fields and a Response as its
Request and its data; there is no frame, so `Read` and `Write` are modelled by
the fields they take and put. Every send, receive, handshake and source may
fail, and the network may cut the connection inside a message. `Served` is the
set of cases in `HandleRequest`. `mctally` and `mctallycgi` have the same
session; what each action maps to is given for one of the two.

`Query.tla` is the promise: every answer in order, or nothing, once.

### Client

`Client.tla` is `main()` of both programs (`Html` tells them apart) and all
`PeerThread`s, each session shrunk to *answered* or *not answered*. `mtx` is
the static mutex of `PrintResponses`, and `out` is standard output as the
sequence of pieces that the `Print` functions write, each marked with its host.

### Daemon

`Daemon.tla` is several `mctallyd` processes on one machine. `Disposition`
gives what SIGTERM does at each place of `main()`; the PID file is the last
writer and the length, which is enough to tell a whole PID from a mixture
(a shorter PID written over a longer one). `ExLock` says whether the system has
`O_EXLOCK`, as the `#ifdef` in `SavePID` asks. What happens in
`io_context::run()` is `Server`'s; here it is one place.

### Config

`Config.tla` is `Config::Parse`: one action per reduction of the grammar that
has an effect. The settings of a service stanza are gathered in `service` (the
parser's `$$`) and replace the Config's at the stanza's end; those of a syslog
stanza are made at once. `Error` is a `return 1` of a grammar action, or one
of the syntax errors that are modelled, an empty stanza, list or file, and leaves what was set.
`logLocations` is set by any text that begins with `yes` in any case of letters, since the
grammar compares three letters (`strncasecmp`); those texts are the constant `YesTexts`. `Written` is
`operator<<`, as the file that it writes.

### Logins

`Logins.tla` is `Logins::SetFromUtmp` in several threads. `cursor` and `buffer`
belong to `getutxent()` and thus to the whole process; `mtx` is the static
mutex. `IdleTime` is `GetIdleTime` modulo the values of a `uint64_t`. `ever` and
`always` are history variables which say what a walk may and must report.

### HostInfo and Answers

`HostInfo.tla` is what a Responder's thread finds out by reading a command or a
file line by line: `place` is whether the source is to be opened, is being read
or is done with, and `line` is the loop's. The three platforms and the two
forms (one expression, a list) share the loop; what differs is in `Lines` (with
one expression `pkgutil` selects), `Parses`, `Name`, `Matches`, `Stops` and in
`ReadReceipt`, which runs a second command for each package. `Leave` takes macOS
from `pkgutil` to MacPorts. An expression is the set of names that it matches;
a line is the name and version that the code's parsing finds in it.

`Answers.tla` EXTENDS it: what was found out, or load averages or logins, becomes
a Response (`Respond`), is written (`WriteJson`, `WriteDataJson` for a class of
its own, `WriteBytes`), perhaps damaged (`Damage`), and read into an object of
`Used`. A JSON value is a record with one field, named for its type. `Leading`
is the loop that every `FromJson` of a row has, which stops at the first field
that is missing or of another type; the classes differ in what they have
assigned by then.

| model | code |
|---|---|
| `RequestFromJson`, `ResponseFromJson`, `DataFromJson`, `LoginsFromJson`, `PackagesFromJson`, `RowFromJson` | each class's `FromJson`, with what it leaves when it fails |
| `RequestFromBytes`, `FromBytes` | `Request::Read`, `Response::Read`; a stream is a sequence of fields, as in `Session` |

### CommandLine and Reach

`CommandLine.tla` is `mctally`'s `main()` up to its first thread: `getopt()`'s loop,
the expressions, the defaults. It takes a word a step (`optind`), of an `-h` one piece
of `SplitArg()`'s (`piece`), and then an operand a step (`argn`). Whether `getopt()` looks
for options behind operands (glibc's does) is the variable `permutes`. What is meant is
stated over places, a word and a piece of it: `hosts` and `requests` must list what stands at the places
that name a host or ask for something, each place once and in order (`Lists`). `Reach.tla` EXTENDS it and
`Config`: a daemon reads its file, then a client its words. `MeetWhereTold` relates what the two
texts say, by themselves: a client whose last `-p` gives a TCP port connects to a port that the
daemon listens on if the file says that port, and only then unless the file leaves a port to the
daemon. It says nothing of a number that is no TCP port, nor of a client without `-p`.
Those are left to `ConnectsToPortGiven` and `DefaultsMeet`, which state what mctally's usage and
manual page say, and which the code violates (section 6). `mctallycgi` has fixed hosts and requests
and always the default port, which is the case without `-p`.

### How they fit

`Daemon`'s place *run* is `Server` from `Init` to its end, and `Server`'s abort
at shutdown is `Daemon`'s fault `"clients"`. `Server`'s thread places
*auth*, *recv* and *handle* are `Session`'s server side, and `Client`'s *connect* and *query*
are `Session`'s client side. Each interface is small enough to be a choice in
the coarser module (a request is handled or fails; a host answers or does not)
that the finer one shows to be exhaustive. `Config`'s result is `Server`'s
`Acceptors` and `AllowedClients`, and its failure is `Daemon`'s fault
`"config"`. `Logins` and `HostInfo` are how a thread of `Server` in place *handle*
comes by its answer, and `Answers` is the answer that `Session` sends as two or
three fields. What `CommandLine` ends with is `Client`'s `NumHosts` and
`Requests`.

## 3. The runs

| run | instance | what it shows |
|---|---|---|
| `server_safety` | 3 connections (one from a host that is not allowed), 1 address, accept errors, resets, failing threads | the safety properties, and `ImplementsPool`; 104 thousand states |
| `server_live` | 2 connections, 2 addresses, resets, failing threads | the four liveness properties |
| `session_safety` | lists of 1 to 3 requests of 5 kinds, every fault | `ResponsesInStep`, `InStep`, `ImplementsQuery`, `SessionEnds`, `AllPrinted` |
| `client_page` | `mctallycgi`, 3 hosts, 2 requests, every fault | the output's properties and the two liveness ones |
| `daemon_overlap` | 3 processes with PIDs of 5 and 4 digits, 2 SIGTERMs each, `O_EXLOCK` | the PID file's properties and `SigTermEnds` |
| `config_parse` | 7 thousand files: 2 stanzas of up to 2 settings, 3 of up to one; valid and invalid addresses, ports (0 and 65536 too) and prefixes, empty lists; `Yesterday` for `logLocations`; behind one of them every command line of up to 3 of 13 words, behind three others of up to 2 | `AcceptsValid`, `MeansWhatItSays`, `RoundTrip`, `AsksAsTold`, `MeetWhereTold` |
| `answers_forms` | hosts of 3 systems with up to 2 packages and 2 ports of 5 and 2 kinds, up to 3 release lines, 6 clocks; one expression of 4 or a list of up to 2; 2 damages; 6 objects to read into | the four properties of the forms and the three of host information; 177 thousand states |
| `logins_walk` | 2 threads, 2 lines, 3 changes by users or of the clock, a clock of 2 seconds, integers modulo 4 | `WholeWalk`, `IdleWithinLogin`, `EveryoneIsAnswered` |
| `server_join`, `server_listen`, `server_stop`, `daemon_twice` | the smallest instance that shows it | each refutes one thing the source says of itself (section 6) |

Why the bounds are enough. Two connections suffice for every race between the
handler of one client and the thread of another; the third lets the sweep erase
in the middle of the vector and go on. Two addresses let one acceptor starve
the other. Three requests let one fail between two others, and two of the five
kinds share an enumerator, which is when a shifted answer could go unnoticed.
Three hosts give a printer, a waiter and one that is silent. Three processes
give one that serves, one that overwrites and one that removes. Two SIGTERMs
let the second find the shutdown of the first. Two stanzas of each kind in
either order, and a third between them, show what replaces and what adds up.
Two walks are enough for one to take the other's record; three changes let a
user leave and another come to the same line during one walk. Two packages let a
name be installed twice, differ in case only, or stand beside a line that says
nothing; a good expression and a bad one in either order make a list. Three
release lines are one more than the macOS code needs, so that one can replace
another. Two damages let the request and the data of one document be wrong
together. Three words let an option stand behind, before or between
expressions, or occur twice with something to ask for.

Bounds in guards: `Daemon`'s `MaxSigTerms`, the one SIGTERM of `Server`, and
`Logins`' `MaxTime` and `MaxChanges`, `Answers`' `MaxDamages`. `HostInfo`'s `UInt64`
stands for 2^64.
The other sets are the constants'.

Deadlock is checked in every run; `Terminated` is the stutter of a process or a
session that is over.

## 4. Fairness

- `Server`: strong fairness of each acceptor's completion and of the signal
  handler, since asio runs ready handlers first in, first out, and each is again
  and again ready between two others; weak fairness of the main thread inside a
  handler, since nothing there waits but the handshake, bounded by 2000 ms, and
  `join()`. A Responder's thread is fair except where it waits for its client:
  `Receive`, and sending an answer, while the client is there. Nothing is
  assumed of clients or of the operator.
- `Session`: each side goes on when it can. A read on a live connection waits
  for the other side.
- `Client`: `main()` and each thread go on when they can. A thread takes the
  mutex once, so weak fairness is enough for it to be had. A silent host
  disables its thread for ever.
- `Logins`: each thread goes on when it can; it takes the mutex once.
- `Daemon`: each process goes on when it can. SIGTERM may come or not.

## 5. What is proved

| theorem | says |
|---|---|
| `ServerTypeOK`, `ThreadsHaveOwners`, `JoinsAreShort`, `ConnectionsHaveOnePlace` | the safety properties of `Server` |
| `ServerImplementsPool` | `Server` refines `ResponderPool` |
| `SessionTypeOK`, `AnswersKeepTheirPlaces`, `StreamsStayInStep` | `Session`: whatever fails, the k-th answer kept is that to the k-th request, and a reader finds the beginning of a message where it begins to read |
| `SessionImplementsQuery` | `Session` refines `Query` |
| `ClientTypeOK`, `ReportsStayTogether`, `ThreadsAreJoined` | `Client`: no mixed reports, and no thread is left when `main()` has returned |
| `ReportsAreWhole` | `Client`: by then each host that answered has its whole report, in order, and the page encloses them |
| `DaemonTypeOK`, `EndedAreNotNamed`, `LockedPidFileWhole` | `Daemon`: the PID file never names one that ended in order and, with `O_EXLOCK`, is never a mixture |
| `ParseAcceptsValid`, `ConfigMeansWhatItSays` | `Config`: a file is accepted just if all of it is valid, and means what its last service stanza and all its syslog stanzas say, whatever texts begin with `yes` |
| `ConfigRoundTrip` | `Config`: what `operator<<` writes is valid and means the Config it was written from |
| `ClientAsksAsTold` | `CommandLine`: whatever the words, the hosts asked and the requests are those that the words name, each place once and in order; and nobody is asked just if the words give a reason |
| `ClientMeetsServer` | `Reach`: a client whose last `-p` gives a TCP port meets a daemon whose file says that port, and no other unless the file leaves a port to the daemon |
| `LoginsTypeOK`, `WalksAreWhole`, `NobodyIdlesLonger` | the safety properties of `Logins` |
| `AnswersSelectInstalled`, `PrettyNamesAreWhole`, `UptimesReadAsSeconds`, `ReadsAreSafe` | `HostInfo` and `Answers`: a Response holds the installed packages that were asked for; a pretty name is the first `PRETTY_NAME`, or the last name and version with the name of that release, and empty just if one of those is missing or unknown or could not be read; the units that an uptime is shown in add up to its seconds, and what was read can be shown |
| `ReadsGiveBack`, `DamagedAreRefused`, `NothingIsLeftOver` | `Answers`: what was written and not damaged is read back as it was; a damaged document is taken only if it says all that `ToJson()` would write of the result, and else changes nothing; and after a read nothing is left of what the object held, but for the selector of the alternative |

They hold for any set, finite or not, of connections, addresses, prefixes, processes
and threads, any number of hosts, terminal lines and requests, files and command lines of any
length, output of any length from any commands, any clock, and any faults. The assumptions
are the modules' `ASSUME`s, which say only what kind of value each constant is. TLC has checked
each inductive invariant on the run of its module.

**Server.** `OnePlace` alone is not inductive: nothing in it forbids that an
identity which is to be used again still has a thread. `IInv` adds what each
place of the main thread knows of its socket (`HandlerInPlace`, `SockIsFresh`),
that what is queued is unknown to every Responder (`QueueIsFresh`), and
`ThreadInPlace`: a thread that was started is owned until joined, and
`_running` is false for it only before `Publish` or after its own store. The
last makes `join()` short, and shows why the code's race matters only for
reaping: the late store leaves `_running` *true*, which makes the sweep skip
the thread and never join it early. The proof has a lemma for every shape of
step: moves of the main thread, erasing from and appending to the vector,
taking from and adding to a queue. The refinement proof shows that each step
changes at most one slot.

**Session.** The streams tie the two ends together, so `IInv` says what is in them: a part of
one message only, the beginning of it first (`RequestUnderWay`, `ResponseUnderWay`), and which
one. While both ends can be reached it is the request for `next`, or the answer
to it; after a failure of either side a request may be left that nobody answers, and
the invariant promises no more of it than that it begins a request. `RequestInHand` says the
same of the Request that the server has read, and `NoneMissing` that an answer can be
appended only in its own place. `ImplementsQuery` then follows step by step: only
`Print` and the failures change what `Query` sees.

**Client.** For `ReportsInOnePiece` it is enough to know, beside the mutex
having at most one holder (`OnePrinter`), that a thread which has yet to take it
has nothing on the output (`NotYetPrinted`), and that the printer's own piece,
if it has one there, is the last (`LastIsPrinters`). For `ExitsWithWholeReports`,
`RInv` locates each report in the output up to the piece its thread will write next
(`ReportedSoFar`), ties that piece to the thread's place (`AtInPlace`), and keeps the page's
head before everything (`PageAround`).

**Daemon.** `LastWriter` says which places the last writer of the file can be
in: a process leaves them only by removing the file or by an exception. `OpenFile` says that, where
`open()` locks, the one that has it open found it empty.

**Config.** The parser and the definition of what a file means go through the file in
different ways: the one forward, a setting at a time, the other by the last place that
counts. `GatheredSoFar` joins them: at every place `<<i, j>>` the Config is what the
file said up to there, and inside a service stanza the ServiceConfig is what that stanza said.
`ValidSoFar` says that nothing wrong was passed. The lemmas are about one setting more:
`LastCounts` and what follows from it. For the written file, `WInv` adds that all that was
gathered has a text (`Writable`), with finitely many addresses and prefixes, since the
parser adds one at a time; the lemmas then follow one keyword at a time through
`Written`.

**CommandLine and Reach.** `LineInv` says what the words and pieces before `<<optind, piece>>` have
led to (`TakenSoFar`): the hosts and requests list what those say, the port is that of their last
`-p`, none of them was refused, and none is behind the options' end. Then (`AskedSoFar`)
the operands are listed, in the end, and the requests are the flags' and behind them one for each
operand so far. `NobodyAsked` keeps the reason for which `main()` ended. `Lists` says that there is an
enumeration of the places, in order; no step has to count them. Its lemmas are about one place more
(`ListsAppend`), which is all that a step adds, and some places behind others (`ListsConcat`), which
is what the end of the options adds to the operands that `getopt()` had passed. `AsksAsTold`
follows (`LineAsks`). For `MeetWhereTold`, `CInv` gives the daemon's addresses as those of the last list in its
file, each with the port that the file says or, where it says none, with the daemon's own; `LineInv`
gives the client's port as that of its last `-p`, which the 16 bits leave alone if it is a TCP port's.

**Logins.** `RightSoFar` is `WholeWalk` of the part of utmp that was walked: who stayed and has a line up to
`Past(t)` is in the list, nobody on a later line is. `BufferHolds` is for the step between
`getutxent()` and the use of what it returned, when the user on that line may
change. `OneWalker` is what the static mutex gives; without it the invariant fails at the
first step of another thread. `NothingAhead` is for idle times: while the clock
runs on, no access time, no login and not the buffer is later than it.

**HostInfo and Answers.** `AllSought` says that no line before `line` was passed over, and
none of the source before this one; `OnlySought` that nothing else got into the map; `NamesSaid`
how far the release's lines have been read, and that each part of the pretty name is the first or the
last that those lines gave, or empty if none did (`PartsSaid`), with the release's name that of the
version beside it. Its lemmas are about one line more (`LastNext`, `FirstNext`) and about the lines
behind a `PRETTY_NAME` (`FirstStays`). `UptimeByClock` says that an uptime is none or
the clock's, which is never negative. `AInv` keeps this until the Response is made,
after which only that remains which `Written` says: the Response has the alternative of its
request, and a stream is what was written or the beginning of that.

The three theorems about documents rest on `DInv` (`DocumentsInvariant`), which is inductive given
`AInv`. `MadeOfData` says what is made into a Response: one of five shapes, a map's names finitely many.
`DocWorn` says what becomes of its document, whatever damages follow one another: each field is
what was written, `Null`, or lost, in each row of a list (`RowWorn`, `ListWorn`), in the
data as a whole (`DataWorn`) and beside it (`RequestWorn`). So a field that is there and of the type its
reader asks for is what was written, a list whose rows are all read is all of the list that was
written, and the data is read whole, or not, in its own alternative only. A read therefore leaves what was
written, or a blank for what is missing; that nothing else is left is what the theorems say.

**Only model-checked.** All liveness, since fairness is out of reach of the prover: the four
properties of `server_live`, `SessionEnds`, `AllPrinted`, `OthersNotHeldUp`, `EndsInOrder`,
`SigTermEnds`, `EveryoneIsAnswered`. Every invariant and every safety property of a passing run is
stated by a theorem.

## 6. Findings

Each is a counterexample that TLC finds to what the source says of itself. The first four are runs.

1. `server_join`: the constructor starts the thread *before* it stores `true` in
   `_running` (`DwmMcTallyResponder.cc:78-79`). A thread that ends first has its
   `false` overwritten; `Join()` is false for ever, the thread is not reaped,
   and at shutdown its destructor terminates the process.
2. `server_listen`: one accept error, such as too many open files, returns from
   the handler without arming the acceptor again (`DwmMcTallyServer.cc:90`).
   The run allows resets too. TLC reports the shortest counterexample; with
   `Faults = {"reset"}` that is the other way to lose the listener:
   `remote_endpoint()` throws for a connection that was reset before its handler
   ran, and nothing catches it (`DwmMcTallyServer.cc:82`).
3. `server_stop`: `Stop()` cancels the acceptors only. With a client connected,
   `~Responder` destroys a joinable thread: `std::terminate`.
4. `daemon_twice`: a second `mctallyd` replaces the PID file before it finds the
   address in use and aborts (`mctallyd.cc.in:165`).

Three more are small, and need no interleaving or fault. Their configurations stand beside those
of the runs, with the same instances; each has one invariant, which TLC refutes:

    tlc -config MCConfig_port.cfg MCConfig            # ConnectsToPortGiven
    tlc -config MCConfig_defaults.cfg MCConfig        # DefaultsMeet
    tlc -config MCAnswers_pretty.cfg MCAnswers        # PrettyNameIsFound

5. mctally's usage (`mctally.cc:321`) and manual page (`mctally.1:35-38`) call the number behind
   `-p` the port that is connected to, but it is stored in 16 bits, so that `-p 67661` connects
   to 2125 (`mctally.cc:359`).
6. A daemon whose file gives no port listens on 2124 (`DwmMcTallyConfigParse.y:364` and `:191`);
   the clients connect to 2125, the default of the usage and the port of the example
   configuration. If neither is told a port, they do not meet.
7. On a macOS release that `GetMacOSReleaseName` does not know, which is each one since 15, the
   name and version found are thrown away and the pretty name is empty
   (`DwmMcTallyUname.cc:122`); `TestTallyUname.cc:86` asserts that it never is.

The properties that hold are stated so that these do not hide them: e.g.
`SigTermEndsProcess` asks for an end, in order or not. Some leave a case to the property above that
states it, or to no property at all because nothing in the source says what is right:

- `SweepReapsFinished` is about Responders whose `_running` is false; the late store of 1. is
  `JoinReportsDone`'s. `QueuedClientIsTaken` is checked without accept errors, which are
  `KeepsListening`'s.
- `MeetWhereTold` is about a client that was told a TCP port, so that 5. and 6. are no part of it;
  `PrettyNameIsWhole` has the empty name of an unknown release, as the code does, and 7. is what is wrong with it.
- `ImplementsPool` lets a rejected Responder stay until shutdown, as the code does.
- `IdleWithinLogin` is about a clock that runs on. After it was set back the idle time wraps
  around (`DwmMcTallyLogins.cc:182`).
- `TakesOnlyWhole` narrows a request's number to 8 bits as the code does (`DwmMcTallyRequest.cc:94`).
- `ToJsonIsSafe` excepts a stream that ends behind the request, which leaves a Response for
  which `ToJson` throws (`DwmMcTallyResponse.cc:87`); the programs drop it, since the read has failed.

## 7. What is not modelled

- The cryptography and framing of libCredence: a handshake succeeds or fails,
  and a stream delivers fields in order until it breaks.
- `SigTermHandler` runs as one step. It calls `io_context::stop()`, which takes a
  lock inside boost and is not safe in a handler; the code in `src/` does not
  show that lock, so the resulting hang is listed as a hazard only.
- Which addresses can be bound is left to the kernel: `bind()` succeeds or
  throws.
- The configuration's characters and tokens: quoting, comments, and numbers of
  more than 32 bits, which `atoi` leaves undefined. `AllowedClients` accepts
  what libDwm's `IpPrefix` does not call a v4 prefix; here a text either stands
  for a prefix or does not. Syntax errors other than an empty stanza, list or file.
- Login times as text, which depends on the locale's clock.
- `Utils::GetInstalledVersion(name)`, which only tests call; the macOS function
  behind it is part of `ReadReceipt`.
- How a line of output is taken apart, and which names an expression matches: a
  line is a name and a version, an expression a set of names. On macOS one expression is
  handed to `pkgutil --pkgs` (`DwmMcTallyUtils.cc:217`), whose dialect is not that of
  `std::regex`; the model has one set of names, and one verdict of good or bad, for both. Lines longer than
  `fgets`' buffer are not cut. Load averages as numbers.
- The bytes below a field: how libDwm writes strings, vectors, maps and variants.
- Options that share a word (`-au`), and arguments in a word of their own.
- Wording and layout of the output, logging, `Version`, the build, packaging
  and service files.

## 8. Plan

All of these are done.

1. `Server`, `ResponderPool`, `ServerProofs`: the concurrency that everything
   else runs in.
2. `Session`, `Query`: the protocol.
3. `Client`, `ClientProofs`.
4. `Daemon`, `DaemonProofs`.
5. `Config`: the parser against a definition of what a file means.
6. `Logins`: the shared walk.
7. `HostInfo`, `Answers`: what is found out, and its forms.
8. `CommandLine`, `Reach`: the client's words, and the two ports.
9. `SessionProofs`: the answers' places, the streams and `ImplementsQuery`.
10. `LoginsProofs`: `WholeWalk` and the idle times.
11. `AnswersProofs`: what is found out, that what was read can be shown, and that it is what
    was written.
12. `ClientProofs`: `ExitsWithWholeReports`, by each report's place in the output.
13. `ReachProofs`: the parser, what it writes, and where client and daemon meet.
14. `CommandLineProofs`: whom `mctally` asks for what.

What a run checks and no theorem states is liveness only, which the prover cannot express.
