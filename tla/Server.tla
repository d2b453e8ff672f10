------------------------------- MODULE Server -------------------------------
(***************************************************************************)
(* mctallyd's server: the main thread, which runs every asio completion    *)
(* handler inside io_context::run(), and one thread per accepted client    *)
(* (a Responder).  The main thread accepts, sweeps finished Responders,    *)
(* admits or denies the new client, does the client's key exchange inside  *)
(* the Responder's constructor, and on SIGTERM stops and destroys it all.  *)
(*                                                                         *)
(* apps/mctallyd/DwmMcTallyServer.hh, DwmMcTallyServer.cc,                 *)
(* DwmMcTallyResponder.hh, DwmMcTallyResponder.cc, mctallyd.cc.in          *)
(***************************************************************************)
EXTENDS Naturals, SequencesExt

CONSTANTS
  Conns,          \* client connections; an identity is reused once it is free
  Acceptors,      \* one per address of the service stanza
  Hosts,          \* client addresses
  HostOf,         \* the address a connection comes from
  AllowedClients, \* the configured prefixes, each the set of hosts it contains
  Faults,         \* which of "accept", "reset", "spawn" the environment injects
  None            \* no socket, no acceptor

ASSUME HostOfAssumption == HostOf \in [Conns -> Hosts]
ASSUME AllowedClientsAssumption == AllowedClients \subseteq SUBSET Hosts
ASSUME FaultsAssumption == Faults \subseteq {"accept", "reset", "spawn"}
ASSUME NoneAssumption == None \notin Conns /\ None \notin Acceptors

VARIABLES
  main,       \* where the main thread is
  acc,        \* the acceptor whose completion handler is running
  sock,       \* the socket that handler was given; None on an accept error
  ri,         \* CleanupResponders' cursor into responders
  responders, \* Server::_responders
  armed,      \* the acceptors with an async_accept outstanding
  backlog,    \* each listening socket's queue of established connections
  client,     \* each connection, as the server's socket would show it
  thread,     \* where each Responder's thread is
  running,    \* Responder::_running
  sigterm     \* SIGTERM: not sent, sent, seen by the signal handler

mainVars == <<main, acc, sock, ri>>
vars == <<main, acc, sock, ri, responders, armed, backlog, client, thread,
          running, sigterm>>

(***************************************************************************)
(* The places of the main thread.  "run" is io_context::run() with no      *)
(* handler executing.  An accept handler goes through "sweep" (and "join") *)
(* to "admit"; "handshake", "spawn" and "publish" are the Responder's      *)
(* constructor.  "stop" and "destroy" follow SIGTERM.                      *)
(***************************************************************************)
MainStates == {"run", "sweep", "join", "admit", "handshake", "spawn",
               "publish", "stop", "destroy", "exited", "aborted"}

(***************************************************************************)
(* The places of a Responder's thread in Responder::Run().  "none" is a    *)
(* std::thread that was never started or has been joined, which is what    *)
(* joinable() tells from the others; "store" is just before                *)
(* _running.store(false), "return" just after, and "ended" is a thread     *)
(* that join() no longer waits for.                                        *)
(***************************************************************************)
ThreadStates == {"none", "auth", "recv", "handle", "hangup", "store",
                 "return", "ended"}

Live(c) == thread[c] \notin {"none", "ended"}
Joinable(c) == thread[c] # "none"

(***************************************************************************)
(* "up": the peer is there.  "shut": it closed, and the next read is the   *)
(* end of the stream.  "reset": it reset the connection.  "away": there is *)
(* no connection, or the server has closed it.                             *)
(***************************************************************************)
ClientStates == {"away", "up", "shut", "reset"}

Alive == main \notin {"exited", "aborted"}

\* An empty list of prefixes lets every client in.
ClientAllowed(c) ==
  AllowedClients = {} \/ \E prefix \in AllowedClients : HostOf[c] \in prefix

Owned(c) == \E i \in DOMAIN responders : responders[i] = c

\* A connection that the server holds nothing of.
Free(c) == client[c] = "away" /\ thread[c] = "none" /\ ~Owned(c)

TypeOK ==
  /\ main \in MainStates
  /\ acc \in Acceptors \cup {None}
  /\ sock \in Conns \cup {None}
  /\ ri \in Nat \ {0}
  /\ responders \in Seq(Conns)
  /\ armed \in SUBSET Acceptors
  /\ backlog \in [Acceptors -> Seq(Conns)]
  /\ client \in [Conns -> ClientStates]
  /\ thread \in [Conns -> ThreadStates]
  /\ running \in [Conns -> BOOLEAN]
  /\ sigterm \in {"none", "pending", "got"}

\* The Server's constructor has bound, listened on and armed every acceptor.
Init ==
  /\ main = "run"
  /\ acc = None
  /\ sock = None
  /\ ri = 1
  /\ responders = <<>>
  /\ armed = Acceptors
  /\ backlog = [a \in Acceptors |-> <<>>]
  /\ client = [c \in Conns |-> "away"]
  /\ thread = [c \in Conns |-> "none"]
  /\ running = [c \in Conns |-> FALSE]
  /\ sigterm = "none"

-----------------------------------------------------------------------------
(* The clients and the operator. *)

\* The kernel completes a connection and queues it on a listening socket,
\* whether or not the server is accepting.
Connect(c, a) ==
  /\ Alive
  /\ Free(c)
  /\ client' = [client EXCEPT ![c] = "up"]
  /\ backlog' = [backlog EXCEPT ![a] = Append(@, c)]
  /\ UNCHANGED <<mainVars, responders, armed, thread, running, sigterm>>

Close(c) ==
  /\ Alive
  /\ client[c] = "up"
  /\ client' = [client EXCEPT ![c] = "shut"]
  /\ UNCHANGED <<mainVars, responders, armed, backlog, thread, running, sigterm>>

Reset(c) ==
  /\ Alive
  /\ "reset" \in Faults
  /\ client[c] = "up"
  /\ client' = [client EXCEPT ![c] = "reset"]
  /\ UNCHANGED <<mainVars, responders, armed, backlog, thread, running, sigterm>>

Kill ==
  /\ Alive
  /\ sigterm = "none"
  /\ sigterm' = "pending"
  /\ UNCHANGED <<mainVars, responders, armed, backlog, client, thread, running>>

-----------------------------------------------------------------------------
(* The accept handler: CleanupResponders, then admit, then arm again. *)

\* run() completes a's async_accept with a socket.
Accept(a) ==
  /\ main = "run"
  /\ a \in armed
  /\ backlog[a] # <<>>
  /\ main' = "sweep"
  /\ acc' = a
  /\ sock' = Head(backlog[a])
  /\ ri' = 1
  /\ armed' = armed \ {a}
  /\ backlog' = [backlog EXCEPT ![a] = Tail(@)]
  /\ UNCHANGED <<responders, client, thread, running, sigterm>>

\* run() completes a's async_accept with an error, such as too many files.
AcceptError(a) ==
  /\ main = "run"
  /\ "accept" \in Faults
  /\ a \in armed
  /\ backlog[a] # <<>>
  /\ main' = "sweep"
  /\ acc' = a
  /\ sock' = None
  /\ ri' = 1
  /\ armed' = armed \ {a}
  /\ UNCHANGED <<responders, backlog, client, thread, running, sigterm>>

\* Join() returns false: _running is true, or there is no thread to join.
SweepSkip ==
  /\ main = "sweep"
  /\ ri <= Len(responders)
  /\ running[responders[ri]] \/ ~Joinable(responders[ri])
  /\ ri' = ri + 1
  /\ UNCHANGED <<main, acc, sock, responders, armed, backlog, client, thread,
                 running, sigterm>>

\* Variant of SweepJoin that does not look at _running.
SweepJoin_AnyThread ==
  /\ main = "sweep"
  /\ ri <= Len(responders)
  /\ Joinable(responders[ri])
  /\ main' = "join"
  /\ UNCHANGED <<acc, sock, ri, responders, armed, backlog, client, thread,
                 running, sigterm>>

\* Join() reads _running as false and enters std::thread::join().
SweepJoin ==
  /\ main = "sweep"
  /\ ri <= Len(responders)
  /\ ~running[responders[ri]]
  /\ Joinable(responders[ri])
  /\ main' = "join"
  /\ UNCHANGED <<acc, sock, ri, responders, armed, backlog, client, thread,
                 running, sigterm>>

\* std::thread::join() returns when the thread has ended.
Joined(c) == thread[c] = "ended"

\* What the sweep does with the cursor, the vector and the thread after join().
SweepErases(cursor, vector, threads) ==
  /\ main' = "sweep"
  /\ ri' = cursor
  /\ responders' = vector
  /\ thread' = threads
  /\ UNCHANGED <<acc, sock, armed, backlog, client, running, sigterm>>

\* Variants of SweepErase: the thread is detached instead of joined; the
\* cursor is moved back by the erase; the Responder after the joined one is
\* erased.
SweepErase_Detaches ==
  /\ main = "join"
  /\ SweepErases(ri, RemoveAt(responders, ri), thread)

SweepErase_StepsBack ==
  /\ main = "join"
  /\ Joined(responders[ri])
  /\ SweepErases(ri - 1, RemoveAt(responders, ri),
                 [thread EXCEPT ![responders[ri]] = "none"])

SweepErase_ErasesNext ==
  /\ main = "join"
  /\ Joined(responders[ri])
  /\ SweepErases(ri, IF ri < Len(responders) THEN RemoveAt(responders, ri + 1)
                                             ELSE responders,
                 [thread EXCEPT ![responders[ri]] = "none"])

\* join() returns, Join() returns true, and the sweep erases the Responder.
SweepErase ==
  /\ main = "join"
  /\ Joined(responders[ri])
  /\ SweepErases(ri, RemoveAt(responders, ri),
                 [thread EXCEPT ![responders[ri]] = "none"])

\* Variant of SweepEnd: the sweep may stop one short.
SweepEnd_OneShort ==
  /\ main = "sweep"
  /\ ri >= Len(responders)
  /\ main' = "admit"
  /\ UNCHANGED <<acc, sock, ri, responders, armed, backlog, client, thread,
                 running, sigterm>>

\* The sweep has passed every Responder.
SweepEnd ==
  /\ main = "sweep"
  /\ ri > Len(responders)
  /\ main' = "admit"
  /\ UNCHANGED <<acc, sock, ri, responders, armed, backlog, client, thread,
                 running, sigterm>>

\* The handler was given an error: it returns without calling AcceptLoop.
ExitAcceptLoop ==
  /\ main = "admit"
  /\ sock = None
  /\ main' = "run"
  /\ acc' = None
  /\ UNCHANGED <<sock, ri, responders, armed, backlog, client, thread, running,
                 sigterm>>

\* remote_endpoint() throws for a socket that was reset; nothing catches it.
RemoteEndpointThrows ==
  /\ main = "admit"
  /\ sock # None
  /\ client[sock] = "reset"
  /\ main' = "aborted"
  /\ UNCHANGED <<acc, sock, ri, responders, armed, backlog, client, thread,
                 running, sigterm>>

\* AcceptLoop(a) at the end of the handler, which returns to run().
Rearm ==
  /\ main' = "run"
  /\ armed' = armed \cup {acc}
  /\ acc' = None
  /\ sock' = None

Deny ==
  /\ main = "admit"
  /\ sock # None
  /\ client[sock] # "reset"
  /\ ~ClientAllowed(sock)
  /\ client' = [client EXCEPT ![sock] = "away"]
  /\ Rearm
  /\ UNCHANGED <<ri, responders, backlog, thread, running, sigterm>>

\* Variant of Admit that lets every client in.
Admit_Anyone ==
  /\ main = "admit"
  /\ sock # None
  /\ client[sock] # "reset"
  /\ main' = "handshake"
  /\ UNCHANGED <<acc, sock, ri, responders, armed, backlog, client, thread,
                 running, sigterm>>

Admit ==
  /\ main = "admit"
  /\ sock # None
  /\ client[sock] # "reset"
  /\ ClientAllowed(sock)
  /\ main' = "handshake"
  /\ UNCHANGED <<acc, sock, ri, responders, armed, backlog, client, thread,
                 running, sigterm>>

-----------------------------------------------------------------------------
(* The Responder's constructor, on the main thread. *)

\* Peer::Accept agrees a key with the client.
HandshakeOk ==
  /\ main = "handshake"
  /\ client[sock] = "up"
  /\ main' = "spawn"
  /\ UNCHANGED <<acc, sock, ri, responders, armed, backlog, client, thread,
                 running, sigterm>>

\* Variant of HandshakeFails that forgets AcceptLoop.
HandshakeFails_NotRearmed ==
  /\ main = "handshake"
  /\ client' = [client EXCEPT ![sock] = "away"]
  /\ responders' = Append(responders, sock)
  /\ main' = "run"
  /\ acc' = None
  /\ sock' = None
  /\ UNCHANGED <<ri, armed, backlog, thread, running, sigterm>>

\* Peer::Accept fails or times out: the Responder has no thread, and is
\* put in the vector all the same.
HandshakeFails ==
  /\ main = "handshake"
  /\ client' = [client EXCEPT ![sock] = "away"]
  /\ responders' = Append(responders, sock)
  /\ Rearm
  /\ UNCHANGED <<ri, backlog, thread, running, sigterm>>

SpawnThread ==
  /\ main = "spawn"
  /\ main' = "publish"
  /\ thread' = [thread EXCEPT ![sock] = "auth"]
  /\ UNCHANGED <<acc, sock, ri, responders, armed, backlog, client, running,
                 sigterm>>

\* std::thread's constructor throws std::system_error; nothing catches it.
SpawnThrows ==
  /\ main = "spawn"
  /\ "spawn" \in Faults
  /\ main' = "aborted"
  /\ UNCHANGED <<acc, sock, ri, responders, armed, backlog, client, thread,
                 running, sigterm>>

\* _running.store(true), which the new thread may have been faster than;
\* then push_back and AcceptLoop, which only the main thread sees.
Publish ==
  /\ main = "publish"
  /\ running' = [running EXCEPT ![sock] = TRUE]
  /\ responders' = Append(responders, sock)
  /\ Rearm
  /\ UNCHANGED <<ri, backlog, client, thread, sigterm>>

-----------------------------------------------------------------------------
(* Responder::Run(), on the Responder's own thread. *)

ThreadGoes(c, from, to) ==
  /\ Alive
  /\ thread[c] = from
  /\ thread' = [thread EXCEPT ![c] = to]

AuthOk(c) ==
  /\ client[c] = "up"
  /\ ThreadGoes(c, "auth", "recv")
  /\ UNCHANGED <<mainVars, responders, armed, backlog, client, running, sigterm>>

AuthFails(c) ==
  /\ ThreadGoes(c, "auth", "hangup")
  /\ UNCHANGED <<mainVars, responders, armed, backlog, client, running, sigterm>>

RecvOk(c) ==
  /\ client[c] = "up"
  /\ ThreadGoes(c, "recv", "handle")
  /\ UNCHANGED <<mainVars, responders, armed, backlog, client, running, sigterm>>

\* Variant of RecvFails: the loop goes on after a failed receive.
RecvFails_Retries(c) ==
  /\ ThreadGoes(c, "recv", "recv")
  /\ UNCHANGED <<mainVars, responders, armed, backlog, client, running, sigterm>>

RecvFails(c) ==
  /\ ThreadGoes(c, "recv", "hangup")
  /\ UNCHANGED <<mainVars, responders, armed, backlog, client, running, sigterm>>

\* HandleRequest sent the answer.
HandleOk(c) ==
  /\ ThreadGoes(c, "handle", "recv")
  /\ UNCHANGED <<mainVars, responders, armed, backlog, client, running, sigterm>>

\* HandleRequest did not know the request, or could not send the answer.
HandleFails(c) ==
  /\ ThreadGoes(c, "handle", "hangup")
  /\ UNCHANGED <<mainVars, responders, armed, backlog, client, running, sigterm>>

Disconnect(c) ==
  /\ ThreadGoes(c, "hangup", "store")
  /\ client' = [client EXCEPT ![c] = "away"]
  /\ UNCHANGED <<mainVars, responders, armed, backlog, running, sigterm>>

StoreNotRunning(c) ==
  /\ ThreadGoes(c, "store", "return")
  /\ running' = [running EXCEPT ![c] = FALSE]
  /\ UNCHANGED <<mainVars, responders, armed, backlog, client, sigterm>>

ThreadReturns(c) ==
  /\ ThreadGoes(c, "return", "ended")
  /\ UNCHANGED <<mainVars, responders, armed, backlog, client, running, sigterm>>

-----------------------------------------------------------------------------
(* SIGTERM, main()'s loop and the destructors. *)

\* BoostSignalHandler stops the context, so run() returns after it.
BoostSignalHandler ==
  /\ main = "run"
  /\ sigterm = "pending"
  /\ sigterm' = "got"
  /\ main' = "stop"
  /\ UNCHANGED <<acc, sock, ri, responders, armed, backlog, client, thread,
                 running>>

\* Server::Stop() cancels the accepts, whose handlers no longer run.
Stop ==
  /\ main = "stop"
  /\ main' = "destroy"
  /\ armed' = {}
  /\ UNCHANGED <<acc, sock, ri, responders, backlog, client, thread, running,
                 sigterm>>

\* ~vector destroys from the front (libstdc++) or from the back (libc++).
DestroyNext == {i \in DOMAIN responders : i \in {1, Len(responders)}}

\* ~Responder: Join() waits for a thread that is past its store, and does
\* nothing when there is none.
DestroyResponder(i) ==
  /\ main = "destroy"
  /\ i \in DestroyNext
  /\ \/ ~Joinable(responders[i])
     \/ ~running[responders[i]] /\ Joined(responders[i])
  /\ thread' = [thread EXCEPT ![responders[i]] = "none"]
  /\ responders' = RemoveAt(responders, i)
  /\ UNCHANGED <<mainVars, armed, backlog, client, running, sigterm>>

\* ~Responder: Join() returned false for a thread it believes to be running,
\* and ~thread calls std::terminate for a thread that is still joinable.
DestroyTerminates(i) ==
  /\ main = "destroy"
  /\ i \in DestroyNext
  /\ Joinable(responders[i])
  /\ running[responders[i]]
  /\ main' = "aborted"
  /\ UNCHANGED <<acc, sock, ri, responders, armed, backlog, client, thread,
                 running, sigterm>>

\* ~Server closes the listening sockets, and main() returns 0.
Exit ==
  /\ main = "destroy"
  /\ responders = <<>>
  /\ main' = "exited"
  /\ UNCHANGED <<acc, sock, ri, responders, armed, backlog, client, thread,
                 running, sigterm>>

\* There is no process left; the model's stutter, not a step of the code.
Terminated ==
  /\ ~Alive
  /\ UNCHANGED vars

-----------------------------------------------------------------------------
Environment ==
  \/ \E c \in Conns : \/ \E a \in Acceptors : Connect(c, a)
                      \/ Close(c)
                      \/ Reset(c)
  \/ Kill

AcceptHandler ==
  \/ \E a \in Acceptors : Accept(a) \/ AcceptError(a)
  \/ SweepSkip \/ SweepJoin \/ SweepErase \/ SweepEnd
  \/ ExitAcceptLoop \/ RemoteEndpointThrows \/ Deny \/ Admit

ResponderCtor ==
  HandshakeOk \/ HandshakeFails \/ SpawnThread \/ SpawnThrows \/ Publish

Run(c) ==
  \/ AuthOk(c) \/ AuthFails(c)
  \/ RecvOk(c) \/ RecvFails(c)
  \/ HandleOk(c) \/ HandleFails(c)
  \/ Disconnect(c) \/ StoreNotRunning(c) \/ ThreadReturns(c)

Shutdown ==
  \/ BoostSignalHandler \/ Stop \/ Exit
  \/ \E i \in DOMAIN responders : DestroyResponder(i) \/ DestroyTerminates(i)

Next ==
  \/ Environment
  \/ AcceptHandler
  \/ ResponderCtor
  \/ \E c \in Conns : Run(c)
  \/ Shutdown
  \/ Terminated

Spec == Init /\ [][Next]_vars

-----------------------------------------------------------------------------
(***************************************************************************)
(* Fairness.  asio delivers ready completions in the order it queued them, *)
(* so one that stays ready is delivered although the main thread is often  *)
(* busy with another: strong fairness.  The main thread and the threads of *)
(* the Responders go on when they can.  A key exchange and an              *)
(* authentication end within their timeouts; a receive, or an answer that  *)
(* is being sent, is sure to end only when the client is no longer there.  *)
(***************************************************************************)
MainGoesOn ==
  \/ SweepSkip \/ SweepJoin \/ SweepErase \/ SweepEnd
  \/ ExitAcceptLoop \/ RemoteEndpointThrows \/ Deny \/ Admit
  \/ ResponderCtor
  \/ Stop \/ Exit
  \/ \E i \in DOMAIN responders : DestroyResponder(i) \/ DestroyTerminates(i)

ThreadGoesOn(c) ==
  \/ AuthOk(c) \/ AuthFails(c)
  \/ client[c] # "up" /\ (RecvFails(c) \/ HandleOk(c) \/ HandleFails(c))
  \/ Disconnect(c) \/ StoreNotRunning(c) \/ ThreadReturns(c)

Fairness ==
  /\ \A a \in Acceptors : SF_vars(Accept(a) \/ AcceptError(a))
  /\ SF_vars(BoostSignalHandler)
  /\ WF_vars(MainGoesOn)
  /\ \A c \in Conns : WF_vars(ThreadGoesOn(c))

FairSpec == Spec /\ Fairness

-----------------------------------------------------------------------------
(***************************************************************************)
(* Safety                                                                  *)
(***************************************************************************)
\* A Responder's thread uses the Responder (its peer, its _running): as long
\* as it runs, the object is in the vector, or still in its constructor.
ThreadHasOwner ==
  \A c \in Conns : Live(c) => Owned(c) \/ (main = "publish" /\ sock = c)

\* The main thread never waits in join() for a thread that a client could
\* hold up: the thread it waits for is past everything but returning.
JoinNeverWaitsForClient ==
  main = "join" =>
    ri \in DOMAIN responders /\ thread[responders[ri]] \in {"return", "ended"}

Queued(c) ==
  \E a \in Acceptors : \E i \in DOMAIN backlog[a] : backlog[a][i] = c

\* No connection is lost, and none is held twice: one that the server has not
\* closed is in exactly one of a listening socket's queue, the running accept
\* handler and a single Responder of the vector.
OnePlace ==
  \A c \in Conns :
    /\ client[c] # "away" => Queued(c) \/ sock = c \/ Owned(c)
    /\ Queued(c) => sock # c /\ ~Owned(c)
    /\ sock = c => ~Owned(c)
    /\ \A i, j \in DOMAIN responders :
         responders[i] = c /\ responders[j] = c => i = j

(***************************************************************************)
(* What makes the safety properties inductive.                             *)
(***************************************************************************)
\* The handler has its acceptor, and a constructor the socket of a client that
\* is allowed.
HandlerInPlace ==
  /\ main \in {"run", "stop", "destroy", "exited"} => sock = None
  /\ main \in {"handshake", "spawn", "publish"}
       => sock # None /\ ClientAllowed(sock)
  /\ main \in {"sweep", "join", "admit", "handshake", "spawn", "publish"}
       => acc # None

\* A connection in the handler, or in a queue, is still the server's to close,
\* and no Responder knows it; it gets its thread just before it is published.
SockIsFresh ==
  sock # None =>
    /\ IF main = "publish"
       THEN Joinable(sock)
       ELSE ~Joinable(sock) /\ client[sock] # "away"
    /\ ~running[sock]

QueueIsFresh ==
  /\ \A c \in Conns :
       Queued(c) => client[c] # "away" /\ ~Joinable(c) /\ ~running[c]
  /\ \A a, b \in Acceptors : \A i \in DOMAIN backlog[a], j \in DOMAIN backlog[b] :
       backlog[a][i] = backlog[b][j] => a = b /\ i = j

\* A thread that was started has its Responder until it is joined; _running
\* is false only before it is published and after the thread has stored it.
ThreadInPlace ==
  \A c \in Conns :
    /\ Joinable(c) => Owned(c) \/ (main = "publish" /\ sock = c)
    /\ running[c] => Owned(c) /\ Joinable(c)
    /\ Owned(c) /\ Joinable(c) /\ ~running[c] => thread[c] \in {"return", "ended"}

\* The connection of a thread that has hung up, and of a Responder that failed
\* its handshake, is closed.
HungUp ==
  \A c \in Conns :
    \/ thread[c] \in {"store", "return", "ended"}
    \/ Owned(c) /\ ~Joinable(c)
    => client[c] = "away"

\* The Responder that is being joined was started, and stored false.
JoinInPlace ==
  main = "join" => /\ ri \in DOMAIN responders
                   /\ Joinable(responders[ri])
                   /\ ~running[responders[ri]]

IInv ==
  /\ TypeOK
  /\ HandlerInPlace
  /\ SockIsFresh
  /\ QueueIsFresh
  /\ ThreadInPlace
  /\ HungUp
  /\ JoinInPlace
  /\ OnePlace

(***************************************************************************)
(* Liveness                                                                *)
(***************************************************************************)
\* A sweep that starts when a Responder's thread has already stored false in
\* _running joins that thread and erases the Responder.
SweepReapsFinished ==
  \A c \in Conns :
    /\ main = "sweep" /\ ri = 1 /\ Owned(c)
    /\ thread[c] \in {"return", "ended"} /\ ~running[c]
    ~> ~Owned(c)

\* SIGTERM ends the process, whatever the clients do.
SigTermEndsProcess == sigterm = "pending" ~> ~Alive

\* While no accept fails, a client that waits on a listening socket is taken
\* from its queue unless the daemon is to stop: every handler arms its
\* acceptor again, whatever became of the client it was given.
QueuedClientIsTaken ==
  \A a \in Acceptors, c \in Conns :
    c \in ToSet(backlog[a]) ~>
      \/ c \notin ToSet(backlog[a])
      \/ sigterm # "none"
      \/ ~Alive

\* A client that goes away ends its thread, wherever the thread was.
ClosedClientEndsThread ==
  \A c \in Conns :
    client[c] = "shut" /\ Live(c) ~> ~Live(c) \/ ~Alive

(***************************************************************************)
(* What the source says of itself, and the code does not keep.             *)
(***************************************************************************)
\* Responder::Join() "Returns true if the thread is joinable and done": a
\* sweep that reaches a Responder whose thread has ended can join it.
JoinReportsDone ==
  main = "sweep" /\ ri <= Len(responders)
                 /\ Joinable(responders[ri]) /\ Joined(responders[ri])
    => ~running[responders[ri]]

\* The Server listens "for TCP connections" and "Spawns a Responder for each
\* connection": until SIGTERM the process lives, whatever becomes of a
\* connection, and every acceptor is armed or its completion handler is running.
KeepsListening ==
  sigterm # "got" => Alive /\ \A a \in Acceptors : a \in armed \/ a = acc

\* Server::Stop() "Stops the server.": after it main() gets to its return.
StopsInOrder == main = "aborted" => sigterm # "got"

(***************************************************************************)
(* The server implements the pool.                                         *)
(***************************************************************************)
slotOf(c) ==
  IF Live(c) THEN "serving"
  ELSE IF Joinable(c) THEN "finished"
  ELSE IF Owned(c) THEN "rejected"
  ELSE "free"

processOf ==
  CASE main = "exited" -> "down"
    [] main = "aborted" -> "crashed"
    [] main \in {"stop", "destroy"} -> "closing"
    [] OTHER -> "up"

Pool == INSTANCE ResponderPool
          WITH Allowed <- {c \in Conns : ClientAllowed(c)},
               slot <- [c \in Conns |-> slotOf(c)],
               process <- processOf

\* Every step of the server is a step of ResponderPool or a stutter: clients
\* that are not allowed get no Responder, a Responder is given back only after
\* its thread ended, one that failed its handshake only at shutdown, and the
\* process returns from main() only when no thread is left.
ImplementsPool == Pool!PoolSpec

=============================================================================
