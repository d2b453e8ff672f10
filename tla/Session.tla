------------------------------ MODULE Session -------------------------------
(***************************************************************************)
(* One client thread of mctally (PeerThread) and the Responder's thread in *)
(* mctallyd that serves it, over one connection.  The connection is two    *)
(* streams of fields, written and read by Request and Response; a message  *)
(* has no frame of its own, so that the reader must take exactly what the  *)
(* writer wrote.                                                           *)
(*                                                                         *)
(* apps/mctally/mctally.cc, apps/mctallycgi/mctallycgi.cc,                 *)
(* apps/mctallyd/DwmMcTallyResponder.cc, classes/src/DwmMcTallyRequest.cc, *)
(* classes/src/DwmMcTallyResponse.cc                                       *)
(***************************************************************************)
EXTENDS Naturals, Sequences

CONSTANTS
  RequestLists,  \* the lists of requests a client may be run with
  Faults         \* which of "auth", "cut", "source" may happen

ASSUME SessionFaultsAssumption == Faults \subseteq {"auth", "cut", "source"}

VARIABLES
  requests,   \* the client's requests
  client,     \* where PeerThread is
  next,       \* SendReceive's place in requests
  responses,  \* SendReceive's responses
  printed,    \* what became of them
  server,     \* where Responder::Run is
  req,        \* Responder::Run's Request, which its loop reuses
  toServer,   \* the fields under way to the server
  toClient,   \* the fields under way to the client
  cut         \* the network has broken the connection

clientVars == <<client, next, responses, printed>>
serverVars == <<server, req>>
vars == <<requests, clientVars, serverVars, toServer, toClient, cut>>

-----------------------------------------------------------------------------
(* Request and Response, and their fields on the wire. *)

RequestEnums == {"none", "installedPackages", "uname", "loadAverages",
                 "logins", "uptime", "buhBye"}

Request(reqEnum, selector) == [reqEnum |-> reqEnum, selector |-> selector]

\* Every value of a Request; its selector is "" or a text.
Selectors == {""} \cup STRING
AnyRequest == [reqEnum : RequestEnums, selector : Selectors]

ASSUME RequestListsAssumption == RequestLists \subseteq Seq(AnyRequest)

\* A default-constructed Request.
NoRequest == Request("none", "")

\* Variant of WriteRequest that writes the selector of every Request.
WriteRequest_Always(r) == <<r.reqEnum, r.selector>>

\* Only installedPackages has a selector on the wire.
WriteRequest(r) ==
  <<r.reqEnum>> \o IF r.reqEnum = "installedPackages" THEN <<r.selector>> ELSE <<>>

\* How many fields Request::Read takes from a stream, which it must know from
\* the first of them.
RequestLen(s) == IF Head(s) = "installedPackages" THEN 2 ELSE 1

\* Read clears the Request first, so that no selector survives.
ReadRequest(s) ==
  Request(Head(s), IF Head(s) = "installedPackages" THEN s[2] ELSE "")

\* A stream that holds all of a Request, and of a Response.
HoldsRequest(s) == s # <<>> /\ Len(s) >= RequestLen(s)
HoldsResponse(s) == s # <<>> /\ Len(s) > RequestLen(s)

\* The data of a Response is a variant: the alternative, and what it was made
\* for.
Data(r) == <<r.reqEnum, r.selector>>
Response(r) == [req |-> r, data |-> Data(r)]

\* Response's constructors set its Request from the data.
Answer(r) ==
  Response(Request(r.reqEnum,
                   IF r.reqEnum = "installedPackages" THEN r.selector ELSE ""))

WriteResponse(p) == WriteRequest(p.req) \o <<p.data>>

ReadResponse(s) ==
  [req |-> ReadRequest(s), data |-> s[RequestLen(s) + 1]]

Drop(s, n) == SubSeq(s, n + 1, Len(s))

-----------------------------------------------------------------------------
\* The enumerators that HandleRequest has a case for.
Served == {"installedPackages", "uname", "loadAverages", "logins", "uptime"}

\* The sources that may fail: uname(2) and getloadavg(3).
MayFail == {"uname", "loadAverages"}

ClientOpen == client # "done"
ServerOpen == server # "ended"

\* The sender has not been told that nobody reads.
Reaches == ~cut /\ ClientOpen /\ ServerOpen

Pending == [state |-> "pending"]
Nothing == [state |-> "nothing"]
Printed(rs) == [state |-> "printed", responses |-> rs]

TypeOK ==
  /\ requests \in RequestLists
  /\ client \in {"auth", "send", "recv", "done"}
  /\ next \in 1 .. Len(requests) + 1
  /\ Len(responses) < next
  /\ printed \in {Pending, Nothing, Printed(responses)}
  /\ server \in {"auth", "recv", "handle", "hangup", "ended"}
  /\ req.reqEnum \in RequestEnums
  /\ cut \in BOOLEAN

Init ==
  /\ requests \in RequestLists
  /\ client = "auth"
  /\ next = 1
  /\ responses = <<>>
  /\ printed = Pending
  /\ server = "auth"
  /\ req = NoRequest
  /\ toServer = <<>>
  /\ toClient = <<>>
  /\ cut = FALSE

-----------------------------------------------------------------------------
(* PeerThread: GetPeer, SendReceive, PrintResponses, Disconnect. *)

GetPeerOk ==
  /\ client = "auth"
  /\ client' = "send"
  /\ UNCHANGED <<requests, next, responses, printed, serverVars, toServer,
                 toClient, cut>>

GetPeerFails ==
  /\ client = "auth"
  /\ "auth" \in Faults \/ cut \/ ~ServerOpen
  /\ client' = "done"
  /\ printed' = Nothing
  /\ UNCHANGED <<requests, next, responses, serverVars, toServer, toClient, cut>>

\* What is sent to a server that is not there is lost, without an error yet.
SendOk ==
  /\ client = "send"
  /\ next <= Len(requests)
  /\ client' = "recv"
  /\ toServer' = IF Reaches THEN toServer \o WriteRequest(requests[next])
                            ELSE toServer
  /\ UNCHANGED <<requests, next, responses, printed, serverVars, toClient, cut>>

\* Variant of SendFails without the loop's bound.
SendFails_NoBound ==
  /\ client = "send"
  /\ ~Reaches
  /\ next' = next + 1
  /\ UNCHANGED <<requests, client, responses, printed, serverVars, toServer,
                 toClient, cut>>

\* The loop goes on to the next request.
SendFails ==
  /\ client = "send"
  /\ next <= Len(requests)
  /\ ~Reaches
  /\ next' = next + 1
  /\ UNCHANGED <<requests, client, responses, printed, serverVars, toServer,
                 toClient, cut>>

\* Which responses SendReceive keeps.
Keeps(p, r) == p.req.reqEnum = r.reqEnum

RecvOk ==
  /\ client = "recv"
  /\ HoldsResponse(toClient)
  /\ LET p == ReadResponse(toClient)
     IN  responses' = IF Keeps(p, requests[next]) THEN Append(responses, p)
                                                  ELSE responses
  /\ toClient' = Drop(toClient, RequestLen(toClient) + 1)
  /\ next' = next + 1
  /\ client' = "send"
  /\ UNCHANGED <<requests, printed, serverVars, toServer, cut>>

\* Variant of RecvFails that makes a response of what it could not read.
RecvFails_Kept ==
  /\ client = "recv"
  /\ ~Reaches
  /\ ~HoldsResponse(toClient)
  /\ responses' = Append(responses, Response(NoRequest))
  /\ toClient' = <<>>
  /\ next' = next + 1
  /\ client' = "send"
  /\ UNCHANGED <<requests, printed, serverVars, toServer, cut>>

\* The stream ends, perhaps within a Response; the loop goes on.
RecvFails ==
  /\ client = "recv"
  /\ ~Reaches
  /\ ~HoldsResponse(toClient)
  /\ toClient' = <<>>
  /\ next' = next + 1
  /\ client' = "send"
  /\ UNCHANGED <<requests, responses, printed, serverVars, toServer, cut>>

\* Variant of Complete that prints what there is.
Complete_Some(rs) == rs # <<>>

\* SendReceive's result: nothing is printed unless nothing is missing.
Complete(rs) == Len(rs) = Len(requests)

Finish ==
  /\ client = "send"
  /\ next > Len(requests)
  /\ client' = "done"
  /\ printed' = IF Complete(responses) THEN Printed(responses) ELSE Nothing
  /\ UNCHANGED <<requests, next, responses, serverVars, toServer, toClient, cut>>

-----------------------------------------------------------------------------
(* Responder::Run. *)

ServerAuthOk ==
  /\ server = "auth"
  /\ server' = "recv"
  /\ UNCHANGED <<requests, clientVars, req, toServer, toClient, cut>>

ServerAuthFails ==
  /\ server = "auth"
  /\ "auth" \in Faults \/ cut \/ ~ClientOpen
  /\ server' = "hangup"
  /\ UNCHANGED <<requests, clientVars, req, toServer, toClient, cut>>

ServerRecvOk ==
  /\ server = "recv"
  /\ HoldsRequest(toServer)
  /\ req' = ReadRequest(toServer)
  /\ toServer' = Drop(toServer, RequestLen(toServer))
  /\ server' = "handle"
  /\ UNCHANGED <<requests, clientVars, toClient, cut>>

ServerRecvFails ==
  /\ server = "recv"
  /\ ~Reaches
  /\ ~HoldsRequest(toServer)
  /\ server' = "hangup"
  /\ toServer' = <<>>
  /\ UNCHANGED <<requests, clientVars, req, toClient, cut>>

\* Variant of Responds: the constructor without a selector is taken.
Responds_NoSelector(r) == Response(Request(r.reqEnum, ""))

\* The Response that is sent for req: SendInstalledPackages gets the selector,
\* the others are made from what the host says.
Responds(r) == Answer(r)

HandleOk ==
  /\ server = "handle"
  /\ req.reqEnum \in Served
  /\ server' = "recv"
  /\ toClient' = IF Reaches THEN toClient \o WriteResponse(Responds(req))
                            ELSE toClient
  /\ UNCHANGED <<requests, clientVars, req, toServer, cut>>

\* Variant of HandleFails: what is not known is not answered, and the loop
\* goes on.
HandleFails_GoesOn ==
  /\ server = "handle"
  /\ \/ req.reqEnum \notin Served
     \/ req.reqEnum \in MayFail /\ "source" \in Faults
     \/ ~Reaches
  /\ server' = "recv"
  /\ UNCHANGED <<requests, clientVars, req, toServer, toClient, cut>>

\* An enumerator without a case, a source that failed, or a client that is
\* known to be gone.
HandleFails ==
  /\ server = "handle"
  /\ \/ req.reqEnum \notin Served
     \/ req.reqEnum \in MayFail /\ "source" \in Faults
     \/ ~Reaches
  /\ server' = "hangup"
  /\ UNCHANGED <<requests, clientVars, req, toServer, toClient, cut>>

ServerDisconnect ==
  /\ server = "hangup"
  /\ server' = "ended"
  /\ UNCHANGED <<requests, clientVars, req, toServer, toClient, cut>>

-----------------------------------------------------------------------------
\* The network breaks the connection; each side may still get some of what
\* was sent, cut at any field.
Cut ==
  /\ "cut" \in Faults
  /\ ~cut
  /\ ClientOpen \/ ServerOpen
  /\ cut' = TRUE
  /\ \E i \in 0 .. Len(toServer), j \in 0 .. Len(toClient) :
       /\ toServer' = SubSeq(toServer, 1, i)
       /\ toClient' = SubSeq(toClient, 1, j)
  /\ UNCHANGED <<requests, clientVars, serverVars>>

\* Both threads are done.
Terminated ==
  /\ ~ClientOpen /\ ~ServerOpen
  /\ UNCHANGED vars

Client == \/ GetPeerOk \/ GetPeerFails
          \/ SendOk \/ SendFails \/ RecvOk \/ RecvFails \/ Finish

Server == \/ ServerAuthOk \/ ServerAuthFails \/ ServerRecvOk \/ ServerRecvFails
          \/ HandleOk \/ HandleFails \/ ServerDisconnect

Next == Client \/ Server \/ Cut \/ Terminated

Spec == Init /\ [][Next]_vars

\* Each thread goes on when it can.  A read that waits on a live connection
\* waits for the other thread; that a broken one is noticed is TCP's doing.
FairSpec == Spec /\ WF_vars(Client) /\ WF_vars(Server)

-----------------------------------------------------------------------------
(***************************************************************************)
(* Properties                                                              *)
(***************************************************************************)
\* The client pairs responses with requests by their enumerator and by their
\* place only.  Whatever fails, each response it keeps is the answer to the
\* request in the same place, selector included: one that follows a failure
\* is never kept in an earlier place.
ResponsesInStep ==
  \A i \in DOMAIN responses : responses[i] = Answer(requests[i])

\* The streams never get out of step: the reader finds the first field of a
\* message where it begins to read, and at most one message is under way.
InStep ==
  /\ toServer # <<>> => toServer[1] \in RequestEnums
  /\ toClient # <<>> => toClient[1] \in RequestEnums
  /\ toServer = <<>> \/ toClient = <<>>

\* Every session ends on both sides, whatever fails.
SessionEnds == <>(client = "done" /\ server = "ended")

\* Both ends are past the handshake.
Established == client \in {"send", "recv"} /\ server = "recv"

\* A session that got past the handshake, whose requests all have a case and a
\* source that cannot fail, prints every answer unless the network cuts it.
AllPrinted ==
  /\ Established
  /\ \A i \in DOMAIN requests : requests[i].reqEnum \in Served \ MayFail
  ~> cut \/ printed = Printed([i \in DOMAIN requests |-> Answer(requests[i])])

\* A session is a query: it prints every answer, in order, or nothing.
AnswersTo(rs) == [i \in DOMAIN rs |-> Answer(rs[i])]

AsQuery == INSTANCE Query
             WITH Requests <- RequestLists, asked <- requests,
                  outcome <- printed

ImplementsQuery == AsQuery!QuerySpec

-----------------------------------------------------------------------------
(***************************************************************************)
(* What makes ResponsesInStep and InStep inductive.                        *)
(***************************************************************************)
AnyData == RequestEnums \X Selectors
Field == AnyData \cup RequestEnums \cup Selectors

StreamsOK ==
  /\ req \in AnyRequest
  /\ toServer \in Seq(Field)
  /\ toClient \in Seq(Field)
  /\ responses \in Seq([req : AnyRequest, data : AnyData])

Begins(s, t) == Len(s) <= Len(t) /\ \A k \in 1 .. Len(s) : s[k] = t[k]

\* PeerThread is where its loop can be, and prints at its end only.
ClientInPlace ==
  /\ client = "recv" => next <= Len(requests)
  /\ printed = Pending <=> client # "done"

\* What the server has yet to read is the beginning of one request, and while
\* both can be reached, of the one whose answer the client waits for.
RequestUnderWay ==
  toServer # <<>> =>
    /\ toClient = <<>> /\ server # "handle"
    /\ \E k \in 1 .. Len(requests) : Begins(toServer, WriteRequest(requests[k]))
    /\ Reaches => client = "recv" /\ Begins(toServer, WriteRequest(requests[next]))

\* The same of the request that the server has read.
RequestInHand ==
  server = "handle" =>
    /\ toServer = <<>> /\ toClient = <<>>
    /\ Reaches => client = "recv" /\ req = Answer(requests[next]).req

\* What the client has yet to read is the beginning of the answer that it waits
\* for, and no earlier answer is missing.
ResponseUnderWay ==
  toClient # <<>> =>
    /\ client = "recv" /\ Len(responses) = next - 1
    /\ Begins(toClient, WriteResponse(Answer(requests[next])))

\* While both can be reached no answer is missing.
NoneMissing == Reaches => Len(responses) = next - 1

IInv ==
  /\ TypeOK /\ StreamsOK
  /\ ClientInPlace
  /\ RequestUnderWay /\ RequestInHand /\ ResponseUnderWay
  /\ NoneMissing
  /\ ResponsesInStep

=============================================================================
