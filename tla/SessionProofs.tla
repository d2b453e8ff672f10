----------------------------- MODULE SessionProofs -----------------------------
(***************************************************************************)
(* Proofs about Session, for any lists of requests and any faults: what a  *)
(* client keeps is in step with what it asked, and Session implements      *)
(* Query.                                                                  *)
(***************************************************************************)
EXTENDS Session, SequenceTheorems, TLAPS

-------------------------------------------------------------------------------
(* What Write puts on the wire, and what Read takes from a beginning of it. *)

LEMMA RequestOnWire ==
  ASSUME NEW r \in AnyRequest
  PROVE  /\ WriteRequest(r) \in Seq(Field)
         /\ Len(WriteRequest(r)) = IF r.reqEnum = "installedPackages" THEN 2 ELSE 1
         /\ WriteRequest(r)[1] = r.reqEnum
         /\ r.reqEnum = "installedPackages" => WriteRequest(r)[2] = r.selector
<1>1. r.reqEnum \in Field /\ r.selector \in Field /\ r.reqEnum \in RequestEnums
  BY DEF AnyRequest, Field
<1>2. CASE r.reqEnum = "installedPackages"
  <2>1. WriteRequest(r) = <<r.reqEnum>> \o <<r.selector>>
    BY <1>2 DEF WriteRequest
  <2>2. <<r.reqEnum>> \in Seq(Field) /\ <<r.selector>> \in Seq(Field)
    BY <1>1
  <2> QED
    BY <1>1, <1>2, <2>1, <2>2, ConcatProperties
<1>3. CASE r.reqEnum # "installedPackages"
  <2>1. WriteRequest(r) = <<r.reqEnum>> \o <<>>
    BY <1>3 DEF WriteRequest
  <2>2. <<r.reqEnum>> \in Seq(Field) /\ <<>> \in Seq(Field)
    BY <1>1
  <2> QED
    BY <1>1, <1>3, <2>1, <2>2, ConcatProperties
<1> QED
  BY <1>2, <1>3

LEMMA AnswerIs ==
  ASSUME NEW r \in AnyRequest
  PROVE  /\ Answer(r) \in [req : AnyRequest, data : AnyData]
         /\ Answer(r).req.reqEnum = r.reqEnum
         /\ Answer(Answer(r).req) = Answer(r)
<1> DEFINE sent(q) == Request(q.reqEnum, IF q.reqEnum = "installedPackages"
                                         THEN q.selector ELSE "")
<1>1. sent(r) \in AnyRequest /\ sent(r).reqEnum = r.reqEnum
  BY DEF AnyRequest, Request, Selectors
<1>2. sent(sent(r)) = sent(r)
  BY DEF Request
<1>3. Data(sent(r)) \in AnyData
  BY <1>1 DEF AnyRequest, AnyData, Data
<1>4. \A q : Answer(q) = [req |-> sent(q), data |-> Data(sent(q))]
  BY DEF Answer, Response
<1> HIDE DEF sent
<1> QED
  BY <1>1, <1>2, <1>3, <1>4

LEMMA ResponseOnWire ==
  ASSUME NEW p \in [req : AnyRequest, data : AnyData]
  PROVE  LET s == WriteResponse(p)
             n == Len(WriteRequest(p.req))
         IN  /\ s \in Seq(Field)
             /\ Len(s) = n + 1
             /\ \A k \in 1 .. n : s[k] = WriteRequest(p.req)[k]
             /\ s[n + 1] = p.data
<1>1. p.req \in AnyRequest /\ p.data \in Field
  BY DEF Field
<1>2. WriteRequest(p.req) \in Seq(Field) /\ Len(WriteRequest(p.req)) \in {1, 2}
  BY <1>1, RequestOnWire
<1>3. <<p.data>> \in Seq(Field) /\ Len(<<p.data>>) = 1 /\ <<p.data>>[1] = p.data
  BY <1>1
<1> QED
  BY <1>2, <1>3, ConcatProperties DEF WriteResponse

\* A Request that is there as a whole is the one that was written, but for a
\* selector that is not sent, and nothing is left behind it.
LEMMA RequestIsRead ==
  ASSUME NEW r \in AnyRequest, NEW s \in Seq(Field),
         Begins(s, WriteRequest(r)), HoldsRequest(s)
  PROVE  /\ ReadRequest(s) = Answer(r).req
         /\ Drop(s, RequestLen(s)) = <<>>
<1> DEFINE w == WriteRequest(r)
<1>1. s # <<>> /\ Len(s) \in Nat /\ Len(s) >= 1 /\ Head(s) = s[1]
  BY DEF HoldsRequest
<1>2. s[1] = r.reqEnum
  BY <1>1, RequestOnWire DEF Begins
<1>3. Len(s) = RequestLen(s)
  BY <1>1, <1>2, RequestOnWire DEF Begins, HoldsRequest, RequestLen
<1>4. r.reqEnum = "installedPackages" => s[2] = r.selector
  BY <1>1, <1>2, <1>3, RequestOnWire DEF Begins, RequestLen
<1>5. ReadRequest(s) = Answer(r).req
  BY <1>1, <1>2, <1>4 DEF ReadRequest, Answer, Response, Request
<1>6. Drop(s, RequestLen(s)) = <<>>
  BY <1>1, <1>3, SubSeqEmpty DEF Drop
<1> QED
  BY <1>5, <1>6

LEMMA ResponseIsRead ==
  ASSUME NEW r \in AnyRequest, NEW s \in Seq(Field),
         Begins(s, WriteResponse(Answer(r))), HoldsResponse(s)
  PROVE  /\ ReadResponse(s) = Answer(r)
         /\ Drop(s, RequestLen(s) + 1) = <<>>
<1> DEFINE p == Answer(r)
<1>1. p \in [req : AnyRequest, data : AnyData] /\ p.req \in AnyRequest
  BY AnswerIs
<1>2. /\ s # <<>> /\ Len(s) \in Nat /\ Len(s) >= 1 /\ Head(s) = s[1]
      /\ Len(s) > RequestLen(s)
  BY DEF HoldsResponse
<1> DEFINE w == WriteRequest(p.req)
<1>3. /\ Len(w) = IF p.req.reqEnum = "installedPackages" THEN 2 ELSE 1
      /\ w[1] = p.req.reqEnum
      /\ p.req.reqEnum = "installedPackages" => w[2] = p.req.selector
  BY <1>1, RequestOnWire
<1>4. /\ Len(WriteResponse(p)) = Len(w) + 1
      /\ \A k \in 1 .. Len(w) : WriteResponse(p)[k] = w[k]
      /\ WriteResponse(p)[Len(w) + 1] = p.data
  BY <1>1, ResponseOnWire
<1> HIDE DEF p, w
<1>5. s[1] = p.req.reqEnum
  BY <1>2, <1>3, <1>4 DEF Begins, p
<1>6. RequestLen(s) = Len(w) /\ Len(s) = Len(w) + 1
  <2>1. RequestLen(s) = Len(w)
    BY <1>2, <1>3, <1>5 DEF RequestLen
  <2>2. Len(s) <= Len(w) + 1 /\ Len(w) \in Nat
    BY <1>3, <1>4 DEF Begins, p
  <2> QED
    BY <1>2, <2>1, <2>2
<1>7. /\ s[Len(w) + 1] = p.data
      /\ p.req.reqEnum = "installedPackages" => s[2] = p.req.selector
  BY <1>3, <1>4, <1>6 DEF Begins, p
<1>8. p.req = Request(p.req.reqEnum, IF p.req.reqEnum = "installedPackages"
                                     THEN p.req.selector ELSE "")
  BY DEF p, Answer, Response, Request
<1>9. ReadResponse(s) = p
  <2>1. ReadRequest(s) = p.req
    BY <1>2, <1>5, <1>7, <1>8 DEF ReadRequest
  <2>2. p = [req |-> p.req, data |-> p.data]
    BY <1>1
  <2> QED
    BY <1>6, <1>7, <2>1, <2>2 DEF ReadResponse
<1>10. Drop(s, RequestLen(s) + 1) = <<>>
  BY <1>2, <1>6, SubSeqEmpty DEF Drop
<1> QED
  BY <1>9, <1>10 DEF p

\* What is cut off at any field is still a beginning.
LEMMA CutBegins ==
  ASSUME NEW s \in Seq(Field), NEW i \in 0 .. Len(s)
  PROVE  /\ SubSeq(s, 1, i) \in Seq(Field)
         /\ SubSeq(s, 1, i) # <<>> => s # <<>>
         /\ \A t : Begins(s, t) /\ Len(t) \in Nat => Begins(SubSeq(s, 1, i), t)
<1>1. /\ SubSeq(s, 1, i) \in Seq(Field)
      /\ Len(SubSeq(s, 1, i)) = i
      /\ \A k \in 1 .. i : SubSeq(s, 1, i)[k] = s[k]
  OBVIOUS
<1> QED
  BY <1>1 DEF Begins

-------------------------------------------------------------------------------
(* The invariant. *)

LEMMA ThreeOutcomes ==
  /\ Pending # Nothing
  /\ \A rs : Pending # Printed(rs)
<1>1. Pending.state # Nothing.state /\ \A rs : Pending.state # Printed(rs).state
  BY DEF Pending, Nothing, Printed
<1> QED
  BY <1>1

LEMMA RequestsAre ==
  ASSUME TypeOK
  PROVE  /\ requests \in Seq(AnyRequest)
         /\ Len(requests) \in Nat /\ next \in Nat \ {0}
         /\ DOMAIN requests = 1 .. Len(requests)
         /\ \A k \in 1 .. Len(requests) : requests[k] \in AnyRequest
<1>1. requests \in Seq(AnyRequest)
  BY RequestListsAssumption DEF TypeOK
<1> QED
  BY <1>1 DEF TypeOK

LEMMA InitIInv == Init => IInv
<1> SUFFICES ASSUME Init PROVE IInv
  OBVIOUS
<1>1. TypeOK
  <2>1. requests \in Seq(AnyRequest)
    BY RequestListsAssumption DEF Init
  <2>2. next \in 1 .. Len(requests) + 1 /\ Len(responses) < next
    BY <2>1 DEF Init
  <2> QED
    BY <2>2 DEF Init, TypeOK, NoRequest, Request, RequestEnums
<1>2. StreamsOK
  <2>1. NoRequest \in AnyRequest
    BY DEF NoRequest, Request, AnyRequest, RequestEnums, Selectors
  <2> QED
    BY <2>1 DEF Init, StreamsOK
<1>3. ClientInPlace /\ RequestUnderWay /\ RequestInHand /\ ResponseUnderWay
  BY DEF Init, ClientInPlace, RequestUnderWay, RequestInHand, ResponseUnderWay
<1>4. NoneMissing /\ ResponsesInStep
  BY DEF Init, NoneMissing, ResponsesInStep
<1> QED
  BY <1>1, <1>2, <1>3, <1>4 DEF IInv

\* The steps of PeerThread that touch neither stream nor the responses.
LEMMA ClientMovesIInv ==
  ASSUME IInv, GetPeerOk \/ GetPeerFails \/ SendFails \/ Finish
  PROVE  IInv'
<1> USE DEF GetPeerOk, GetPeerFails, SendFails, Finish, serverVars
<1>1. UNCHANGED <<requests, responses, server, req, toServer, toClient, cut>>
  OBVIOUS
<1>2. client # "recv" /\ client' # "recv" /\ (Reaches' => Reaches /\ next' = next)
  BY DEF Reaches, ClientOpen, ServerOpen
<1>3. TypeOK'
  BY RequestsAre DEF IInv, TypeOK
<1>4. StreamsOK' /\ ResponsesInStep'
  BY <1>1 DEF IInv, StreamsOK, ResponsesInStep
<1>5. ClientInPlace'
  BY ThreeOutcomes DEF IInv, ClientInPlace
<1>6. RequestUnderWay' /\ RequestInHand' /\ ResponseUnderWay' /\ NoneMissing'
  BY <1>1, <1>2 DEF IInv, RequestUnderWay, RequestInHand, ResponseUnderWay, NoneMissing
<1> QED
  BY <1>3, <1>4, <1>5, <1>6 DEF IInv

LEMMA SendOkIInv ==
  ASSUME IInv, SendOk
  PROVE  IInv'
<1> USE DEF SendOk, serverVars
<1>1. /\ UNCHANGED <<requests, next, responses, printed, server, req, toClient, cut>>
      /\ Reaches' = Reaches
      /\ client = "send" /\ client' = "recv"
  BY DEF Reaches, ClientOpen, ServerOpen
<1> DEFINE w == WriteRequest(requests[next])
<1>2. next \in 1 .. Len(requests) /\ requests[next] \in AnyRequest
  BY RequestsAre DEF IInv
<1>3. w \in Seq(Field) /\ Len(w) \in Nat /\ Begins(w, w)
  BY <1>2, RequestOnWire DEF Begins
<1>4. toClient = <<>> /\ (Reaches => toServer = <<>> /\ server # "handle")
  BY <1>1 DEF IInv, ResponseUnderWay, RequestUnderWay, RequestInHand
<1>5. toServer' = IF Reaches THEN w ELSE toServer
  BY <1>3, <1>4, ConcatEmptySeq
<1> HIDE DEF w
<1>6. TypeOK' /\ StreamsOK' /\ ResponsesInStep'
  BY <1>1, <1>3, <1>5 DEF IInv, TypeOK, StreamsOK, ResponsesInStep
<1>7. ClientInPlace'
  BY <1>1, <1>2 DEF IInv, ClientInPlace
<1>8. RequestUnderWay'
  BY <1>1, <1>2, <1>3, <1>4, <1>5 DEF IInv, RequestUnderWay, w
<1>9. RequestInHand' /\ ResponseUnderWay' /\ NoneMissing'
  BY <1>1, <1>4, <1>5 DEF IInv, RequestInHand, ResponseUnderWay, NoneMissing
<1> QED
  BY <1>6, <1>7, <1>8, <1>9 DEF IInv

LEMMA RecvOkIInv ==
  ASSUME IInv, RecvOk
  PROVE  IInv'
<1> USE DEF serverVars
<1>1. /\ UNCHANGED <<requests, printed, server, req, toServer, cut>>
      /\ Reaches' = Reaches
      /\ client = "recv" /\ client' = "send" /\ next' = next + 1
  BY DEF RecvOk, Reaches, ClientOpen, ServerOpen
<1> DEFINE a == Answer(requests[next])
<1>2. next \in 1 .. Len(requests) /\ requests[next] \in AnyRequest
  BY <1>1, RequestsAre DEF IInv, ClientInPlace
<1>3. toClient # <<>> /\ Len(responses) = next - 1 /\ Begins(toClient, WriteResponse(a))
  BY DEF RecvOk, HoldsResponse, IInv, ResponseUnderWay
<1>4. ReadResponse(toClient) = a /\ toClient' = <<>>
  BY <1>2, <1>3, ResponseIsRead DEF RecvOk, IInv, StreamsOK
<1>5. responses' = Append(responses, a) /\ a \in [req : AnyRequest, data : AnyData]
  BY <1>2, <1>4, AnswerIs DEF RecvOk, Keeps
<1> HIDE DEF a
<1>6. /\ responses' \in Seq([req : AnyRequest, data : AnyData])
      /\ Len(responses') = next
      /\ \A i \in 1 .. next - 1 : responses'[i] = responses[i]
      /\ responses'[next] = a
      /\ DOMAIN responses = 1 .. next - 1 /\ DOMAIN responses' = 1 .. next
  BY <1>2, <1>3, <1>5 DEF IInv, StreamsOK
<1>7. TypeOK'
  BY <1>1, <1>2, <1>6, RequestsAre DEF IInv, TypeOK, ClientInPlace
<1>8. StreamsOK'
  BY <1>1, <1>4, <1>6 DEF IInv, StreamsOK
<1>9. ResponsesInStep'
  BY <1>1, <1>2, <1>6 DEF IInv, ResponsesInStep, a
<1>10. toServer = <<>> /\ server # "handle"
  BY <1>3 DEF IInv, RequestUnderWay, RequestInHand
<1>11. /\ ClientInPlace' /\ RequestUnderWay' /\ RequestInHand' /\ ResponseUnderWay'
       /\ NoneMissing'
  BY <1>1, <1>2, <1>4, <1>6, <1>10
  DEF IInv, ClientInPlace, RequestUnderWay, RequestInHand, ResponseUnderWay, NoneMissing
<1> QED
  BY <1>7, <1>8, <1>9, <1>11 DEF IInv

LEMMA RecvFailsIInv ==
  ASSUME IInv, RecvFails
  PROVE  IInv'
<1> USE DEF RecvFails, serverVars
<1>1. ~Reaches /\ ~Reaches'
  BY DEF Reaches, ClientOpen, ServerOpen
<1>2. next \in 1 .. Len(requests)
  BY RequestsAre DEF IInv, ClientInPlace
<1>3. TypeOK' /\ StreamsOK' /\ ResponsesInStep'
  BY <1>2, RequestsAre DEF IInv, TypeOK, StreamsOK, ResponsesInStep
<1>4. ClientInPlace' /\ RequestUnderWay' /\ RequestInHand' /\ ResponseUnderWay' /\ NoneMissing'
  BY <1>1
  DEF IInv, ClientInPlace, RequestUnderWay, RequestInHand, ResponseUnderWay, NoneMissing
<1> QED
  BY <1>3, <1>4 DEF IInv

\* The steps of Responder::Run that touch neither stream nor its Request.
LEMMA ServerMovesIInv ==
  ASSUME IInv, ServerAuthOk \/ ServerAuthFails \/ HandleFails \/ ServerDisconnect
  PROVE  IInv'
<1> USE DEF ServerAuthOk, ServerAuthFails, HandleFails, ServerDisconnect, clientVars
<1>1. /\ UNCHANGED <<requests, client, next, responses, printed, req, toServer, toClient, cut>>
      /\ server' # "handle" /\ server' \in {"recv", "hangup", "ended"}
  OBVIOUS
<1>2. Reaches' => Reaches
  BY DEF Reaches, ClientOpen, ServerOpen
<1>3. TypeOK' /\ StreamsOK' /\ ResponsesInStep'
  BY <1>1 DEF IInv, TypeOK, StreamsOK, ResponsesInStep
<1>4. ClientInPlace' /\ RequestUnderWay' /\ RequestInHand' /\ ResponseUnderWay' /\ NoneMissing'
  BY <1>1, <1>2
  DEF IInv, ClientInPlace, RequestUnderWay, RequestInHand, ResponseUnderWay, NoneMissing
<1> QED
  BY <1>3, <1>4 DEF IInv

LEMMA ServerRecvOkIInv ==
  ASSUME IInv, ServerRecvOk
  PROVE  IInv'
<1> USE DEF clientVars
<1>1. /\ UNCHANGED <<requests, client, next, responses, printed, toClient, cut>>
      /\ server = "recv" /\ server' = "handle"
      /\ Reaches' = Reaches
      /\ toServer # <<>>
  BY DEF ServerRecvOk, HoldsRequest, Reaches, ClientOpen, ServerOpen
<1>2. PICK k \in 1 .. Len(requests) :
        /\ Begins(toServer, WriteRequest(requests[k]))
        /\ Reaches => client = "recv" /\ Begins(toServer, WriteRequest(requests[next]))
  BY <1>1 DEF IInv, RequestUnderWay
<1>3. req' = Answer(requests[k]).req /\ toServer' = <<>>
  BY <1>2, RequestsAre, RequestIsRead DEF ServerRecvOk, IInv, StreamsOK
<1>4. Reaches => client = "recv" /\ req' = Answer(requests[next]).req
  BY <1>2, RequestsAre, RequestIsRead DEF ServerRecvOk, IInv, StreamsOK, ClientInPlace
<1>5. req' \in AnyRequest
  BY <1>3, RequestsAre, AnswerIs DEF IInv
<1>6. TypeOK' /\ StreamsOK' /\ ResponsesInStep'
  BY <1>1, <1>3, <1>5 DEF IInv, TypeOK, StreamsOK, ResponsesInStep, AnyRequest
<1>7. toClient = <<>>
  BY <1>1 DEF IInv, RequestUnderWay
<1>8. ClientInPlace' /\ RequestUnderWay' /\ RequestInHand' /\ ResponseUnderWay' /\ NoneMissing'
  BY <1>1, <1>3, <1>4, <1>7
  DEF IInv, ClientInPlace, RequestUnderWay, RequestInHand, ResponseUnderWay, NoneMissing
<1> QED
  BY <1>6, <1>8 DEF IInv

LEMMA ServerRecvFailsIInv ==
  ASSUME IInv, ServerRecvFails
  PROVE  IInv'
<1> USE DEF ServerRecvFails, clientVars
<1>1. ~Reaches /\ ~Reaches'
  BY DEF Reaches, ClientOpen, ServerOpen
<1>2. TypeOK' /\ StreamsOK' /\ ResponsesInStep'
  BY DEF IInv, TypeOK, StreamsOK, ResponsesInStep
<1>3. ClientInPlace' /\ RequestUnderWay' /\ RequestInHand' /\ ResponseUnderWay' /\ NoneMissing'
  BY <1>1
  DEF IInv, ClientInPlace, RequestUnderWay, RequestInHand, ResponseUnderWay, NoneMissing
<1> QED
  BY <1>2, <1>3 DEF IInv

LEMMA HandleOkIInv ==
  ASSUME IInv, HandleOk
  PROVE  IInv'
<1> USE DEF clientVars
<1>1. /\ UNCHANGED <<requests, client, next, responses, printed, req, toServer, cut>>
      /\ server = "handle" /\ server' = "recv"
      /\ Reaches' = Reaches
  BY DEF HandleOk, Reaches, ClientOpen, ServerOpen
<1> DEFINE w == WriteResponse(Answer(req))
<1>2. toServer = <<>> /\ toClient = <<>>
  BY <1>1 DEF IInv, RequestInHand
<1>3. w \in Seq(Field) /\ Len(w) \in Nat /\ Begins(w, w)
  BY AnswerIs, ResponseOnWire DEF IInv, StreamsOK, Begins
<1>4. toClient' = IF Reaches THEN w ELSE <<>>
  BY <1>2, <1>3, ConcatEmptySeq DEF HandleOk, Responds
<1>5. Reaches => client = "recv" /\ w = WriteResponse(Answer(requests[next]))
  BY <1>1, RequestsAre, AnswerIs DEF IInv, RequestInHand, ClientInPlace
<1> HIDE DEF w
<1>6. TypeOK' /\ StreamsOK' /\ ResponsesInStep'
  BY <1>1, <1>2, <1>3, <1>4 DEF IInv, TypeOK, StreamsOK, ResponsesInStep
<1>7. ClientInPlace' /\ RequestUnderWay' /\ RequestInHand' /\ ResponseUnderWay' /\ NoneMissing'
  BY <1>1, <1>2, <1>3, <1>4, <1>5
  DEF IInv, ClientInPlace, RequestUnderWay, RequestInHand, ResponseUnderWay, NoneMissing
<1> QED
  BY <1>6, <1>7 DEF IInv

LEMMA CutIInv ==
  ASSUME IInv, Cut
  PROVE  IInv'
<1> USE DEF serverVars, clientVars
<1>1. PICK i \in 0 .. Len(toServer), j \in 0 .. Len(toClient) :
        /\ toServer' = SubSeq(toServer, 1, i)
        /\ toClient' = SubSeq(toClient, 1, j)
  BY DEF Cut
<1>2. /\ UNCHANGED <<requests, client, next, responses, printed, server, req>>
      /\ cut' = TRUE /\ ~Reaches'
  BY DEF Cut, Reaches
<1>3. /\ toServer' \in Seq(Field) /\ (toServer' # <<>> => toServer # <<>>)
      /\ \A t : Begins(toServer, t) /\ Len(t) \in Nat => Begins(toServer', t)
  BY <1>1, CutBegins DEF IInv, StreamsOK
<1>4. /\ toClient' \in Seq(Field) /\ (toClient' # <<>> => toClient # <<>>)
      /\ \A t : Begins(toClient, t) /\ Len(t) \in Nat => Begins(toClient', t)
  BY <1>1, CutBegins DEF IInv, StreamsOK
<1>5. TypeOK' /\ StreamsOK' /\ ResponsesInStep'
  BY <1>2, <1>3, <1>4 DEF IInv, TypeOK, StreamsOK, ResponsesInStep
<1>6. RequestUnderWay'
  <2>1. \A k \in 1 .. Len(requests) : Len(WriteRequest(requests[k])) \in Nat
    BY RequestsAre, RequestOnWire DEF IInv
  <2> QED
    BY <1>2, <1>3, <1>4, <2>1 DEF IInv, RequestUnderWay
<1>7. ResponseUnderWay'
  <2>1. client = "recv" => Len(WriteResponse(Answer(requests[next]))) \in Nat
    <3> SUFFICES ASSUME client = "recv"
                 PROVE  Len(WriteResponse(Answer(requests[next]))) \in Nat
      OBVIOUS
    <3>1. Answer(requests[next]) \in [req : AnyRequest, data : AnyData]
      BY RequestsAre, AnswerIs DEF IInv, ClientInPlace
    <3>2. WriteResponse(Answer(requests[next])) \in Seq(Field)
      BY <3>1, ResponseOnWire
    <3> QED
      BY <3>2
  <2> QED
    BY <1>2, <1>4, <2>1 DEF IInv, ResponseUnderWay
<1>8. ClientInPlace' /\ RequestInHand' /\ NoneMissing'
  BY <1>2, <1>3, <1>4 DEF IInv, ClientInPlace, RequestInHand, NoneMissing
<1> QED
  BY <1>5, <1>6, <1>7, <1>8 DEF IInv

LEMMA NextIInv == IInv /\ [Next]_vars => IInv'
<1> SUFFICES ASSUME IInv, [Next]_vars PROVE IInv'
  OBVIOUS
<1>1. CASE Client
  BY <1>1, ClientMovesIInv, SendOkIInv, RecvOkIInv, RecvFailsIInv DEF Client
<1>2. CASE Server
  BY <1>2, ServerMovesIInv, ServerRecvOkIInv, ServerRecvFailsIInv, HandleOkIInv DEF Server
<1>3. CASE UNCHANGED vars
  BY <1>3
  DEF vars, clientVars, serverVars, IInv, TypeOK, StreamsOK, ClientInPlace, RequestUnderWay,
      RequestInHand, ResponseUnderWay, NoneMissing, ResponsesInStep,
      Reaches, ClientOpen, ServerOpen
<1> QED
  BY <1>1, <1>2, <1>3, CutIInv DEF Next, Terminated

\* The invariant, of which the theorems below are parts.
THEOREM SessionInvariant == Spec => []IInv
<1> QED
  BY InitIInv, NextIInv, PTL DEF Spec

\* Every variable keeps its type, whatever fails.
THEOREM SessionTypeOK == Spec => []TypeOK
<1>1. IInv => TypeOK
  BY DEF IInv
<1> QED
  BY <1>1, SessionInvariant, PTL

\* SendReceive keeps each answer in the place of its own request, for any list
\* of requests and whatever fails.
THEOREM AnswersKeepTheirPlaces == Spec => []ResponsesInStep
<1>1. IInv => ResponsesInStep
  BY DEF IInv
<1> QED
  BY <1>1, SessionInvariant, PTL

\* Both ends of the unframed streams agree on where a message begins.
THEOREM StreamsStayInStep == Spec => []InStep
<1>1. IInv => InStep
  <2> SUFFICES ASSUME IInv PROVE InStep
    OBVIOUS
  <2>1. toServer # <<>> => toServer[1] \in RequestEnums /\ toClient = <<>>
    <3> SUFFICES ASSUME toServer # <<>>
                 PROVE  toServer[1] \in RequestEnums /\ toClient = <<>>
      OBVIOUS
    <3>1. PICK k \in 1 .. Len(requests) : Begins(toServer, WriteRequest(requests[k]))
      BY DEF IInv, RequestUnderWay
    <3>2. requests[k] \in AnyRequest
      BY RequestsAre DEF IInv
    <3>3. toServer[1] = requests[k].reqEnum
      BY <3>1, <3>2, RequestOnWire DEF Begins, IInv, StreamsOK
    <3> QED
      BY <3>2, <3>3 DEF AnyRequest, IInv, RequestUnderWay
  <2>2. toClient # <<>> => toClient[1] \in RequestEnums
    <3> SUFFICES ASSUME toClient # <<>> PROVE toClient[1] \in RequestEnums
      OBVIOUS
    <3> DEFINE a == Answer(requests[next])
    <3>1. Begins(toClient, WriteResponse(a)) /\ requests[next] \in AnyRequest
      BY RequestsAre DEF IInv, ResponseUnderWay, ClientInPlace
    <3>2. a \in [req : AnyRequest, data : AnyData] /\ a.req \in AnyRequest
      BY <3>1, AnswerIs
    <3>3. Len(WriteRequest(a.req)) \in {1, 2} /\ WriteRequest(a.req)[1] = a.req.reqEnum
      BY <3>2, RequestOnWire
    <3>4. WriteResponse(a)[1] = a.req.reqEnum
      BY <3>2, <3>3, ResponseOnWire
    <3> HIDE DEF a
    <3>5. toClient[1] = a.req.reqEnum
      BY <3>1, <3>4 DEF Begins, IInv, StreamsOK
    <3> QED
      BY <3>2, <3>5 DEF AnyRequest
  <2> QED
    BY <2>1, <2>2 DEF InStep
<1> QED
  BY <1>1, SessionInvariant, PTL

-------------------------------------------------------------------------------
(* Session implements Query: what is printed decides which step it takes. *)

LEMMA InitQuery == Init => AsQuery!QueryInit
  BY DEF Init, AsQuery!QueryInit, Pending

\* What is complete and in step is every answer, in order.
LEMMA CompleteIsAll ==
  ASSUME IInv, Complete(responses)
  PROVE  responses = AnswersTo(requests)
<1>1. /\ DOMAIN responses = 1 .. Len(responses) /\ DOMAIN requests = 1 .. Len(requests)
      /\ responses = [i \in DOMAIN responses |-> responses[i]]
  BY RequestsAre DEF IInv, StreamsOK
<1> QED
  BY <1>1 DEF Complete, AnswersTo, IInv, ResponsesInStep

LEMMA FinishIsAnswer ==
  ASSUME IInv, Finish
  PROVE  AsQuery!Answered \/ AsQuery!Unanswered
<1>1. printed.state = "pending" /\ UNCHANGED requests
  BY DEF Finish, IInv, ClientInPlace, Pending
<1>2. CASE Complete(responses)
  BY <1>1, <1>2, CompleteIsAll DEF Finish, Printed, AsQuery!Answered
<1>3. CASE ~Complete(responses)
  BY <1>1, <1>3 DEF Finish, Nothing, AsQuery!Unanswered
<1> QED
  BY <1>2, <1>3

LEMMA NextQuery ==
  IInv /\ [Next]_vars => [AsQuery!Answered \/ AsQuery!Unanswered]_(AsQuery!queryVars)
<1> SUFFICES ASSUME IInv, [Next]_vars
             PROVE  [AsQuery!Answered \/ AsQuery!Unanswered]_(AsQuery!queryVars)
  OBVIOUS
<1>1. CASE Finish
  BY <1>1, FinishIsAnswer
<1>2. CASE GetPeerFails
  BY <1>2 DEF GetPeerFails, IInv, ClientInPlace, Pending, Nothing, AsQuery!Unanswered
<1>3. CASE ~Finish /\ ~GetPeerFails
  <2>1. UNCHANGED <<requests, printed>>
    BY <1>3
    DEF Next, Client, Server, Terminated, vars, clientVars, serverVars, Cut,
        GetPeerOk, SendOk, SendFails, RecvOk, RecvFails, ServerAuthOk, ServerAuthFails,
        ServerRecvOk, ServerRecvFails, HandleOk, HandleFails, ServerDisconnect
  <2> QED
    BY <2>1 DEF AsQuery!queryVars
<1> QED
  BY <1>1, <1>2, <1>3

\* A session is a query: PeerThread prints, once, every answer in order or
\* nothing.
THEOREM SessionImplementsQuery == Spec => ImplementsQuery
<1> QED
  BY InitQuery, NextQuery, SessionInvariant, PTL DEF Spec, ImplementsQuery, AsQuery!QuerySpec

================================================================================
