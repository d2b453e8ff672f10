---------------------------- MODULE ServerProofs ----------------------------
(***************************************************************************)
(* Proofs of Server's safety properties, for any number of connections and *)
(* addresses, any prefixes and any faults.                                 *)
(***************************************************************************)
EXTENDS Server, SequenceTheorems, TLAPS

(***************************************************************************)
(* Sequences                                                               *)
(***************************************************************************)
\* x is an element of s.
In(x, s) == \E i \in DOMAIN s : s[i] = x

\* No element occurs twice.
Distinct(s) == \A i, j \in DOMAIN s : s[i] = s[j] => i = j

\* What push_back and the kernel's queue do.
LEMMA AppendIn ==
  ASSUME NEW S, NEW s \in Seq(S), NEW x \in S
  PROVE  /\ Append(s, x) \in Seq(S)
         /\ \A y : In(y, Append(s, x)) <=> In(y, s) \/ y = x
         /\ Distinct(s) /\ ~In(x, s) => Distinct(Append(s, x))
<1>1. /\ Append(s, x) \in Seq(S)
      /\ DOMAIN s = 1 .. Len(s)
      /\ DOMAIN Append(s, x) = 1 .. Len(s) + 1
      /\ Len(s) \in Nat
      /\ Append(s, x)[Len(s) + 1] = x
      /\ \A i \in 1 .. Len(s) : Append(s, x)[i] = s[i]
  OBVIOUS
<1>2. ASSUME NEW y, In(y, Append(s, x)) PROVE In(y, s) \/ y = x
  <2>1. PICK i \in 1 .. Len(s) + 1 : Append(s, x)[i] = y
    BY <1>1, <1>2 DEF In
  <2>2. CASE i = Len(s) + 1  BY <1>1, <2>1, <2>2
  <2>3. CASE i \in 1 .. Len(s)  BY <1>1, <2>1, <2>3 DEF In
  <2> QED  BY <1>1, <2>2, <2>3
<1>3. ASSUME NEW y, In(y, s) \/ y = x PROVE In(y, Append(s, x))
  <2>1. CASE y = x
    <3>1. Len(s) + 1 \in DOMAIN Append(s, x)  BY <1>1
    <3> QED  BY <1>1, <2>1, <3>1 DEF In
  <2>2. CASE In(y, s)
    <3>1. PICK i \in 1 .. Len(s) : s[i] = y  BY <1>1, <2>2 DEF In
    <3>2. i \in DOMAIN Append(s, x)  BY <1>1
    <3> QED  BY <1>1, <3>1, <3>2 DEF In
  <2> QED  BY <1>3, <2>1, <2>2
<1>4. ASSUME Distinct(s), ~In(x, s) PROVE Distinct(Append(s, x))
  <2>1. \A i \in 1 .. Len(s) : Append(s, x)[i] # x  BY <1>1, <1>4 DEF In
  <2>2. \A i, j \in 1 .. Len(s) : Append(s, x)[i] = Append(s, x)[j] => i = j
    BY <1>1, <1>4 DEF Distinct
  <2>3. \A i \in 1 .. Len(s) + 1 : i \in 1 .. Len(s) \/ i = Len(s) + 1
    BY <1>1
  <2> QED  BY <1>1, <2>1, <2>2, <2>3 DEF Distinct
<1> QED  BY <1>1, <1>2, <1>3, <1>4

\* What vector::erase does.
LEMMA RemoveAtIn ==
  ASSUME NEW S, NEW s \in Seq(S), NEW i \in DOMAIN s, Distinct(s)
  PROVE  /\ RemoveAt(s, i) \in Seq(S)
         /\ \A y : In(y, RemoveAt(s, i)) <=> In(y, s) /\ y # s[i]
         /\ Distinct(RemoveAt(s, i))
<1> DEFINE n == Len(s)
           r == RemoveAt(s, i)
<1>1. n \in Nat /\ DOMAIN s = 1 .. n /\ i \in 1 .. n
  OBVIOUS
<1>2. /\ r \in Seq(S)
      /\ Len(r) = n - 1
      /\ \A k \in 1 .. n - 1 : r[k] = IF k < i THEN s[k] ELSE s[k + 1]
  <2>1. /\ SubSeq(s, 1, i - 1) \in Seq(S)
        /\ Len(SubSeq(s, 1, i - 1)) = i - 1
        /\ \A k \in 1 .. i - 1 : SubSeq(s, 1, i - 1)[k] = s[k]
    BY <1>1
  <2>2. /\ SubSeq(s, i + 1, n) \in Seq(S)
        /\ Len(SubSeq(s, i + 1, n)) = n - i
        /\ \A k \in 1 .. n - i : SubSeq(s, i + 1, n)[k] = s[i + k]
    BY <1>1
  <2> DEFINE front == SubSeq(s, 1, i - 1)
             back == SubSeq(s, i + 1, n)
  <2>3. r = front \o back
    BY DEF RemoveAt
  <2>4. /\ front \o back \in Seq(S)
        /\ Len(front \o back) = Len(front) + Len(back)
        /\ \A k \in 1 .. Len(front) + Len(back) :
             (front \o back)[k] = IF k <= Len(front) THEN front[k]
                                  ELSE back[k - Len(front)]
    BY <2>1, <2>2, ConcatProperties
  <2> HIDE DEF front, back
  <2>5. Len(front) + Len(back) = n - 1  BY <1>1, <2>1, <2>2 DEF front, back
  <2>6. ASSUME NEW k \in 1 .. n - 1, k < i PROVE r[k] = s[k]
    BY <1>1, <2>1, <2>2, <2>3, <2>4, <2>5, <2>6 DEF front, back
  <2>7. ASSUME NEW k \in 1 .. n - 1, ~(k < i) PROVE r[k] = s[k + 1]
    <3>1. Len(front) = i - 1  BY <2>1 DEF front
    <3>2. r[k] = back[k - (i - 1)]
      BY <1>1, <2>3, <2>4, <2>5, <2>7, <3>1
    <3>3. k - (i - 1) \in 1 .. n - i /\ i + (k - (i - 1)) = k + 1
      BY <1>1, <2>7
    <3> QED  BY <2>2, <3>2, <3>3 DEF back
  <2> QED  BY <2>3, <2>4, <2>5, <2>6, <2>7
<1>3. DOMAIN r = 1 .. n - 1
  BY <1>2
<1>4. ASSUME NEW y, In(y, r) PROVE In(y, s) /\ y # s[i]
  <2>1. PICK k \in 1 .. n - 1 : r[k] = y  BY <1>3, <1>4 DEF In
  <2>2. CASE k < i  BY <1>1, <1>2, <2>1, <2>2 DEF In, Distinct
  <2>3. CASE ~(k < i)
    <3>1. k + 1 \in 1 .. n /\ k + 1 # i /\ s[k + 1] = y
      BY <1>1, <1>2, <2>1, <2>3
    <3> QED  BY <1>1, <3>1 DEF In, Distinct
  <2> QED  BY <2>2, <2>3
<1>5. ASSUME NEW y, In(y, s), y # s[i] PROVE In(y, r)
  <2>1. PICK k \in 1 .. n : s[k] = y  BY <1>1, <1>5 DEF In
  <2>2. CASE k < i
    <3>1. k \in 1 .. n - 1 /\ r[k] = y  BY <1>1, <1>2, <2>1, <2>2
    <3> QED  BY <1>3, <3>1 DEF In
  <2>3. CASE k > i
    <3>1. k - 1 \in 1 .. n - 1 /\ r[k - 1] = y  BY <1>1, <1>2, <2>1, <2>3
    <3> QED  BY <1>3, <3>1 DEF In
  <2> QED  BY <1>1, <1>5, <2>1, <2>2, <2>3
<1>6. Distinct(r)
  <2> SUFFICES ASSUME NEW j \in 1 .. n - 1, NEW k \in 1 .. n - 1, r[j] = r[k]
               PROVE  j = k
    BY <1>3 DEF Distinct
  <2> DEFINE at(l) == IF l < i THEN l ELSE l + 1
  <2>1. at(j) \in 1 .. n /\ at(k) \in 1 .. n
    BY <1>1
  <2>2. s[at(j)] = r[j] /\ s[at(k)] = r[k]
    BY <1>2
  <2>3. at(j) = at(k)
    <3> HIDE DEF at, r, n
    <3> QED  BY <1>1, <2>1, <2>2 DEF Distinct
  <2> QED  BY <1>1, <2>3
<1> QED  BY <1>2, <1>4, <1>5, <1>6

-----------------------------------------------------------------------------
(***************************************************************************)
(* The inductive invariant                                                 *)
(***************************************************************************)
\* The Server's constructor leaves no connection anywhere.
LEMMA InitIInv == Init => IInv
BY HostOfAssumption, NoneAssumption
   DEF Init, IInv, TypeOK, MainStates, ThreadStates, ClientStates,
       HandlerInPlace, SockIsFresh, QueueIsFresh, ThreadInPlace, HungUp,
       OnePlace, JoinInPlace, Owned, Queued, Live, Joinable

\* A step of a Responder's thread leaves the vector, the queues and the main
\* thread alone; _running goes false only on the way to "return".
LEMMA RunIInv ==
  ASSUME IInv, NEW c \in Conns, Run(c)
  PROVE  IInv'
<1>a. UNCHANGED <<mainVars, responders, armed, backlog, sigterm>>
  BY DEF Run, AuthOk, AuthFails, RecvOk, RecvFails, HandleOk, HandleFails,
     Disconnect, StoreNotRunning, ThreadReturns
<1>b. PICK from \in ThreadStates \ {"none"}, to \in ThreadStates \ {"none"} :
        thread[c] = from /\ thread' = [thread EXCEPT ![c] = to]
  BY DEF Run, ThreadStates, ThreadGoes, AuthOk, AuthFails, RecvOk, RecvFails,
     HandleOk, HandleFails, Disconnect, StoreNotRunning, ThreadReturns
<1>c. /\ client' = client \/ client' = [client EXCEPT ![c] = "away"]
      /\ running' = running \/ running' = [running EXCEPT ![c] = FALSE]
  BY DEF Run, AuthOk, AuthFails, RecvOk, RecvFails, HandleOk, HandleFails,
     Disconnect, StoreNotRunning, ThreadReturns
<1>1. /\ UNCHANGED <<mainVars, responders, armed, backlog, sigterm>>
      /\ \A d \in Conns \ {c} : UNCHANGED <<client[d], thread[d], running[d]>>
      /\ thread'[c] # "none" /\ Joinable(c)
      /\ TypeOK'
  <2>1. TypeOK'
    BY <1>a, <1>b, <1>c DEF IInv, TypeOK, ThreadStates, ClientStates, mainVars
  <2>2. \A d \in Conns \ {c} : UNCHANGED <<client[d], thread[d], running[d]>>
    BY <1>b, <1>c DEF IInv, TypeOK
  <2>3. thread'[c] # "none" /\ Joinable(c)
    BY <1>b DEF IInv, TypeOK, Joinable
  <2> QED  BY <1>a, <2>1, <2>2, <2>3
<1>2. \A d \in Conns : (Owned(d)' <=> Owned(d)) /\ (Queued(d)' <=> Queued(d))
  BY <1>1 DEF Owned, Queued
<1>3. \A d \in Conns : Joinable(d)' <=> Joinable(d)
  BY <1>1 DEF Joinable
<1>4. /\ UNCHANGED running[c] \/ (running'[c] = FALSE /\ thread'[c] = "return")
      /\ UNCHANGED client[c] \/ client'[c] = "away"
      /\ thread[c] \in {"return", "ended"} => thread'[c] \in {"return", "ended"}
      /\ thread'[c] \in {"store", "return", "ended"} =>
           \/ client'[c] = "away"
           \/ UNCHANGED client[c] /\ thread[c] \in {"store", "return", "ended"}
  BY DEF Run, IInv, TypeOK, ThreadStates, ClientStates, ThreadGoes,
     AuthOk, AuthFails, RecvOk, RecvFails, HandleOk, HandleFails, Disconnect,
     StoreNotRunning, ThreadReturns
<1>5. HandlerInPlace' /\ SockIsFresh'
  BY <1>1, <1>2, <1>3, <1>4 DEF IInv, TypeOK, HandlerInPlace, SockIsFresh, mainVars
<1>6. QueueIsFresh'
  BY <1>1, <1>2, <1>3, <1>4 DEF IInv, TypeOK, QueueIsFresh
<1>7. ThreadInPlace'
  BY <1>1, <1>2, <1>3, <1>4 DEF IInv, TypeOK, ThreadInPlace, mainVars
<1>8. HungUp'
  BY <1>1, <1>2, <1>3, <1>4 DEF IInv, TypeOK, HungUp
<1>9. OnePlace'
  BY <1>1, <1>2, <1>3, <1>4 DEF IInv, TypeOK, OnePlace, QueueIsFresh, ThreadInPlace, mainVars
<1>10. JoinInPlace'
  <2>1. main = "join" => ri \in DOMAIN responders /\ responders[ri] \in Conns
    BY DEF IInv, TypeOK, JoinInPlace
  <2> QED  BY <1>1, <1>3, <1>4, <2>1 DEF IInv, TypeOK, JoinInPlace, Joinable, mainVars
<1> QED  BY <1>1, <1>5, <1>6, <1>7, <1>8, <1>9, <1>10 DEF IInv

\* A step of the main thread that changes only its place, its cursor and what
\* is armed.
LEMMA MoveIInv ==
  ASSUME IInv,
         \/ SweepSkip \/ SweepJoin \/ SweepEnd \/ RemoteEndpointThrows \/ Admit
         \/ HandshakeOk \/ SpawnThrows \/ BoostSignalHandler \/ Stop \/ Exit
         \/ \E i \in DOMAIN responders : DestroyTerminates(i)
  PROVE  IInv'
<1>1. UNCHANGED <<acc, sock, responders, backlog, client, thread, running>>
  BY DEF SweepSkip, SweepJoin, SweepEnd, RemoteEndpointThrows, Admit, HandshakeOk,
     SpawnThrows, BoostSignalHandler, Stop, Exit, DestroyTerminates
<1>2. /\ main' \in MainStates
      /\ ri' \in Nat \ {0}
      /\ armed' \in SUBSET Acceptors
      /\ sigterm' \in {"none", "pending", "got"}
  BY DEF IInv, TypeOK, MainStates, SweepSkip, SweepJoin, SweepEnd,
     RemoteEndpointThrows, Admit, HandshakeOk, SpawnThrows, BoostSignalHandler,
     Stop, Exit, DestroyTerminates
<1>3. TypeOK'
  BY <1>1, <1>2 DEF IInv, TypeOK
<1>4. \A d \in Conns : /\ Owned(d)' <=> Owned(d)
                       /\ Queued(d)' <=> Queued(d)
                       /\ Joinable(d)' <=> Joinable(d)
  BY <1>1 DEF Owned, Queued, Joinable
<1>5. main # "publish" /\ main' # "publish"
  BY DEF SweepSkip, SweepJoin, SweepEnd, RemoteEndpointThrows, Admit, HandshakeOk,
     SpawnThrows, BoostSignalHandler, Stop, Exit, DestroyTerminates
<1>6. HandlerInPlace'
  BY <1>1 DEF IInv, HandlerInPlace, SweepSkip, SweepJoin, SweepEnd,
     RemoteEndpointThrows, Admit, HandshakeOk, SpawnThrows, BoostSignalHandler,
     Stop, Exit, DestroyTerminates
<1>7. SockIsFresh'
  BY <1>1, <1>4, <1>5 DEF IInv, TypeOK, SockIsFresh
<1>8. QueueIsFresh'
  BY <1>1, <1>4 DEF IInv, QueueIsFresh
<1>9. ThreadInPlace'
  BY <1>1, <1>4, <1>5 DEF IInv, ThreadInPlace
<1>10. HungUp' /\ OnePlace'
  BY <1>1, <1>4 DEF IInv, HungUp, OnePlace
<1>11. JoinInPlace'
  BY <1>1 DEF IInv, TypeOK, JoinInPlace, Joinable, SweepSkip, SweepJoin, SweepEnd,
     RemoteEndpointThrows, Admit, HandshakeOk, SpawnThrows, BoostSignalHandler,
     Stop, Exit, DestroyTerminates
<1> QED  BY <1>3, <1>6, <1>7, <1>8, <1>9, <1>10, <1>11 DEF IInv

\* A Responder whose thread has ended, or never was, is erased: the connection
\* is closed, so no place for it is needed any more.
LEMMA EraseIInv ==
  ASSUME IInv, SweepErase \/ \E i \in DOMAIN responders : DestroyResponder(i)
  PROVE  IInv'
<1>1. PICK i \in DOMAIN responders :
        /\ thread[responders[i]] = "ended" \/ ~Joinable(responders[i])
        /\ ~running[responders[i]] \/ ~Joinable(responders[i])
        /\ thread' = [thread EXCEPT ![responders[i]] = "none"]
        /\ responders' = RemoveAt(responders, i)
  BY DEF IInv, JoinInPlace, SweepErase, SweepErases, DestroyResponder, Joined
<1>2. /\ UNCHANGED <<acc, sock, ri, armed, backlog, client, running, sigterm>>
      /\ main' \in MainStates
      /\ main' \notin {"join", "publish"} /\ main # "publish"
      /\ HandlerInPlace'
  BY DEF IInv, HandlerInPlace, SweepErase, SweepErases, DestroyResponder,
     MainStates, mainVars
<1> DEFINE e == responders[i]
<1>3. e \in Conns /\ Owned(e)
  BY DEF IInv, TypeOK, Owned
<1>4. Distinct(responders)
  <2>1. \A j \in DOMAIN responders : responders[j] \in Conns
    BY DEF IInv, TypeOK
  <2> QED  BY <2>1 DEF IInv, OnePlace, Distinct
<1>5. /\ responders' \in Seq(Conns)
      /\ \A d \in Conns : Owned(d)' <=> Owned(d) /\ d # e
      /\ Distinct(responders')
  <2>1. /\ responders' \in Seq(Conns)
        /\ \A d : In(d, responders') <=> In(d, responders) /\ d # e
        /\ Distinct(responders')
    BY <1>1, <1>4, RemoveAtIn DEF IInv, TypeOK
  <2> QED  BY <2>1 DEF Owned, In
<1>6. ~running[e] /\ client[e] = "away"
  BY <1>1, <1>3 DEF IInv, ThreadInPlace, HungUp, TypeOK
<1>7. \A d \in Conns : /\ Queued(d)' <=> Queued(d)
                       /\ Joinable(d)' <=> Joinable(d) /\ d # e
                       /\ d # e => thread'[d] = thread[d]
  BY <1>1, <1>2, <1>3 DEF Queued, Joinable, IInv, TypeOK
<1>8. TypeOK'
  BY <1>1, <1>2, <1>3, <1>5 DEF IInv, TypeOK, ThreadStates
<1>9. SockIsFresh' /\ QueueIsFresh'
  BY <1>2, <1>3, <1>7 DEF IInv, TypeOK, SockIsFresh, QueueIsFresh, OnePlace
<1>10. ThreadInPlace'
  BY <1>2, <1>3, <1>5, <1>6, <1>7 DEF IInv, ThreadInPlace
<1>11. HungUp'
  BY <1>1, <1>2, <1>3, <1>5, <1>6, <1>7 DEF IInv, HungUp, TypeOK
<1>12. JoinInPlace'
  BY <1>2 DEF JoinInPlace
<1>13. OnePlace'
  BY <1>2, <1>3, <1>5, <1>6, <1>7 DEF IInv, OnePlace, Distinct
<1> QED  BY <1>2, <1>8, <1>9, <1>10, <1>11, <1>12, <1>13 DEF IInv

\* push_back of the Responder that the handler constructed: its connection
\* moves from the handler to the vector.
LEMMA PushBackIInv ==
  ASSUME IInv, HandshakeFails \/ Publish
  PROVE  IInv'
<1>1. /\ sock \in Conns /\ acc \in Acceptors
      /\ main \in {"handshake", "publish"}
      /\ responders' = Append(responders, sock)
      /\ sock' = None /\ main' = "run"
      /\ UNCHANGED <<ri, backlog, thread, sigterm>>
  BY DEF IInv, TypeOK, HandlerInPlace, HandshakeFails, Publish, Rearm
<1>2. Distinct(responders) /\ ~In(sock, responders)
  <2>1. \A j \in DOMAIN responders : responders[j] \in Conns
    BY DEF IInv, TypeOK
  <2> QED  BY <1>1, <2>1 DEF IInv, OnePlace, Distinct, In, Owned
<1>3. /\ responders' \in Seq(Conns)
      /\ \A d \in Conns : Owned(d)' <=> Owned(d) \/ d = sock
      /\ Distinct(responders')
  <2>1. /\ responders' \in Seq(Conns)
        /\ \A d : In(d, responders') <=> In(d, responders) \/ d = sock
        /\ Distinct(responders')
    BY <1>1, <1>2, AppendIn DEF IInv, TypeOK
  <2> QED  BY <2>1 DEF Owned, In
<1>4. \A d \in Conns : (Queued(d)' <=> Queued(d)) /\ (Joinable(d)' <=> Joinable(d))
  BY <1>1 DEF Queued, Joinable
<1>5. \A d \in Conns \ {sock} : UNCHANGED <<client[d], running[d]>>
  BY <1>1 DEF HandshakeFails, Publish, IInv, TypeOK
<1>6. TypeOK' /\ HandlerInPlace'
  BY <1>1, <1>3 DEF HandshakeFails, Publish, Rearm, IInv, TypeOK, HandlerInPlace,
     ClientStates, MainStates
<1>7. SockIsFresh' /\ JoinInPlace'
  BY <1>1 DEF SockIsFresh, JoinInPlace
<1>8. \A d \in Conns : Queued(d) => d # sock
  BY DEF IInv, OnePlace
<1>9. QueueIsFresh'
  BY <1>1, <1>4, <1>5, <1>8 DEF IInv, QueueIsFresh
<1>10. running'[sock] = (main = "publish") /\ Joinable(sock) = (main = "publish")
  BY <1>1, NoneAssumption
     DEF HandshakeFails, Publish, IInv, TypeOK, SockIsFresh, Joinable
<1>11. ThreadInPlace'
  BY <1>1, <1>3, <1>4, <1>5, <1>10 DEF IInv, ThreadInPlace
<1>12. HungUp'
  <2>1. main = "handshake" => client'[sock] = "away"
    BY <1>1 DEF HandshakeFails, Publish, IInv, TypeOK
  <2>2. main = "publish" => UNCHANGED client
    BY <1>1 DEF HandshakeFails, Publish
  <2> QED
    BY <1>1, <1>3, <1>4, <1>5, <1>10, <2>1, <2>2 DEF IInv, HungUp
<1>13. OnePlace'
  BY <1>1, <1>3, <1>4, <1>5, <1>8, NoneAssumption DEF IInv, OnePlace, Distinct
<1> QED  BY <1>6, <1>7, <1>9, <1>11, <1>12, <1>13 DEF IInv

\* The handler's other steps on its socket.
LEMMA HandlerIInv ==
  ASSUME IInv, Deny \/ ExitAcceptLoop \/ SpawnThread
  PROVE  IInv'
<1>1. /\ UNCHANGED <<ri, responders, backlog, running, sigterm>>
      /\ main' \in {"run", "publish"}
      /\ main # "publish"
  BY DEF Deny, ExitAcceptLoop, SpawnThread, Rearm
<1>2. \A d \in Conns : (Owned(d)' <=> Owned(d)) /\ (Queued(d)' <=> Queued(d))
  BY <1>1 DEF Owned, Queued
<1>3. JoinInPlace'
  BY <1>1 DEF JoinInPlace
<1>4. \A d \in Conns : Queued(d) => d # sock
  BY DEF IInv, OnePlace
<1>5. CASE Deny
  <2>1. /\ sock \in Conns /\ acc \in Acceptors
        /\ UNCHANGED thread /\ sock' = None
        /\ client' = [client EXCEPT ![sock] = "away"]
    BY <1>5 DEF Deny, Rearm, IInv, TypeOK, HandlerInPlace
  <2>2. TypeOK' /\ HandlerInPlace' /\ SockIsFresh'
    BY <1>1, <1>5, <2>1 DEF Deny, Rearm, IInv, TypeOK, HandlerInPlace,
       SockIsFresh, ClientStates, MainStates
  <2>3. QueueIsFresh' /\ ThreadInPlace' /\ HungUp'
    BY <1>1, <1>2, <1>4, <2>1
       DEF IInv, TypeOK, QueueIsFresh, ThreadInPlace, HungUp, Joinable
  <2>4. OnePlace'
    BY <1>1, <1>2, <2>1, NoneAssumption DEF IInv, TypeOK, OnePlace
  <2> QED  BY <1>3, <2>2, <2>3, <2>4 DEF IInv
<1>6. CASE ExitAcceptLoop
  <2>1. UNCHANGED <<client, thread, sock>> /\ sock = None /\ main' = "run"
    BY <1>6 DEF ExitAcceptLoop
  <2>2. TypeOK' /\ HandlerInPlace' /\ SockIsFresh'
    BY <1>1, <1>6, <2>1 DEF ExitAcceptLoop, IInv, TypeOK, HandlerInPlace,
       SockIsFresh, MainStates
  <2>3. QueueIsFresh' /\ ThreadInPlace' /\ HungUp' /\ OnePlace'
    BY <1>1, <1>2, <2>1
       DEF IInv, QueueIsFresh, ThreadInPlace, HungUp, OnePlace, Joinable
  <2> QED  BY <1>3, <2>2, <2>3 DEF IInv
<1>7. CASE SpawnThread
  <2>1. /\ sock \in Conns
        /\ UNCHANGED <<acc, sock, client, armed>> /\ main' = "publish"
        /\ main = "spawn"
        /\ thread' = [thread EXCEPT ![sock] = "auth"]
    BY <1>7 DEF SpawnThread, IInv, TypeOK, HandlerInPlace
  <2>2. TypeOK' /\ HandlerInPlace'
    BY <1>1, <2>1 DEF IInv, TypeOK, HandlerInPlace, ThreadStates, MainStates
  <2>3. /\ \A d \in Conns \ {sock} : UNCHANGED thread[d]
        /\ thread'[sock] = "auth" /\ Joinable(sock)'
        /\ ~running[sock] /\ ~Owned(sock) /\ sock # None
    BY <2>1, NoneAssumption
       DEF IInv, TypeOK, SockIsFresh, OnePlace, Joinable
  <2>4. SockIsFresh' /\ QueueIsFresh'
    BY <1>1, <1>2, <1>4, <2>1, <2>3
       DEF IInv, SockIsFresh, QueueIsFresh, Joinable
  <2>5. ThreadInPlace' /\ HungUp'
    BY <1>1, <1>2, <2>1, <2>3 DEF IInv, ThreadInPlace, HungUp, Joinable
  <2>6. OnePlace'
    BY <1>1, <1>2, <2>1 DEF IInv, OnePlace
  <2> QED  BY <1>3, <2>2, <2>4, <2>5, <2>6 DEF IInv
<1> QED  BY <1>5, <1>6, <1>7

\* An accept moves a connection from the front of a queue to the handler; an
\* accept error leaves it where it is.
LEMMA AcceptIInv ==
  ASSUME IInv, NEW a \in Acceptors, Accept(a) \/ AcceptError(a)
  PROVE  IInv'
<1>1. /\ main = "run" /\ sock = None /\ main' = "sweep"
      /\ UNCHANGED <<responders, client, thread, running>>
  BY DEF Accept, AcceptError, IInv, HandlerInPlace
<1>2. \A d \in Conns : (Owned(d)' <=> Owned(d)) /\ (Joinable(d)' <=> Joinable(d))
  BY <1>1 DEF Owned, Joinable
<1>3. JoinInPlace' /\ HungUp' /\ ThreadInPlace'
  BY <1>1, <1>2 DEF IInv, JoinInPlace, HungUp, ThreadInPlace
<1>4. CASE AcceptError(a)
  <2>1. UNCHANGED <<sock, backlog>> /\ acc' = a
    BY <1>1, <1>4 DEF AcceptError
  <2>2. \A d \in Conns : Queued(d)' <=> Queued(d)
    BY <2>1 DEF Queued
  <2>3. TypeOK' /\ HandlerInPlace' /\ SockIsFresh'
    BY <1>1, <1>4, <2>1, NoneAssumption DEF AcceptError, IInv, TypeOK,
       HandlerInPlace, SockIsFresh, MainStates
  <2>4. QueueIsFresh' /\ OnePlace'
    BY <1>1, <1>2, <2>1, <2>2 DEF IInv, QueueIsFresh, OnePlace
  <2> QED  BY <1>3, <2>3, <2>4 DEF IInv
<1>5. CASE Accept(a)
  <2> DEFINE q == backlog[a]
             h == Head(backlog[a])
  <2>1. /\ q \in Seq(Conns) /\ q # <<>>
        /\ backlog' = [backlog EXCEPT ![a] = Tail(q)]
        /\ sock' = h /\ acc' = a
    BY <1>5 DEF Accept, IInv, TypeOK
  <2>2. /\ h \in Conns /\ Tail(q) \in Seq(Conns)
        /\ DOMAIN q = 1 .. Len(q) /\ Len(q) \in Nat \ {0}
        /\ DOMAIN Tail(q) = 1 .. Len(q) - 1
        /\ h = q[1]
        /\ \A i \in 1 .. Len(q) - 1 : Tail(q)[i] = q[i + 1]
    BY <2>1
  <2>3. /\ backlog' \in [Acceptors -> Seq(Conns)]
        /\ backlog'[a] = Tail(q)
        /\ \A b \in Acceptors \ {a} : backlog'[b] = backlog[b]
    BY <2>1, <2>2 DEF IInv, TypeOK
  <2> DEFINE was(b, i) == IF b = a THEN i + 1 ELSE i
  <2>4. \A b \in Acceptors : \A i \in DOMAIN backlog'[b] :
          /\ was(b, i) \in DOMAIN backlog[b]
          /\ backlog'[b][i] = backlog[b][was(b, i)]
          /\ i \in Int
    <3> SUFFICES ASSUME NEW b \in Acceptors, NEW i \in DOMAIN backlog'[b]
                 PROVE  /\ was(b, i) \in DOMAIN backlog[b]
                        /\ backlog'[b][i] = backlog[b][was(b, i)]
                        /\ i \in Int
      OBVIOUS
    <3>1. CASE b = a  BY <2>2, <2>3, <3>1
    <3>2. CASE b # a
      <4>1. backlog[b] \in Seq(Conns)  BY DEF IInv, TypeOK
      <4> QED  BY <2>3, <3>2, <4>1
    <3> QED  BY <3>1, <3>2
  <2>5. Queued(h) /\ 1 \in DOMAIN q
    BY <2>2 DEF Queued
  <2>6. \A d \in Conns : Queued(d)' <=> Queued(d) /\ d # h
    <3>1. ASSUME NEW d \in Conns, Queued(d)' PROVE Queued(d) /\ d # h
      <4>0. PICK b \in Acceptors : \E i \in DOMAIN backlog'[b] : backlog'[b][i] = d
        BY <3>1 DEF Queued
      <4>1. PICK i \in DOMAIN backlog'[b] : backlog'[b][i] = d
        BY <4>0
      <4>2. was(b, i) \in DOMAIN backlog[b] /\ backlog[b][was(b, i)] = d
        BY <2>4, <4>1
      <4>3. b = a => was(b, i) # 1
        BY <2>2, <2>3, <4>1
      <4>4. d # h
        <5> HIDE DEF was
        <5> QED  BY <2>2, <2>5, <4>2, <4>3 DEF IInv, QueueIsFresh
      <4> QED  BY <4>2, <4>4 DEF Queued
    <3>2. ASSUME NEW d \in Conns, Queued(d), d # h PROVE Queued(d)'
      <4>0. PICK b \in Acceptors : \E i \in DOMAIN backlog[b] : backlog[b][i] = d
        BY <3>2 DEF Queued
      <4>1. PICK i \in DOMAIN backlog[b] : backlog[b][i] = d
        BY <4>0
      <4>2. CASE b = a
        <5>1. i - 1 \in DOMAIN Tail(q) /\ Tail(q)[i - 1] = d
          BY <2>2, <3>2, <4>1, <4>2
        <5> QED  BY <2>3, <5>1 DEF Queued
      <4>3. CASE b # a  BY <2>3, <4>1, <4>3 DEF Queued
      <4> QED  BY <4>2, <4>3
    <3> QED  BY <3>1, <3>2
  <2>7. \A b1, b2 \in Acceptors :
          \A i \in DOMAIN backlog'[b1], j \in DOMAIN backlog'[b2] :
            backlog'[b1][i] = backlog'[b2][j] => b1 = b2 /\ i = j
    <3> SUFFICES ASSUME NEW b1 \in Acceptors, NEW b2 \in Acceptors,
                        NEW i \in DOMAIN backlog'[b1], NEW j \in DOMAIN backlog'[b2],
                        backlog'[b1][i] = backlog'[b2][j]
                 PROVE  b1 = b2 /\ i = j
      OBVIOUS
    <3>1. backlog[b1][was(b1, i)] = backlog[b2][was(b2, j)]
      BY <2>4
    <3>2. b1 = b2 /\ was(b1, i) = was(b2, j)
      <4>1. was(b1, i) \in DOMAIN backlog[b1] /\ was(b2, j) \in DOMAIN backlog[b2]
        BY <2>4
      <4> HIDE DEF was
      <4> QED  BY <3>1, <4>1 DEF IInv, QueueIsFresh
    <3>3. i \in Int /\ j \in Int
      BY <2>4
    <3> QED  BY <3>2, <3>3
  <2>8. TypeOK' /\ HandlerInPlace'
    BY <1>1, <1>5, <2>1, <2>2, <2>3, NoneAssumption
       DEF Accept, IInv, TypeOK, HandlerInPlace, MainStates
  <2>9. SockIsFresh'
    BY <1>1, <1>2, <2>1, <2>2, <2>5 DEF IInv, SockIsFresh, QueueIsFresh
  <2>10. QueueIsFresh'
    BY <1>1, <1>2, <2>6, <2>7 DEF IInv, QueueIsFresh
  <2>11. OnePlace'
    BY <1>1, <1>2, <2>1, <2>2, <2>5, <2>6, NoneAssumption DEF IInv, OnePlace
  <2> QED  BY <1>3, <2>8, <2>9, <2>10, <2>11 DEF IInv
<1> QED  BY <1>4, <1>5

\* A new connection was in no place before, and is in one queue after.
LEMMA ConnectIInv ==
  ASSUME IInv, NEW c \in Conns, NEW a \in Acceptors, Connect(c, a)
  PROVE  IInv'
<1>1. /\ UNCHANGED <<mainVars, responders, armed, thread, running, sigterm>>
      /\ client' = [client EXCEPT ![c] = "up"]
      /\ backlog' = [backlog EXCEPT ![a] = Append(@, c)]
      /\ client[c] = "away" /\ ~Joinable(c) /\ ~Owned(c)
  BY DEF Connect, Free, Joinable
<1>2. \A d \in Conns : (Owned(d)' <=> Owned(d)) /\ (Joinable(d)' <=> Joinable(d))
  BY <1>1 DEF Owned, Joinable
<1>3. ~Queued(c) /\ sock # c /\ ~running[c]
  BY <1>1, NoneAssumption
     DEF IInv, QueueIsFresh, SockIsFresh, ThreadInPlace
<1> DEFINE q == backlog[a]
<1>4. /\ q \in Seq(Conns) /\ DOMAIN q = 1 .. Len(q) /\ Len(q) \in Nat
      /\ Append(q, c) \in Seq(Conns)
      /\ DOMAIN Append(q, c) = 1 .. Len(q) + 1
      /\ \A i \in 1 .. Len(q) : Append(q, c)[i] = q[i]
      /\ Append(q, c)[Len(q) + 1] = c
  <2>1. q \in Seq(Conns)  BY DEF IInv, TypeOK
  <2> QED  BY <2>1
<1>5. /\ backlog' \in [Acceptors -> Seq(Conns)]
      /\ backlog'[a] = Append(q, c)
      /\ \A b \in Acceptors \ {a} : backlog'[b] = backlog[b]
  BY <1>1, <1>4 DEF IInv, TypeOK
\* Each place in the queues is an old one with its old connection, or c's.
<1>6. \A b \in Acceptors : \A i \in DOMAIN backlog'[b] :
        \/ i \in DOMAIN backlog[b] /\ backlog'[b][i] = backlog[b][i]
        \/ b = a /\ i = Len(q) + 1 /\ backlog'[b][i] = c
  <2> SUFFICES ASSUME NEW b \in Acceptors, NEW i \in DOMAIN backlog'[b]
               PROVE  \/ i \in DOMAIN backlog[b] /\ backlog'[b][i] = backlog[b][i]
                      \/ b = a /\ i = Len(q) + 1 /\ backlog'[b][i] = c
    OBVIOUS
  <2>1. CASE b = a  BY <1>4, <1>5, <2>1
  <2>2. CASE b # a  BY <1>5, <2>2
  <2> QED  BY <2>1, <2>2
<1>7. \A d \in Conns : Queued(d)' <=> Queued(d) \/ d = c
  <2>1. ASSUME NEW d \in Conns, Queued(d)' PROVE Queued(d) \/ d = c
    BY <1>6, <2>1 DEF Queued
  <2>2. ASSUME NEW d \in Conns, Queued(d) PROVE Queued(d)'
    <3>0. PICK b \in Acceptors : \E i \in DOMAIN backlog[b] : backlog[b][i] = d
      BY <2>2 DEF Queued
    <3>1. PICK i \in DOMAIN backlog[b] : backlog[b][i] = d
      BY <3>0
    <3>2. CASE b = a
      <4>1. i \in DOMAIN backlog'[b] /\ backlog'[b][i] = d
        BY <1>4, <1>5, <3>1, <3>2
      <4> QED  BY <4>1 DEF Queued
    <3>3. CASE b # a  BY <1>5, <3>1, <3>3 DEF Queued
    <3> QED  BY <3>2, <3>3
  <2>3. Queued(c)'
    <3>1. Len(q) + 1 \in DOMAIN backlog'[a] /\ backlog'[a][Len(q) + 1] = c
      BY <1>4, <1>5
    <3> QED  BY <3>1 DEF Queued
  <2> QED  BY <2>1, <2>2, <2>3
<1>8. \A b1, b2 \in Acceptors :
        \A i \in DOMAIN backlog'[b1], j \in DOMAIN backlog'[b2] :
          backlog'[b1][i] = backlog'[b2][j] => b1 = b2 /\ i = j
  <2>1. \A b \in Acceptors : \A i \in DOMAIN backlog[b] : backlog[b][i] # c
    BY <1>3 DEF Queued
  <2> QED  BY <1>6, <2>1 DEF IInv, QueueIsFresh
<1>9. \A d \in Conns \ {c} : client'[d] = client[d]
  BY <1>1 DEF IInv, TypeOK
<1>10. TypeOK' /\ client'[c] = "up"
  BY <1>1, <1>5 DEF IInv, TypeOK, ClientStates, mainVars
<1>11. HandlerInPlace' /\ SockIsFresh'
  BY <1>1, <1>2, <1>3, <1>9 DEF IInv, TypeOK, HandlerInPlace, SockIsFresh, mainVars
<1>12. QueueIsFresh'
  BY <1>1, <1>2, <1>3, <1>7, <1>8, <1>9, <1>10 DEF IInv, QueueIsFresh
<1>13. ThreadInPlace' /\ JoinInPlace'
  BY <1>1, <1>2 DEF IInv, ThreadInPlace, JoinInPlace, Joinable, mainVars
<1>14. HungUp'
  BY <1>1, <1>2, <1>9 DEF IInv, HungUp, Joinable
<1>15. OnePlace'
  BY <1>1, <1>2, <1>3, <1>7, <1>9 DEF IInv, OnePlace, mainVars
<1> QED  BY <1>10, <1>11, <1>12, <1>13, <1>14, <1>15 DEF IInv

\* What else the environment does.
LEMMA ClientIInv ==
  ASSUME IInv, Kill \/ \E c \in Conns : Close(c) \/ Reset(c)
  PROVE  IInv'
<1>1. UNCHANGED <<mainVars, responders, armed, backlog, thread, running>>
  BY DEF Kill, Close, Reset
<1>2. \A d \in Conns : /\ Owned(d)' <=> Owned(d)
                       /\ Queued(d)' <=> Queued(d)
                       /\ Joinable(d)' <=> Joinable(d)
  BY <1>1 DEF Owned, Queued, Joinable
<1>3. \A d \in Conns : client'[d] = "away" <=> client[d] = "away"
  BY DEF Kill, Close, Reset, IInv, TypeOK
<1>4. TypeOK'
  <2>1. client' \in [Conns -> ClientStates] /\ sigterm' \in {"none", "pending", "got"}
    BY DEF Kill, Close, Reset, IInv, TypeOK, ClientStates
  <2> QED  BY <1>1, <2>1 DEF IInv, TypeOK, mainVars
<1>5. HandlerInPlace' /\ SockIsFresh' /\ JoinInPlace'
  BY <1>1, <1>2, <1>3
     DEF IInv, TypeOK, HandlerInPlace, SockIsFresh, JoinInPlace, Joinable, mainVars
<1>6. QueueIsFresh' /\ ThreadInPlace' /\ HungUp'
  BY <1>1, <1>2, <1>3 DEF IInv, QueueIsFresh, ThreadInPlace, HungUp, mainVars
<1>7. OnePlace'
  BY <1>1, <1>2, <1>3 DEF IInv, OnePlace, mainVars
<1> QED  BY <1>4, <1>5, <1>6, <1>7 DEF IInv

LEMMA NextIInv == IInv /\ [Next]_vars => IInv'
<1> SUFFICES ASSUME IInv, [Next]_vars PROVE IInv'
  OBVIOUS
<1>1. CASE UNCHANGED vars
  BY <1>1 DEF vars, IInv, TypeOK, HandlerInPlace, SockIsFresh, QueueIsFresh,
     ThreadInPlace, HungUp, JoinInPlace, OnePlace, Owned, Queued, Joinable
<1>2. CASE Environment
  BY <1>2, ConnectIInv, ClientIInv DEF Environment
<1>3. CASE AcceptHandler
  BY <1>3, AcceptIInv, MoveIInv, EraseIInv, HandlerIInv DEF AcceptHandler
<1>4. CASE ResponderCtor
  BY <1>4, MoveIInv, HandlerIInv, PushBackIInv DEF ResponderCtor
<1>5. CASE \E c \in Conns : Run(c)
  BY <1>5, RunIInv
<1>6. CASE Shutdown
  BY <1>6, MoveIInv, EraseIInv DEF Shutdown
<1>7. CASE Terminated
  BY <1>1, <1>7 DEF Terminated
<1> QED
  BY <1>1, <1>2, <1>3, <1>4, <1>5, <1>6, <1>7 DEF Next

-----------------------------------------------------------------------------
(***************************************************************************)
(* The theorems                                                            *)
(***************************************************************************)
\* The named parts of IInv hold in every reachable state.
THEOREM ServerInvariant == Spec => []IInv
BY InitIInv, NextIInv, PTL DEF Spec

\* Every variable keeps its type.
THEOREM ServerTypeOK == Spec => []TypeOK
<1>1. IInv => TypeOK  BY DEF IInv
<1> QED  BY <1>1, ServerInvariant, PTL

\* No thread runs on without its Responder, whatever the clients, the order in
\* which the threads run and SIGTERM do (Responder.cc:78, Server.cc:119-120).
THEOREM ThreadsHaveOwners == Spec => []ThreadHasOwner
<1>1. IInv => ThreadHasOwner
  BY DEF IInv, ThreadInPlace, ThreadHasOwner, Live, Joinable
<1> QED  BY <1>1, ServerInvariant, PTL

\* The main thread's join() waits only for a thread that has nothing left to
\* do but return (Responder.cc:102-105), so no client can hold up the sweep.
THEOREM JoinsAreShort == Spec => []JoinNeverWaitsForClient
<1>1. IInv => JoinNeverWaitsForClient
  <2> SUFFICES ASSUME IInv, main = "join"
               PROVE  /\ ri \in DOMAIN responders
                      /\ thread[responders[ri]] \in {"return", "ended"}
    BY DEF JoinNeverWaitsForClient
  <2>1. ri \in DOMAIN responders /\ responders[ri] \in Conns
    BY DEF IInv, TypeOK, JoinInPlace
  <2>2. Owned(responders[ri])
    BY <2>1 DEF Owned
  <2> QED  BY <2>1, <2>2 DEF IInv, JoinInPlace, ThreadInPlace
<1> QED  BY <1>1, ServerInvariant, PTL

\* No connection is lost or held twice on its way from a listening socket
\* through the accept handler into the vector (Server.cc:75-93).
THEOREM ConnectionsHaveOnePlace == Spec => []OnePlace
<1>1. IInv => OnePlace  BY DEF IInv
<1> QED  BY <1>1, ServerInvariant, PTL

-----------------------------------------------------------------------------
(***************************************************************************)
(* The server implements ResponderPool                                     *)
(***************************************************************************)
LEMMA InitPool == Init => Pool!PoolInit
BY DEF Init, Pool!PoolInit, slotOf, processOf, Live, Joinable, Owned

\* A change of one connection's slot, in the pool's words.
LEMMA SlotGoes ==
  ASSUME NEW c \in Conns, NEW from, NEW to, slotOf(c) = from, slotOf(c)' = to,
         \A d \in Conns \ {c} : slotOf(d)' = slotOf(d),
         processOf' = processOf
  PROVE  Pool!Goes(c, from, to)
BY DEF Pool!Goes

\* No slot changes: the pool sees at most the process change.
LEMMA SlotsStay ==
  ASSUME \A d \in Conns : slotOf(d)' = slotOf(d)
  PROVE  UNCHANGED [c \in Conns |-> slotOf(c)]
OBVIOUS

LEMMA NextPool ==
  IInv /\ [Next]_vars => [Pool!PoolNext]_(Pool!poolVars)
<1> SUFFICES ASSUME IInv, [Next]_vars PROVE [Pool!PoolNext]_(Pool!poolVars)
  OBVIOUS
\* Steps that neither start, end nor give back anything, and go on running.
<1>1. ASSUME \A d \in Conns : slotOf(d)' = slotOf(d), processOf' = processOf
      PROVE  [Pool!PoolNext]_(Pool!poolVars)
  BY <1>1, SlotsStay DEF Pool!poolVars
<1>2. ASSUME UNCHANGED <<thread, responders>>
      PROVE  \A d \in Conns : slotOf(d)' = slotOf(d)
  BY <1>2 DEF slotOf, Live, Joinable, Owned
<1>3. CASE UNCHANGED vars
  BY <1>1, <1>2, <1>3 DEF vars, processOf
<1>4. CASE Environment
  BY <1>1, <1>2, <1>4 DEF Environment, Connect, Close, Reset, Kill, mainVars, processOf
<1>5. CASE \/ \E a \in Acceptors : Accept(a) \/ AcceptError(a)
           \/ SweepSkip \/ SweepJoin \/ SweepEnd \/ ExitAcceptLoop \/ Deny \/ Admit
           \/ HandshakeOk
  <2>1. UNCHANGED <<thread, responders>> /\ processOf' = processOf
    BY <1>5 DEF Accept, AcceptError, SweepSkip, SweepJoin, SweepEnd, ExitAcceptLoop,
       Deny, Admit, HandshakeOk, Rearm, processOf
  <2> QED  BY <1>1, <1>2, <2>1
<1>6. CASE \/ RemoteEndpointThrows \/ SpawnThrows
           \/ \E i \in DOMAIN responders : DestroyTerminates(i)
  <2>1. /\ UNCHANGED <<thread, responders>>
        /\ processOf \in {"up", "closing"} /\ processOf' = "crashed"
    BY <1>6 DEF RemoteEndpointThrows, SpawnThrows, DestroyTerminates, processOf
  <2>2. Pool!Crash
    BY <1>2, <2>1, SlotsStay DEF Pool!Crash
  <2> QED  BY <2>2 DEF Pool!PoolNext
<1>7. CASE BoostSignalHandler
  <2>1. /\ UNCHANGED <<thread, responders>>
        /\ processOf = "up" /\ processOf' = "closing"
    BY <1>7 DEF BoostSignalHandler, processOf
  <2>2. Pool!CloseDown
    BY <1>2, <2>1, SlotsStay DEF Pool!CloseDown
  <2> QED  BY <2>2 DEF Pool!PoolNext
<1>8. CASE Stop
  <2>1. UNCHANGED <<thread, responders>> /\ processOf' = processOf
    BY <1>8 DEF Stop, processOf
  <2> QED  BY <1>1, <1>2, <2>1
<1>9. CASE Exit
  <2>1. /\ UNCHANGED <<thread, responders>>
        /\ processOf = "closing" /\ processOf' = "down"
    BY <1>9 DEF Exit, processOf
  <2>2. \A d \in Conns : ~Owned(d) /\ ~Joinable(d)
    BY <1>9 DEF Exit, Owned, IInv, ThreadInPlace
  <2>3. \A d \in Conns : slotOf(d) = "free"
    BY <2>2 DEF slotOf, Live, Joinable
  <2>4. Pool!Down
    BY <1>2, <2>1, <2>3, SlotsStay DEF Pool!Down
  <2> QED  BY <2>4 DEF Pool!PoolNext
\* What becomes of the connection in the handler.
<1>10. CASE HandshakeFails \/ SpawnThread \/ Publish
  <2>1. PICK c \in Conns :
          /\ c = sock /\ ClientAllowed(c)
          /\ processOf = "up" /\ processOf' = "up"
    BY <1>10 DEF HandshakeFails, SpawnThread, Publish, Rearm, IInv, TypeOK,
       HandlerInPlace, processOf
  <2>2. ~Owned(c)
    BY <2>1, NoneAssumption DEF IInv, OnePlace
  <2>3. CASE HandshakeFails \/ Publish
    <3>1. /\ responders' = Append(responders, c)
          /\ UNCHANGED thread
      BY <2>1, <2>3 DEF HandshakeFails, Publish
    <3>2. \A d \in Conns : Owned(d)' <=> Owned(d) \/ d = c
      <4>1. \A d : In(d, responders') <=> In(d, responders) \/ d = c
        BY <2>1, <3>1, AppendIn DEF IInv, TypeOK
      <4> QED  BY <4>1 DEF Owned, In
    <3>3. \A d \in Conns \ {c} : slotOf(d)' = slotOf(d)
      BY <3>1, <3>2 DEF slotOf, Live, Joinable
    <3>4. CASE Publish
      <4>1. Joinable(c)
        BY <2>1, <3>4, NoneAssumption DEF Publish, IInv, SockIsFresh
      <4>2. slotOf(c)' = slotOf(c)
        BY <3>1, <4>1 DEF slotOf, Live, Joinable
      <4> QED  BY <1>1, <2>1, <3>3, <4>2
    <3>5. CASE HandshakeFails
      <4>1. ~Joinable(c)
        BY <2>1, <3>5, NoneAssumption DEF HandshakeFails, IInv, SockIsFresh
      <4>2. slotOf(c) = "free" /\ slotOf(c)' = "rejected"
        BY <2>1, <2>2, <3>1, <3>2, <4>1 DEF slotOf, Live, Joinable
      <4>3. Pool!Reject(c)
        BY <2>1, <3>3, <4>2, SlotGoes DEF Pool!Reject
      <4> QED  BY <2>1, <4>3 DEF Pool!PoolNext
    <3> QED  BY <2>3, <3>4, <3>5
  <2>4. CASE SpawnThread
    <3>1. UNCHANGED responders /\ thread' = [thread EXCEPT ![c] = "auth"]
      BY <2>1, <2>4 DEF SpawnThread
    <3>2. ~Joinable(c)
      BY <2>1, <2>4, NoneAssumption DEF SpawnThread, IInv, SockIsFresh
    <3>3. \A d \in Conns \ {c} : slotOf(d)' = slotOf(d)
      BY <3>1 DEF slotOf, Live, Joinable, Owned, IInv, TypeOK
    <3>4. slotOf(c) = "free" /\ slotOf(c)' = "serving"
      BY <2>1, <2>2, <3>1, <3>2 DEF slotOf, Live, Joinable, IInv, TypeOK
    <3>5. Pool!Serve(c)
      BY <2>1, <3>3, <3>4, SlotGoes DEF Pool!Serve
    <3> QED  BY <2>1, <3>5 DEF Pool!PoolNext
  <2> QED  BY <1>10, <2>3, <2>4
\* A thread stays in "serving" until it has returned.
<1>11. ASSUME NEW c \in Conns, Run(c) PROVE [Pool!PoolNext]_(Pool!poolVars)
  <2>1. UNCHANGED <<main, responders>> /\ Alive
    BY <1>11 DEF Run, ThreadGoes, AuthOk, AuthFails, RecvOk, RecvFails, HandleOk,
       HandleFails, Disconnect, StoreNotRunning, ThreadReturns, mainVars
  <2>2. PICK from \in ThreadStates \ {"none", "ended"}, to \in ThreadStates \ {"none"} :
          thread[c] = from /\ thread' = [thread EXCEPT ![c] = to]
    BY <1>11 DEF Run, ThreadStates, ThreadGoes, AuthOk, AuthFails, RecvOk, RecvFails,
       HandleOk, HandleFails, Disconnect, StoreNotRunning, ThreadReturns
  <2>3. \A d \in Conns \ {c} : slotOf(d)' = slotOf(d)
    BY <2>1, <2>2 DEF slotOf, Live, Joinable, Owned, IInv, TypeOK
  <2>4. slotOf(c) = "serving" /\ slotOf(c)' = IF to = "ended" THEN "finished" ELSE "serving"
    BY <2>2 DEF slotOf, Live, Joinable, IInv, TypeOK
  <2>5. processOf' = processOf /\ processOf \in {"up", "closing"}
    BY <2>1 DEF processOf, Alive
  <2>6. CASE to = "ended"
    <3>1. Pool!Finish(c)
      BY <2>3, <2>4, <2>5, <2>6, SlotGoes DEF Pool!Finish
    <3> QED  BY <3>1 DEF Pool!PoolNext
  <2>7. CASE to # "ended"
    BY <1>1, <2>3, <2>4, <2>5, <2>7
  <2> QED  BY <2>6, <2>7
\* What is given back was finished, or is dropped while the process closes.
<1>12. CASE SweepErase \/ \E i \in DOMAIN responders : DestroyResponder(i)
  <2>1. PICK i \in DOMAIN responders :
          /\ \/ thread[responders[i]] = "ended"
             \/ ~Joinable(responders[i]) /\ processOf = "closing"
          /\ thread' = [thread EXCEPT ![responders[i]] = "none"]
          /\ responders' = RemoveAt(responders, i)
    BY <1>12 DEF IInv, JoinInPlace, SweepErase, SweepErases, DestroyResponder,
       Joined, processOf
  <2>2. processOf' = processOf /\ processOf \in {"up", "closing"}
    BY <1>12 DEF SweepErase, SweepErases, DestroyResponder, processOf, mainVars
  <2>3. PICK e \in Conns : e = responders[i] /\ Owned(e)
    BY DEF IInv, TypeOK, Owned
  <2>4. Distinct(responders)
    <3>1. \A j \in DOMAIN responders : responders[j] \in Conns
      BY DEF IInv, TypeOK
    <3> QED  BY <3>1 DEF IInv, OnePlace, Distinct
  <2>5. \A d \in Conns : Owned(d)' <=> Owned(d) /\ d # e
    <3>1. \A d : In(d, responders') <=> In(d, responders) /\ d # e
      BY <2>1, <2>3, <2>4, RemoveAtIn DEF IInv, TypeOK
    <3> QED  BY <3>1 DEF Owned, In
  <2>6. \A d \in Conns \ {e} : slotOf(d)' = slotOf(d)
    BY <2>1, <2>3, <2>5 DEF slotOf, Live, Joinable, IInv, TypeOK
  <2>7. slotOf(e)' = "free"
    BY <2>1, <2>3, <2>5 DEF slotOf, Live, Joinable, IInv, TypeOK
  <2>8. CASE thread[e] = "ended"
    <3>1. slotOf(e) = "finished"
      BY <2>8 DEF slotOf, Live, Joinable
    <3>2. Pool!Release(e)
      BY <2>2, <2>3, <2>6, <2>7, <3>1, SlotGoes DEF Pool!Release
    <3> QED  BY <2>3, <3>2 DEF Pool!PoolNext
  <2>9. CASE ~Joinable(e) /\ processOf = "closing"
    <3>1. slotOf(e) = "rejected"
      BY <2>3, <2>9 DEF slotOf, Live, Joinable
    <3>2. Pool!Drop(e)
      BY <2>2, <2>3, <2>6, <2>7, <2>9, <3>1, SlotGoes DEF Pool!Drop
    <3> QED  BY <2>3, <3>2 DEF Pool!PoolNext
  <2> QED  BY <2>1, <2>3, <2>8, <2>9
<1> QED
  BY <1>3, <1>4, <1>5, <1>6, <1>7, <1>8, <1>9, <1>10, <1>11, <1>12
     DEF Next, AcceptHandler, ResponderCtor, Shutdown, Terminated

\* Every behaviour of the server is one of ResponderPool: allowed clients only,
\* nothing is given back before its thread ended, and the process leaves main()
\* only with every Responder gone.
THEOREM ServerImplementsPool == Spec => ImplementsPool
<1>1. Init => Pool!PoolInit
  BY InitPool
<1>2. IInv /\ [Next]_vars => [Pool!PoolNext]_(Pool!poolVars)
  BY NextPool
<1> QED
  BY <1>1, <1>2, ServerInvariant, PTL DEF Spec, ImplementsPool, Pool!PoolSpec

=============================================================================
