------------------------- MODULE LoadBalancerProofs -------------------------
(***************************************************************************)
(* Theorems about LoadBalancer, for every set of clients and addresses and *)
(* every value of the time limits and of the pool's capacity.              *)
(***************************************************************************)
EXTENDS LoadBalancer, FiniteSetTheorems, TLAPS

USE DEF Forever

-----------------------------------------------------------------------------
\* Typing.

LEMMA SegmentTypes ==
    /\ \A k \in Nat : DataOf(k) \in Segments
    /\ \A status \in {400, 502} : ErrorOf(status) \in Segments
BY DEF DataOf, ErrorOf, Segments

\* A client's history stays a sequence of segments.
LEMMA ReceiveType ==
    ASSUME TypeOK, NEW c \in Clients, NEW segment \in Segments, Receive(c, segment)
    PROVE  received' \in [Clients -> Seq(Segments)]
BY DEF TypeOK, Receive

LEMMA SendErrorType ==
    ASSUME TypeOK, NEW c \in Clients, NEW status \in {400, 502}, sendError(c, status)
    PROVE  received' \in [Clients -> Seq(Segments)]
BY SegmentTypes, ReceiveType DEF TypeOK, sendError

LEMMA GotoType ==
    ASSUME TypeOK, NEW c \in Clients, NEW label \in Pcs, Goto(c, label)
    PROVE  pc' \in [Clients -> Pcs]
BY DEF TypeOK, Goto

\* An update outside the domain changes nothing.
LEMMA ExceptType ==
    ASSUME NEW S, NEW T, NEW f \in [S -> T], NEW x, NEW v \in T
    PROVE  [f EXCEPT ![x] = v] \in [S -> T]
OBVIOUS

LEMMA VerdictType ==
    ASSUME TypeOK, NEW c \in Clients, NEW b, NEW why \in Verdicts
    PROVE  [verdict EXCEPT ![c][b] = why] \in [Clients -> [Backends -> Verdicts]]
<1>1. [verdict[c] EXCEPT ![b] = why] \in [Backends -> Verdicts]
  BY DEF TypeOK
<1> QED BY <1>1 DEF TypeOK

LEMMA NextAttemptType ==
    ASSUME TypeOK, NEW c \in Clients, NextAttempt(c)
    PROVE  pc' \in [Clients -> Pcs] /\ offset' \in [Clients -> Nat]
<1>1. CASE Goto(c, "check") /\ offset' = [offset EXCEPT ![c] = @ + 1]
  <2>1. offset[c] + 1 \in Nat
    BY DEF TypeOK
  <2> QED BY <1>1, <2>1, GotoType DEF TypeOK, Pcs
<1>2. CASE Goto(c, "badGateway") /\ UNCHANGED offset
  BY <1>2, GotoType DEF TypeOK, Pcs
<1> QED BY <1>1, <1>2 DEF NextAttempt

LEMMA ConstantTypes ==
    /\ 0 \in 0 .. HealthCooldown /\ HealthCooldown \in 0 .. HealthCooldown
    /\ 0 \in 0 .. SocketTimeout /\ SocketTimeout \in 0 .. SocketTimeout
    /\ BackendLease \in 0 .. BackendLease
    /\ MaxObjects \in Nat
BY ConstantsAssumption DEF ConstantsAssumption

LEMMA InitType == Init => TypeOK
BY ConstantsAssumption DEF ConstantsAssumption, Init, TypeOK, Backends, Pcs, Verdicts

LEMMA TypeStep == TypeOK /\ [Next]_vars => TypeOK'
<1> SUFFICES ASSUME TypeOK, [Next]_vars PROVE TypeOK'
  OBVIOUS
<1> USE ConstantsAssumption DEF ConstantsAssumption
<1>1. CASE Tick
  BY <1>1 DEF TypeOK, Tick, Less, poolVars, requestVars
<1>2. CASE Registry
  <2>1. CASE list
    BY <2>1 DEF TypeOK, list, pruneExpired, requestVars
  <2>2. ASSUME NEW a \in Addresses, register(a) PROVE TypeOK'
    <3>1. UNCHANGED <<selection, requestVars>> /\ pruneExpired \subseteq Backends
      BY <2>2 DEF register, pruneExpired, TypeOK
    <3>2. CASE /\ pool' = pruneExpired
               /\ leaseLeft' = [b \in Backends |->
                    IF b \in Registered(a) THEN BackendLease ELSE leaseLeft[b]]
               /\ UNCHANGED <<allocated, address, retryIn>>
      BY <3>1, <3>2, ConstantTypes DEF TypeOK, requestVars
    <3>3. CASE /\ allocated < MaxObjects
               /\ allocated' = allocated + 1
               /\ pool' = pruneExpired \cup {allocated'}
               /\ address' = [address EXCEPT ![allocated'] = a]
               /\ retryIn' = [retryIn EXCEPT ![allocated'] = 0]
               /\ leaseLeft' = [leaseLeft EXCEPT ![allocated'] = BackendLease]
      <4>1. allocated' \in 0 .. MaxObjects /\ allocated' \in Backends
        BY <3>3, ConstantTypes DEF TypeOK, Backends
      <4> QED BY <3>1, <3>3, <4>1, ConstantTypes DEF TypeOK, requestVars
    <3>4. CASE pool' = pruneExpired /\ UNCHANGED <<allocated, address, retryIn, leaseLeft>>
      BY <3>1, <3>4 DEF TypeOK, requestVars
    <3> QED BY <2>2, <3>2, <3>3, <3>4 DEF register
  <2>3. ASSUME NEW a \in Addresses, remove(a) PROVE TypeOK'
    BY <2>3 DEF TypeOK, remove, requestVars
  <2> QED BY <1>2, <2>1, <2>2, <2>3 DEF Registry
<1>3. ASSUME NEW c \in Clients, accept(c) PROVE TypeOK'
  BY <1>3 DEF TypeOK, accept, Goto, Pcs, poolVars
<1>4. ASSUME NEW c \in Clients, abort(c) PROVE TypeOK'
  BY <1>4 DEF TypeOK, abort, poolVars
<1>5. ASSUME NEW c \in Clients, handleConnection(c) PROVE TypeOK'
  <2>1. CASE readRequest(c)
    BY <2>1 DEF TypeOK, readRequest, Goto, Pcs, poolVars
  <2>2. CASE rejectRequest(c)
    <3>1. received' \in [Clients -> Seq(Segments)]
      BY <2>2, SendErrorType DEF rejectRequest
    <3> QED BY <2>2, <3>1 DEF TypeOK, rejectRequest, Goto, Pcs, poolVars
  <2>3. CASE snapshot(c)
    BY <2>3 DEF TypeOK, snapshot, Goto, Pcs, pruneExpired
  <2>4. CASE claim(c)
    BY <2>4 DEF TypeOK, claim, Goto, Pcs, poolVars
  <2>5. CASE check(c)
    <3>1. CASE /\ Goto(c, "dial")
               /\ responseStarted' = [responseStarted EXCEPT ![c] = FALSE]
               /\ backendLeft' = [backendLeft EXCEPT ![c] = SocketTimeout]
               /\ UNCHANGED <<offset, verdict>>
      <4>1. UNCHANGED <<poolVars, selection, backends, ticket, clientLeft, aborted, received>>
        BY <2>5 DEF check
      <4> QED BY <3>1, <4>1, ConstantTypes DEF TypeOK, Goto, Pcs, poolVars
    <3>2. CASE /\ verdict' = [verdict EXCEPT ![c][selected(c)] = "skipped"]
               /\ NextAttempt(c)
               /\ UNCHANGED <<responseStarted, backendLeft>>
      <4>1. "skipped" \in Verdicts
        BY DEF Verdicts
      <4>2. verdict' \in [Clients -> [Backends -> Verdicts]]
        BY <3>2, <4>1, VerdictType
      <4>3. UNCHANGED <<poolVars, selection, backends, ticket, clientLeft, aborted, received>>
        BY <2>5 DEF check
      <4> QED BY <3>2, <4>2, <4>3, NextAttemptType DEF TypeOK, poolVars
    <3> QED BY <2>5, <3>1, <3>2 DEF check
  <2>6. CASE dial(c)
    BY <2>6 DEF TypeOK, dial, Goto, Pcs, poolVars
  <2>7. CASE relayRead(c)
    BY <2>7 DEF TypeOK, relayRead, Goto, Pcs, poolVars
  <2>8. CASE relayPartial(c)
    <3>1. received' \in [Clients -> Seq(Segments)]
      BY <2>8, SegmentTypes, ReceiveType DEF TypeOK, relayPartial
    <3> QED BY <2>8, <3>1 DEF TypeOK, relayPartial, poolVars
  <2>9. CASE relayWritten(c)
    <3>1. received' \in [Clients -> Seq(Segments)]
      BY <2>9, SegmentTypes, ReceiveType DEF TypeOK, relayWritten
    <3> QED BY <2>9, <3>1 DEF TypeOK, relayWritten, Goto, Pcs, poolVars
  <2>10. CASE relayEOF(c)
    BY <2>10 DEF TypeOK, relayEOF, Goto, Pcs, poolVars
  <2>11. ASSUME NEW why \in Verdicts, AttemptFailed(c, why) PROVE TypeOK'
    <3>1. verdict' \in [Clients -> [Backends -> Verdicts]]
      <4>1. CASE UNCHANGED verdict
        BY <4>1 DEF TypeOK
      <4>2. CASE verdict' = [verdict EXCEPT ![c][selected(c)] = why]
        BY <2>11, <4>2, VerdictType
      <4> QED BY <2>11, <4>1, <4>2 DEF AttemptFailed
    <3> QED BY <2>11, <3>1 DEF TypeOK, AttemptFailed, Goto, Pcs, poolVars
  <2>12. CASE dialError(c) \/ relayError(c) \/ relayWriteError(c)
    BY <2>11, <2>12 DEF dialError, relayError, relayWriteError, Verdicts
  <2>13. CASE markSuccess(c)
    <3>1. retryIn' \in [Backends -> 0 .. HealthCooldown]
      BY <2>13, ConstantTypes, ExceptType DEF markSuccess, TypeOK
    <3> QED BY <2>13, <3>1 DEF TypeOK, markSuccess, Goto, Pcs
  <2>14. CASE markFailure(c)
    <3>1. retryIn' \in [Backends -> 0 .. HealthCooldown]
      BY <2>14, ConstantTypes, ExceptType DEF markFailure, TypeOK
    <3> QED BY <2>14, <3>1, NextAttemptType DEF TypeOK, markFailure
  <2>15. CASE badGateway(c)
    <3>1. received' \in [Clients -> Seq(Segments)]
      BY <2>15, SendErrorType DEF badGateway
    <3> QED BY <2>15, <3>1 DEF TypeOK, badGateway, Goto, Pcs, poolVars
  <2> QED BY <1>5, <2>1, <2>2, <2>3, <2>4, <2>5, <2>6, <2>7, <2>8, <2>9, <2>10,
             <2>12, <2>13, <2>14, <2>15 DEF handleConnection
<1>6. CASE UNCHANGED vars
  BY <1>6 DEF TypeOK, vars, poolVars, requestVars
<1> QED BY <1>1, <1>2, <1>3, <1>4, <1>5, <1>6 DEF Next

\* The variables of the balancer always have their types.
THEOREM TypeCorrect == Spec => []TypeOK
BY InitType, TypeStep, PTL DEF Spec

-----------------------------------------------------------------------------
\* The round-robin counter.

\* A request that has not reached the claim holds no ticket.
NoTicketBeforeClaim ==
    \A c \in Clients : pc[c] \in {"idle", "read", "snapshot", "claim"} => ticket[c] = -1

TicketInv == NoTicketBeforeClaim /\ EveryTicketOnce

\* Only claim touches the tickets; no other step goes back before it.
LEMMA TicketStep == TypeOK /\ TicketInv /\ [Next]_vars => TicketInv'
<1> SUFFICES ASSUME TypeOK, TicketInv, [Next]_vars PROVE TicketInv'
  OBVIOUS
<1>1. ASSUME NEW c \in Clients, claim(c) PROVE TicketInv'
  <2>1. ticket[c] = -1
    BY <1>1 DEF claim, TicketInv, NoTicketBeforeClaim
  <2>2. /\ ticket' = [ticket EXCEPT ![c] = selection]
        /\ selection' = selection + 1
        /\ pc' = [pc EXCEPT ![c] = "check"]
    BY <1>1 DEF claim, Goto
  <2>3. NoTicketBeforeClaim'
    BY <2>2 DEF TypeOK, TicketInv, NoTicketBeforeClaim
  <2>4. \A f \in Clients : ticket[f] \in Int
    BY DEF TypeOK
  <2>5. \A f \in Clients : ticket[f] < selection
    BY DEF TicketInv, EveryTicketOnce
  <2>6. ticket'[c] = selection /\ \A f \in Clients \ {c} : ticket'[f] = ticket[f]
    BY <2>2 DEF TypeOK
  <2>7. \A d \in Clients : ticket'[d] < selection'
    BY <2>2, <2>4, <2>5, <2>6 DEF TypeOK
  <2>8. ASSUME NEW d \in Clients, NEW e \in Clients, ticket'[d] = ticket'[e], ticket'[d] >= 0
        PROVE  d = e
    <3>1. CASE d = c \/ e = c
      BY <2>8, <2>4, <2>5, <2>6, <3>1 DEF TypeOK
    <3>2. CASE d # c /\ e # c
      BY <2>8, <2>6, <3>2 DEF TicketInv, EveryTicketOnce
    <3> QED BY <3>1, <3>2
  <2>9. ASSUME NEW k \in 0 .. selection' - 1 PROVE \E d \in Clients : ticket'[d] = k
    <3>1. CASE k = selection
      BY <2>2, <3>1 DEF TypeOK
    <3>2. CASE k # selection
      <4>1. k \in 0 .. selection - 1
        BY <2>2, <3>2 DEF TypeOK
      <4>2. PICK d \in Clients : ticket[d] = k
        BY <4>1 DEF TicketInv, EveryTicketOnce
      <4>3. ticket'[d] = k
        BY <2>1, <2>2, <4>1, <4>2 DEF TypeOK
      <4> QED BY <4>3
    <3> QED BY <3>1, <3>2
  <2> QED BY <2>3, <2>7, <2>8, <2>9 DEF TicketInv, EveryTicketOnce
<1>2. ASSUME UNCHANGED <<ticket, selection>>,
             NEW c \in Clients, NEW label \in Pcs, Goto(c, label),
             label \in {"idle", "read", "snapshot", "claim"} => ticket[c] = -1
      PROVE  TicketInv'
  BY <1>2 DEF TypeOK, TicketInv, NoTicketBeforeClaim, EveryTicketOnce, Goto
<1>3. ASSUME UNCHANGED <<ticket, selection, pc>> PROVE TicketInv'
  BY <1>3 DEF TicketInv, NoTicketBeforeClaim, EveryTicketOnce
<1>4. CASE Tick \/ Registry \/ UNCHANGED vars
  BY <1>3, <1>4 DEF Tick, Registry, list, register, remove, vars, requestVars
<1>5. ASSUME NEW c \in Clients, abort(c) \/ relayPartial(c) PROVE TicketInv'
  BY <1>3, <1>5 DEF abort, relayPartial
<1>6. ASSUME NEW c \in Clients, accept(c) \/ readRequest(c) \/ snapshot(c) PROVE TicketInv'
  <2>1. ticket[c] = -1 /\ UNCHANGED <<ticket, selection>>
    BY <1>6 DEF accept, readRequest, snapshot, TicketInv, NoTicketBeforeClaim
  <2>2. \E label \in Pcs : Goto(c, label)
    BY <1>6 DEF accept, readRequest, snapshot, Pcs
  <2> QED BY <1>2, <2>1, <2>2
<1>7. ASSUME NEW c \in Clients, NextAttempt(c), UNCHANGED <<ticket, selection>> PROVE TicketInv'
  BY <1>2, <1>7 DEF NextAttempt, Pcs
<1>8. ASSUME NEW c \in Clients, NEW why, AttemptFailed(c, why) PROVE TicketInv'
  BY <1>2, <1>8 DEF AttemptFailed, Pcs
<1>9. ASSUME NEW c \in Clients, check(c) \/ markFailure(c) PROVE TicketInv'
  BY <1>2, <1>7, <1>9 DEF check, markFailure, Pcs
<1>10. ASSUME NEW c \in Clients,
              rejectRequest(c) \/ dial(c) \/ relayRead(c) \/ relayWritten(c) \/ relayEOF(c)
                \/ markSuccess(c) \/ badGateway(c)
       PROVE  TicketInv'
  BY <1>2, <1>10 DEF rejectRequest, dial, relayRead, relayWritten, relayEOF, markSuccess,
                     badGateway, Pcs
<1> QED BY <1>1, <1>4, <1>5, <1>6, <1>8, <1>9, <1>10
           DEF Next, handleConnection, dialError, relayError, relayWriteError

LEMMA TicketInit == Init => TicketInv
BY DEF Init, TicketInv, NoTicketBeforeClaim, EveryTicketOnce

\* Every number of the shared counter goes to exactly one request, for any
\* number of concurrent clients.
THEOREM TicketsAreUnique == Spec => []EveryTicketOnce
<1>1. TicketInv => EveryTicketOnce
  BY DEF TicketInv
<1> QED BY <1>1, TicketInit, TicketStep, TypeCorrect, PTL DEF Spec

-----------------------------------------------------------------------------
\* One answer per client.

\* While a client can still be written to and its request goes on, the bytes
\* it got, if any, are those of the attempt in progress, and the only way on
\* from there keeps to that attempt: in "relay" responseStarted is set, so
\* that an error ends the request.
AnswerInProgress(c) ==
    received[c] # <<>> /\ Writable(c) /\ pc[c] # "done" =>
        /\ pc[c] \in {"relay", "write", "markSuccess"}
        /\ received[c] = <<DataOf(offset[c])>>
        /\ pc[c] = "relay" => responseStarted[c]

ClientAnswer(c) ==
    /\ pc[c] = "idle" => received[c] = <<>>
    /\ Len(received[c]) <= 1
    /\ AnswerInProgress(c)

AnswerInv == \A c \in Clients : ClientAnswer(c)

\* The loop variable stays within the snapshot.
OffsetInv == \A c \in Clients : offset[c] \in 0 .. MaxObjects

\* Steps of one connection leave the others alone.
OthersKeep(c) ==
    \A d \in Clients \ {c} :
        /\ pc'[d] = pc[d] /\ received'[d] = received[d] /\ offset'[d] = offset[d]
        /\ responseStarted'[d] = responseStarted[d]
        /\ clientLeft'[d] = clientLeft[d] /\ aborted'[d] = aborted[d]

LEMMA AnswerOfOne ==
    ASSUME AnswerInv, NEW c \in Clients, OthersKeep(c), ClientAnswer(c)'
    PROVE  AnswerInv'
<1> SUFFICES ASSUME NEW d \in Clients \ {c} PROVE ClientAnswer(d)'
  BY DEF AnswerInv
<1> QED BY DEF AnswerInv, ClientAnswer, AnswerInProgress, OthersKeep, Writable

\* A write to a client that got nothing else before starts or continues its
\* one answer.
LEMMA ReceiveOne ==
    ASSUME TypeOK, NEW c \in Clients, NEW segment, Receive(c, segment),
           received[c] \in {<<>>, <<segment>>}
    PROVE  received' = [received EXCEPT ![c] = <<segment>>]
<1>1. CASE received[c] = <<>>
  BY <1>1 DEF Receive, TypeOK
<1>2. CASE received[c] = <<segment>>
  <2>1. Len(received[c]) = 1 /\ received[c][1] = segment /\ received[c] # <<>>
    BY <1>2
  <2>2. received' = [received EXCEPT ![c] = @]
    BY <2>1 DEF Receive
  <2> QED BY <1>2, <2>2
<1> QED BY <1>1, <1>2

LEMMA AnswerStep == TypeOK /\ AnswerInv /\ [Next]_vars => AnswerInv'
<1> SUFFICES ASSUME TypeOK, AnswerInv, [Next]_vars PROVE AnswerInv'
  OBVIOUS
<1>1. CASE Tick
  <2> SUFFICES ASSUME NEW c \in Clients PROVE ClientAnswer(c)'
    BY DEF AnswerInv
  <2>1. UNCHANGED <<pc, received, offset, responseStarted, aborted>>
    BY <1>1 DEF Tick
  <2>2. Writable(c)' => Writable(c)
    BY <1>1 DEF Tick, Less, Writable, TypeOK
  <2> QED BY <2>1, <2>2 DEF AnswerInv, ClientAnswer, AnswerInProgress
<1>2. CASE Registry \/ UNCHANGED vars
  <2>1. UNCHANGED <<pc, received, offset, responseStarted, clientLeft, aborted>>
    BY <1>2 DEF Registry, list, register, remove, vars, requestVars
  <2> QED BY <2>1 DEF AnswerInv, ClientAnswer, AnswerInProgress, Writable
<1>3. ASSUME NEW c \in Clients, accept(c) \/ abort(c) \/ handleConnection(c) PROVE AnswerInv'
  <2>0. ClientAnswer(c) /\ DataOf(offset[c]) \in Segments /\ offset[c] \in Nat
    BY SegmentTypes DEF AnswerInv, TypeOK
  <2> SUFFICES OthersKeep(c) /\ ClientAnswer(c)'
    BY <1>3, AnswerOfOne
  <2>1. CASE accept(c)
    BY <2>0, <2>1 DEF accept, Goto, TypeOK, OthersKeep, ClientAnswer, AnswerInProgress
  <2>2. CASE abort(c)
    BY <2>0, <2>2 DEF abort, TypeOK, OthersKeep, ClientAnswer, AnswerInProgress, Writable
  <2>3. ASSUME NEW status, sendError(c, status), Goto(c, "done"), Writable(c) => received[c] = <<>>,
               UNCHANGED <<offset, responseStarted, clientLeft, aborted>>
        PROVE  OthersKeep(c) /\ ClientAnswer(c)'
    <3>1. CASE Writable(c)
      <4>1. received' = [received EXCEPT ![c] = <<ErrorOf(status)>>]
        BY <2>3, <3>1, ReceiveOne DEF sendError
      <4> QED BY <2>3, <4>1 DEF Goto, TypeOK, OthersKeep, ClientAnswer, AnswerInProgress
    <3>2. CASE ~Writable(c)
      <4>1. UNCHANGED received
        BY <2>3, <3>2 DEF sendError
      <4> QED BY <2>0, <2>3, <4>1 DEF Goto, TypeOK, OthersKeep, ClientAnswer, AnswerInProgress
    <3> QED BY <3>1, <3>2
  <2>4. CASE rejectRequest(c)
    BY <2>0, <2>3, <2>4 DEF rejectRequest, ClientAnswer, AnswerInProgress
  <2>5. CASE badGateway(c)
    BY <2>0, <2>3, <2>5 DEF badGateway, ClientAnswer, AnswerInProgress
  <2>6. CASE readRequest(c) \/ snapshot(c) \/ claim(c) \/ dial(c)
    <3>1. /\ UNCHANGED <<received, offset, responseStarted, clientLeft, aborted>>
          /\ received[c] # <<>> => ~Writable(c)
      BY <2>0, <2>6 DEF readRequest, snapshot, claim, dial, ClientAnswer, AnswerInProgress
    <3>2. \E label \in Pcs \ {"idle"} : Goto(c, label)
      BY <2>6 DEF readRequest, snapshot, claim, dial, Pcs
    <3> QED BY <2>0, <3>1, <3>2 DEF Goto, TypeOK, OthersKeep, ClientAnswer, AnswerInProgress, Writable
  <2>7. CASE check(c) \/ markFailure(c)
    <3>1. /\ UNCHANGED <<received, clientLeft, aborted>>
          /\ received[c] # <<>> => ~Writable(c)
      BY <2>0, <2>7 DEF check, markFailure, ClientAnswer, AnswerInProgress
    <3>2. \E label \in Pcs \ {"idle"} : Goto(c, label)
      BY <2>7 DEF check, markFailure, NextAttempt, Pcs
    <3>3. \A d \in Clients \ {c} : offset'[d] = offset[d] /\ responseStarted'[d] = responseStarted[d]
      BY <2>7 DEF check, markFailure, NextAttempt, TypeOK
    <3> QED BY <2>0, <3>1, <3>2, <3>3 DEF Goto, TypeOK, OthersKeep, ClientAnswer, AnswerInProgress, Writable
  <2>8. CASE relayRead(c) \/ relayEOF(c) \/ markSuccess(c)
    BY <2>0, <2>8 DEF relayRead, relayEOF, markSuccess, Goto, TypeOK, OthersKeep, ClientAnswer,
                      AnswerInProgress, Writable
  <2>9. CASE relayPartial(c) \/ relayWritten(c)
    <3>1. received[c] \in {<<>>, <<DataOf(offset[c])>>}
      BY <2>0, <2>9 DEF relayPartial, relayWritten, ClientAnswer, AnswerInProgress
    <3>2. received' = [received EXCEPT ![c] = <<DataOf(offset[c])>>]
      BY <2>9, <3>1, ReceiveOne DEF relayPartial, relayWritten
    <3>3. \/ UNCHANGED <<pc, responseStarted>> /\ pc[c] = "write"
          \/ Goto(c, "relay") /\ responseStarted' = [responseStarted EXCEPT ![c] = TRUE]
      BY <2>9 DEF relayPartial, relayWritten
    <3>4. UNCHANGED <<offset, clientLeft, aborted>>
      BY <2>9 DEF relayPartial, relayWritten
    <3> QED BY <2>0, <3>2, <3>3, <3>4 DEF Goto, TypeOK, OthersKeep, ClientAnswer, AnswerInProgress, Writable
  <2>10. ASSUME NEW why, AttemptFailed(c, why),
                received[c] # <<>> /\ Writable(c) => responseStarted[c]
         PROVE  OthersKeep(c) /\ ClientAnswer(c)'
    <3>1. UNCHANGED <<received, offset, responseStarted, clientLeft, aborted>>
      BY <2>10 DEF AttemptFailed
    <3>2. Goto(c, "done") \/ (~responseStarted[c] /\ Goto(c, "markFailure"))
      BY <2>10 DEF AttemptFailed
    <3> QED BY <2>0, <2>10, <3>1, <3>2 DEF Goto, TypeOK, OthersKeep, ClientAnswer, AnswerInProgress, Writable
  <2>11. CASE dialError(c) \/ relayError(c) \/ relayWriteError(c)
    BY <2>0, <2>10, <2>11 DEF dialError, relayError, relayWriteError, ClientAnswer, AnswerInProgress
  <2> QED BY <1>3, <2>1, <2>2, <2>4, <2>5, <2>6, <2>7, <2>8, <2>9, <2>11 DEF handleConnection
<1> QED BY <1>1, <1>2, <1>3 DEF Next

LEMMA AnswerInit == Init => AnswerInv
BY DEF Init, AnswerInv, ClientAnswer, AnswerInProgress

LEMMA AnswerInvariant == Spec => []AnswerInv
BY AnswerInit, AnswerStep, TypeCorrect, PTL DEF Spec

\* No client ever gets bytes of two answers, whatever fails and whenever.
THEOREM OneAnswer == Spec => []SingleAnswer
<1>1. AnswerInv => SingleAnswer
  BY DEF AnswerInv, ClientAnswer, SingleAnswer
<1> QED BY <1>1, AnswerInvariant, PTL

-----------------------------------------------------------------------------
\* The balancer is a Gateway.

LEMMA SizeBound ==
    ASSUME TypeOK, NEW c \in Clients
    PROVE  Size(c) \in Nat /\ Size(c) <= MaxObjects
<1>1. IsFiniteSet(Backends) /\ Cardinality(Backends) = MaxObjects
  <2>1. Cardinality(Backends) = IF 1 > MaxObjects THEN 0 ELSE MaxObjects - 1 + 1
    BY ConstantTypes, FS_Interval DEF Backends
  <2> QED BY <2>1, ConstantTypes, FS_Interval DEF Backends
<1> QED BY <1>1, FS_Subset, FS_CardinalityType DEF TypeOK, Size

LEMMA OffsetStep == TypeOK /\ OffsetInv /\ [Next]_vars => OffsetInv'
<1> SUFFICES ASSUME TypeOK, OffsetInv, [Next]_vars PROVE OffsetInv'
  OBVIOUS
<1>1. ASSUME NEW c \in Clients, NextAttempt(c) PROVE OffsetInv'
  <2>1. CASE offset[c] + 1 < Size(c) /\ offset' = [offset EXCEPT ![c] = @ + 1]
    <3>1. offset[c] + 1 \in 0 .. MaxObjects
      BY <2>1, SizeBound, ConstantTypes DEF TypeOK
    <3> QED BY <2>1, <3>1 DEF OffsetInv, TypeOK
  <2>2. CASE UNCHANGED offset
    BY <2>2 DEF OffsetInv
  <2> QED BY <1>1, <2>1, <2>2 DEF NextAttempt
<1>2. CASE UNCHANGED offset
  BY <1>2 DEF OffsetInv
<1>3. CASE Tick \/ Registry \/ UNCHANGED vars
  BY <1>2, <1>3 DEF Tick, Registry, list, register, remove, vars, requestVars
<1>4. ASSUME NEW c \in Clients, check(c) \/ markFailure(c) PROVE OffsetInv'
  BY <1>1, <1>2, <1>4 DEF check, markFailure
<1>5. ASSUME NEW c \in Clients, dialError(c) \/ relayError(c) \/ relayWriteError(c) PROVE OffsetInv'
  BY <1>2, <1>5 DEF dialError, relayError, relayWriteError, AttemptFailed
<1>6. ASSUME NEW c \in Clients,
             accept(c) \/ abort(c) \/ readRequest(c) \/ rejectRequest(c) \/ snapshot(c) \/ claim(c)
               \/ dial(c)
      PROVE  OffsetInv'
  BY <1>2, <1>6 DEF accept, abort, readRequest, rejectRequest, snapshot, claim, dial
<1>7. ASSUME NEW c \in Clients,
             relayRead(c) \/ relayPartial(c) \/ relayWritten(c) \/ relayEOF(c) \/ markSuccess(c)
               \/ badGateway(c)
      PROVE  OffsetInv'
  BY <1>2, <1>7 DEF relayRead, relayPartial, relayWritten, relayEOF, markSuccess, badGateway
<1> QED BY <1>3, <1>4, <1>5, <1>6, <1>7 DEF Next, handleConnection

LEMMA OffsetInvariant == Spec => []OffsetInv
<1>1. Init => OffsetInv
  BY ConstantTypes DEF Init, OffsetInv
<1> QED BY <1>1, OffsetStep, TypeCorrect, PTL DEF Spec

\* What a step of one goroutine is for the Gateway depends on where it goes.
LEMMA PhaseStep ==
    ASSUME TypeOK, NEW c \in Clients, NEW label \in Pcs \ {"idle"}, Goto(c, label),
           pc[c] \notin {"idle", "done"}
    PROVE  /\ ClientPhase[c] = "serving"
           /\ label # "done" => UNCHANGED ClientPhase
           /\ label = "done" => ClientPhase' = [ClientPhase EXCEPT ![c] = "closed"]
BY DEF Goto, ClientPhase, TypeOK

LEMMA RefinementInit == Init => G!Init
BY DEF Init, G!Init, ClientPhase

LEMMA RefinementStep ==
    TypeOK /\ AnswerInv /\ OffsetInv /\ [Next]_vars => [G!Next]_(G!vars)
<1> SUFFICES ASSUME TypeOK, AnswerInv, OffsetInv, [Next]_vars PROVE [G!Next]_(G!vars)
  OBVIOUS
<1>1. CASE Tick \/ Registry \/ UNCHANGED vars
  <2>1. UNCHANGED <<pc, received>>
    BY <1>1 DEF Tick, Registry, list, register, remove, vars, requestVars
  <2> QED BY <2>1 DEF ClientPhase, G!vars
<1>2. ASSUME NEW c \in Clients, accept(c) PROVE [G!Next]_(G!vars)
  <2>1. ClientPhase[c] = "idle" /\ ClientPhase' = [ClientPhase EXCEPT ![c] = "serving"]
    BY <1>2 DEF accept, Goto, ClientPhase, TypeOK
  <2>2. G!Accept(c)
    BY <1>2, <2>1 DEF accept, G!Accept
  <2> QED BY <2>2 DEF G!Next
<1>3. ASSUME NEW c \in Clients, abort(c) PROVE [G!Next]_(G!vars)
  BY <1>3 DEF abort, ClientPhase, G!vars
<1>4. ASSUME NEW c \in Clients, handleConnection(c) PROVE [G!Next]_(G!vars)
  <2>0. ClientAnswer(c)
    BY DEF AnswerInv
  <2>1. ASSUME NEW label \in Pcs \ {"idle"}, Goto(c, label), pc[c] \notin {"idle", "done"},
               UNCHANGED received
        PROVE  [G!Next]_(G!vars)
    <3>1. CASE label # "done"
      BY <2>1, <3>1, PhaseStep DEF G!vars
    <3>2. CASE label = "done"
      <4>1. G!Close(c)
        BY <2>1, <3>2, PhaseStep DEF G!Close
      <4> QED BY <4>1 DEF G!Next
    <3> QED BY <3>1, <3>2
  <2>2. ASSUME NEW status \in {400, 502}, sendError(c, status), Goto(c, "done"),
               pc[c] \in {"read", "badGateway"}
        PROVE  [G!Next]_(G!vars)
    <3>1. CASE Writable(c)
      <4>1. received[c] = <<>>
        BY <2>0, <2>2, <3>1 DEF ClientAnswer, AnswerInProgress
      <4>2. received' = [received EXCEPT ![c] = <<ErrorOf(status)>>]
        BY <2>2, <3>1, <4>1, ReceiveOne DEF sendError
      <4>3. ClientPhase[c] = "serving" /\ ClientPhase' = [ClientPhase EXCEPT ![c] = "closed"]
        BY <2>2, PhaseStep DEF Pcs
      <4>4. G!Refuse(c, ErrorOf(status))
        BY <4>1, <4>2, <4>3 DEF G!Refuse
      <4>5. ErrorOf(status) \in [kind: {"error"}, status: {400, 502}]
        BY DEF ErrorOf
      <4> QED BY <4>4, <4>5 DEF G!Next
    <3>2. CASE ~Writable(c)
      BY <2>1, <2>2, <3>2 DEF sendError, Pcs
    <3> QED BY <3>1, <3>2
  <2>3. CASE rejectRequest(c) \/ badGateway(c)
    BY <2>2, <2>3 DEF rejectRequest, badGateway
  <2>4. CASE readRequest(c) \/ snapshot(c) \/ claim(c) \/ dial(c) \/ relayRead(c) \/ relayEOF(c)
               \/ markSuccess(c)
    BY <2>1, <2>4 DEF readRequest, snapshot, claim, dial, relayRead, relayEOF, markSuccess, Pcs
  <2>5. CASE check(c) \/ markFailure(c)
    BY <2>1, <2>5 DEF check, markFailure, NextAttempt, Pcs
  <2>6. CASE dialError(c) \/ relayError(c) \/ relayWriteError(c)
    BY <2>1, <2>6 DEF dialError, relayError, relayWriteError, AttemptFailed, Pcs
  <2>7. CASE relayPartial(c) \/ relayWritten(c)
    <3>1. received[c] \in {<<>>, <<DataOf(offset[c])>>}
      BY <2>0, <2>7 DEF relayPartial, relayWritten, ClientAnswer, AnswerInProgress
    <3>2. received' = [received EXCEPT ![c] = <<DataOf(offset[c])>>]
      BY <2>7, <3>1, ReceiveOne DEF relayPartial, relayWritten
    <3>3. ClientPhase[c] = "serving" /\ UNCHANGED ClientPhase
      BY <2>7, PhaseStep DEF relayPartial, relayWritten, ClientPhase, Pcs
    <3>4. G!Forward(c, DataOf(offset[c]))
      BY <3>1, <3>2, <3>3 DEF G!Forward
    <3>5. DataOf(offset[c]) \in [kind: {"data"}, attempt: 0 .. MaxObjects]
      BY DEF DataOf, OffsetInv
    <3> QED BY <3>4, <3>5 DEF G!Next
  <2> QED BY <1>4, <2>3, <2>4, <2>5, <2>6, <2>7 DEF handleConnection
<1> QED BY <1>1, <1>2, <1>3, <1>4 DEF Next

\* For its clients the balancer is a Gateway, however many backends and
\* clients there are.
THEOREM Refinement == Spec => ImplementsGateway
BY RefinementInit, RefinementStep, TypeCorrect, AnswerInvariant, OffsetInvariant, PTL
   DEF Spec, ImplementsGateway, G!Spec

-----------------------------------------------------------------------------
\* Membership.

\* Objects that were not allocated yet are no members.
PoolInv == pool \subseteq 1 .. allocated /\ Membership

LEMMA PoolFinite ==
    ASSUME TypeOK
    PROVE  IsFiniteSet(pool) /\ \A S \in SUBSET pool : IsFiniteSet(S) /\ Cardinality(S) <= Cardinality(pool)
<1>1. IsFiniteSet(Backends)
  BY ConstantTypes, FS_Interval DEF Backends
<1>2. IsFiniteSet(pool)
  BY <1>1, FS_Subset DEF TypeOK
<1> QED BY <1>2, FS_Subset

\* Losing members, without any other change, keeps the invariant.
LEMMA PoolShrinks ==
    ASSUME TypeOK, PoolInv, pool' \subseteq pool, UNCHANGED <<allocated, address>>
    PROVE  PoolInv'
<1>1. pool' \subseteq 1 .. allocated'
  BY DEF PoolInv
<1>2. ASSUME RegistryMode PROVE AddressesDistinct'
  BY <1>2 DEF PoolInv, Membership, AddressesDistinct
<1>3. ASSUME RegistryMode PROVE Cardinality(pool') <= MaxBackends
  <2>1. Cardinality(pool') <= Cardinality(pool) /\ Cardinality(pool) <= MaxBackends
    BY <1>3, PoolFinite DEF PoolInv, Membership
  <2>2. Cardinality(pool') \in Nat /\ Cardinality(pool) \in Nat /\ MaxBackends \in Nat
    BY PoolFinite, FS_CardinalityType, ConstantsAssumption DEF ConstantsAssumption
  <2> QED BY <2>1, <2>2
<1> QED BY <1>1, <1>2, <1>3 DEF PoolInv, Membership, RegistryMode

LEMMA PoolStep == TypeOK /\ PoolInv /\ [Next]_vars => PoolInv'
<1> SUFFICES ASSUME TypeOK, PoolInv, [Next]_vars PROVE PoolInv'
  OBVIOUS
<1>0. pruneExpired \subseteq pool
  BY DEF pruneExpired
<1>1. ASSUME NEW a \in Addresses, register(a) PROVE PoolInv'
  <2>1. CASE pool' = pruneExpired /\ UNCHANGED <<allocated, address>>
    BY <1>0, <2>1, PoolShrinks
  <2>2. CASE /\ Registered(a) = {} /\ registerStatus(a) = 204
             /\ allocated' = allocated + 1
             /\ pool' = pruneExpired \cup {allocated'}
             /\ address' = [address EXCEPT ![allocated'] = a]
             /\ allocated < MaxObjects
    <3>1. allocated' \notin pool /\ allocated' \in Backends /\ pool' \subseteq 1 .. allocated'
      <4>1. allocated \in Nat /\ allocated + 1 \in 1 .. MaxObjects
        BY <2>2, ConstantTypes DEF TypeOK
      <4>2. pool \subseteq 1 .. allocated
        BY DEF PoolInv
      <4> QED BY <1>0, <2>2, <4>1, <4>2 DEF Backends
    <3>2. \A b \in pruneExpired : address'[b] = address[b] /\ address[b] # a
      BY <1>0, <2>2, <3>1 DEF Registered, TypeOK
    <3>3. address'[allocated'] = a
      BY <2>2, <3>1 DEF TypeOK
    <3>4. ASSUME RegistryMode PROVE AddressesDistinct'
      BY <1>0, <2>2, <3>2, <3>3, <3>4 DEF AddressesDistinct, PoolInv, Membership
    <3>5. ASSUME RegistryMode PROVE Cardinality(pool') <= MaxBackends
      <4>1. IsFiniteSet(pruneExpired) /\ Cardinality(pruneExpired) \in Nat
        BY <1>0, PoolFinite, FS_CardinalityType
      <4>2. Cardinality(pool') = Cardinality(pruneExpired) + 1
        BY <1>0, <2>2, <3>1, <4>1, FS_AddElement
      <4>3. Cardinality(pruneExpired) < MaxBackends
        BY <2>2 DEF registerStatus
      <4> QED BY <4>1, <4>2, <4>3, ConstantsAssumption DEF ConstantsAssumption
    <3> QED BY <3>1, <3>4, <3>5 DEF PoolInv, Membership, RegistryMode
  <2> QED BY <1>1, <2>1, <2>2 DEF register
<1>2. CASE list \/ \E a \in Addresses : remove(a)
  <2>1. pool' \subseteq pool /\ UNCHANGED <<allocated, address>>
    BY <1>0, <1>2 DEF list, remove
  <2> QED BY <2>1, PoolShrinks
<1>3. CASE Tick \/ UNCHANGED vars
  BY <1>3, PoolShrinks DEF Tick, vars, poolVars
<1>4. ASSUME NEW c \in Clients, snapshot(c) PROVE PoolInv'
  BY <1>0, <1>4, PoolShrinks DEF snapshot
<1>5. ASSUME NEW c \in Clients, dialError(c) \/ relayError(c) \/ relayWriteError(c) PROVE PoolInv'
  BY <1>5, PoolShrinks DEF dialError, relayError, relayWriteError, AttemptFailed, poolVars
<1>6. ASSUME NEW c \in Clients,
             accept(c) \/ abort(c) \/ readRequest(c) \/ rejectRequest(c) \/ claim(c) \/ check(c)
               \/ dial(c)
      PROVE  PoolInv'
  BY <1>6, PoolShrinks DEF accept, abort, readRequest, rejectRequest, claim, check, dial, poolVars
<1>7. ASSUME NEW c \in Clients,
             relayRead(c) \/ relayPartial(c) \/ relayWritten(c) \/ relayEOF(c) \/ markSuccess(c)
               \/ markFailure(c) \/ badGateway(c)
      PROVE  PoolInv'
  BY <1>7, PoolShrinks DEF relayRead, relayPartial, relayWritten, relayEOF, markSuccess,
                           markFailure, badGateway, poolVars
<1> QED BY <1>1, <1>2, <1>3, <1>4, <1>5, <1>6, <1>7 DEF Next, Registry, handleConnection

LEMMA PoolInit == Init => PoolInv
<1> SUFFICES ASSUME Init PROVE PoolInv
  OBVIOUS
<1>1. pool = 1 .. allocated
  BY DEF Init
<1>2. ASSUME RegistryMode PROVE pool = {}
  BY <1>2 DEF Init, RegistryMode
<1>3. ASSUME RegistryMode PROVE AddressesDistinct /\ Cardinality(pool) <= MaxBackends
  <2>1. Cardinality(pool) = 0
    BY <1>2, <1>3, FS_EmptySet
  <2> QED BY <1>2, <1>3, <2>1, ConstantsAssumption DEF ConstantsAssumption, AddressesDistinct
<1> QED BY <1>1, <1>3 DEF PoolInv, Membership

LEMMA PoolInvariant == Spec => []PoolInv
BY PoolInit, PoolStep, TypeCorrect, PTL DEF Spec

\* The registry never lists an address twice nor more than maxBackends.
THEOREM MembershipBounded == Spec => []Membership
<1>1. PoolInv => Membership
  BY DEF PoolInv
<1> QED BY <1>1, PoolInvariant, PTL

\* Where an address is listed once, remove takes that one object.
LEMMA RemovesItsAddress ==
    ASSUME TypeOK, PoolInv, NEW a, remove(a)
    PROVE  \A b \in pool \ pool' : address[b] = a
<1>1. PICK d \in pool : Removable(a) = {d} /\ address[d] = a
  <2>1. RegistryMode /\ Removable(a) # {}
    BY DEF remove, removeStatus
  <2>2. AddressesDistinct
    BY <2>1 DEF PoolInv, Membership
  <2> QED BY <2>1, <2>2 DEF Removable, AddressesDistinct
<1>2. {e \in Removable(a) : e < d} = {}
  <2>1. d \in Int
    BY DEF TypeOK, Backends
  <2> QED BY <1>1, <2>1
<1>3. At(Removable(a), 0) = d
  BY <1>1, <1>2, FS_EmptySet DEF At
<1> QED BY <1>1, <1>3 DEF remove

\* The step that every action of the balancer makes on the pool.
LEMMA MembersStayStep ==
    ASSUME TypeOK, PoolInv, [Next]_vars
    PROVE  [/\ \A b \in pool \ pool' : Live(b) => remove(address[b])
            /\ \A b \in pool' \ pool : b > allocated]_vars
<1> DEFINE Stay == /\ \A b \in pool \ pool' : Live(b) => remove(address[b])
                   /\ \A b \in pool' \ pool : b > allocated
<1>1. ASSUME pool' \subseteq pool, \A b \in pool \ pool' : ~Live(b)
      PROVE  Stay
  BY <1>1
<1>2. ASSUME UNCHANGED pool PROVE Stay
  BY <1>1, <1>2
<1>3. ASSUME pool' = pruneExpired PROVE Stay
  BY <1>1, <1>3 DEF pruneExpired
<1>4. ASSUME NEW a \in Addresses, register(a)
      PROVE  Stay
  <2>1. CASE pool' = pruneExpired \cup {allocated'} /\ allocated' = allocated + 1
    <3>1. allocated' > allocated
      BY <2>1 DEF TypeOK
    <3> QED BY <2>1, <3>1 DEF pruneExpired
  <2> QED BY <1>3, <1>4, <2>1 DEF register
<1>5. ASSUME NEW a \in Addresses, remove(a)
      PROVE  Stay
  BY <1>5, RemovesItsAddress DEF remove
<1>6. CASE list \/ \E c \in Clients : snapshot(c)
  BY <1>3, <1>6 DEF list, snapshot
<1>7. CASE Tick \/ UNCHANGED vars
  BY <1>2, <1>7 DEF Tick, vars, poolVars
<1>8. ASSUME NEW c \in Clients, dialError(c) \/ relayError(c) \/ relayWriteError(c)
      PROVE  UNCHANGED pool
  BY <1>8 DEF dialError, relayError, relayWriteError, AttemptFailed, poolVars
<1>9. ASSUME NEW c \in Clients,
             accept(c) \/ abort(c) \/ readRequest(c) \/ rejectRequest(c) \/ claim(c) \/ check(c)
               \/ dial(c)
      PROVE  UNCHANGED pool
  BY <1>9 DEF accept, abort, readRequest, rejectRequest, claim, check, dial, poolVars
<1>10. ASSUME NEW c \in Clients,
              relayRead(c) \/ relayPartial(c) \/ relayWritten(c) \/ relayEOF(c) \/ markSuccess(c)
                \/ markFailure(c) \/ badGateway(c)
       PROVE  UNCHANGED pool
  BY <1>10 DEF relayRead, relayPartial, relayWritten, relayEOF, markSuccess, markFailure,
               badGateway, poolVars
<1> QED BY <1>2, <1>4, <1>5, <1>6, <1>7, <1>8, <1>9, <1>10 DEF Next, Registry, handleConnection

\* A member with a running lease leaves the pool by a DELETE of its own
\* address only, and the pool never gets an object back.
THEOREM MembersLeaveByDelete == Spec => MembersStay
BY MembersStayStep, PoolInvariant, TypeCorrect, PTL DEF Spec, MembersStay

-----------------------------------------------------------------------------
\* The k-th element of a sorted slice.

\* How many elements come before b.
Rank(S, b) == Cardinality({d \in S : d < b})

LEMMA RankOrder ==
    ASSUME NEW S \in SUBSET Int, IsFiniteSet(S)
    PROVE  /\ \A b \in S : Rank(S, b) \in 0 .. Cardinality(S) - 1
           /\ \A b, d \in S : b < d => Rank(S, b) < Rank(S, d)
<1> DEFINE Below(b) == {d \in S : d < b}
<1>1. \A b \in S : IsFiniteSet(Below(b)) /\ Cardinality(Below(b)) \in Nat
  BY FS_Subset, FS_CardinalityType
<1>2. ASSUME NEW b \in S PROVE Cardinality(Below(b)) < Cardinality(S)
  <2>1. b \notin Below(b) /\ Below(b) \in SUBSET S
    OBVIOUS
  <2>2. Cardinality(S) # Cardinality(Below(b)) /\ Cardinality(Below(b)) <= Cardinality(S)
    BY <2>1, FS_Subset
  <2> QED BY <1>1, <2>2, FS_CardinalityType
<1>3. ASSUME NEW b \in S, NEW d \in S, b < d PROVE Cardinality(Below(b)) < Cardinality(Below(d))
  <2>1. \A e \in S : e \in Int /\ ~(e < e) /\ (e < b => e < d)
    BY <1>3
  <2>2. b \in Below(d) /\ b \notin Below(b) /\ Below(b) \in SUBSET Below(d)
    BY <1>3, <2>1
  <2>3. /\ Cardinality(Below(d)) # Cardinality(Below(b))
        /\ Cardinality(Below(b)) <= Cardinality(Below(d))
    BY <1>1, <2>2, FS_Subset
  <2> QED BY <1>1, <2>3
<1>4. Cardinality(S) \in Nat
  BY FS_CardinalityType
<1> QED BY <1>1, <1>2, <1>3, <1>4 DEF Rank

LEMMA RankInjective ==
    ASSUME NEW S \in SUBSET Int, IsFiniteSet(S), NEW b \in S, NEW d \in S, Rank(S, b) = Rank(S, d)
    PROVE  b = d
<1>1. Rank(S, b) \in Int
  BY RankOrder
<1>2. ~(b < d) /\ ~(d < b)
  BY <1>1, RankOrder
<1> QED BY <1>2

\* Every index of the slice has exactly one element.
LEMMA AtIndex ==
    ASSUME NEW S \in SUBSET Int, IsFiniteSet(S), NEW k \in 0 .. Cardinality(S) - 1
    PROVE  At(S, k) \in S /\ Rank(S, At(S, k)) = k
<1> DEFINE f == [b \in S |-> Rank(S, b)]
           n == Cardinality(S)
<1>1. n \in Nat
  BY FS_CardinalityType
<1>2. IsFiniteSet(0 .. n - 1) /\ Cardinality(0 .. n - 1) = n
  <2> HIDE DEF n
  <2>1. 0 \in Int /\ n - 1 \in Int
    BY <1>1
  <2>2. /\ IsFiniteSet(0 .. n - 1)
        /\ Cardinality(0 .. n - 1) = IF 0 > n - 1 THEN 0 ELSE (n - 1) - 0 + 1
    BY <2>1, FS_Interval
  <2> QED BY <1>1, <2>2
<1>3. f \in Injection(S, 0 .. n - 1)
  <2>1. f \in [S -> 0 .. n - 1]
    BY RankOrder
  <2>2. \A b, d \in S : f[b] = f[d] => b = d
    BY RankInjective
  <2> QED BY <2>1, <2>2 DEF Injection, IsInjective
<1>4. f \in Surjection(S, 0 .. n - 1)
  BY <1>2, <1>3, FS_Injection
<1>5. \E b \in S : Rank(S, b) = k
  BY <1>4 DEF Surjection
<1> QED BY <1>5 DEF At, Rank

-----------------------------------------------------------------------------
\* The rotation of handleConnection.

\* What (initialIndex + offset) % n is.
LEMMA WrapAround ==
    ASSUME NEW n \in Nat, NEW i \in 0 .. n - 1, NEW k \in 0 .. n - 1
    PROVE  (i + k) % n = IF i + k < n THEN i + k ELSE i + k - n
OBVIOUS

LEMMA Remainder ==
    ASSUME NEW n \in Nat \ {0}, NEW t \in Nat
    PROVE  t % n \in 0 .. n - 1
OBVIOUS

\* The backend handleConnection comes to with the k-th iteration.
Stop(c, k) == At(backends[c], (initialIndex(c) + k) % Size(c))

\* The backends of the first n iterations.
Visited(c, n) == {Stop(c, k) : k \in 0 .. n - 1}

LEMMA SnapshotFinite ==
    ASSUME TypeOK, NEW c \in Clients
    PROVE  backends[c] \in SUBSET Int /\ IsFiniteSet(backends[c]) /\ Size(c) \in Nat
<1>1. IsFiniteSet(Backends)
  BY ConstantTypes, FS_Interval DEF Backends
<1>2. backends[c] \in SUBSET Backends /\ Backends \subseteq Int
  BY DEF TypeOK, Backends
<1> QED BY <1>1, <1>2, FS_Subset, FS_CardinalityType DEF Size

\* Within one round the iterations come to different backends.
LEMMA StopsDiffer ==
    ASSUME TypeOK, NEW c \in Clients, Size(c) > 0, ticket[c] >= 0
    PROVE  /\ \A k \in 0 .. Size(c) - 1 : Stop(c, k) \in backends[c]
           /\ \A k, m \in 0 .. Size(c) - 1 : Stop(c, k) = Stop(c, m) => k = m
<1> DEFINE n == Size(c)
           i == initialIndex(c)
           index(k) == (i + k) % n
<1>1. n \in Nat \ {0} /\ ticket[c] \in Nat
  BY SnapshotFinite DEF TypeOK
<1>2. i \in 0 .. n - 1
  BY <1>1, Remainder DEF initialIndex
<1> HIDE DEF n, i
<1>3. \A k \in 0 .. n - 1 : index(k) = IF i + k < n THEN i + k ELSE i + k - n
  BY <1>1, <1>2, WrapAround
<1>4. \A k \in 0 .. n - 1 : index(k) \in 0 .. n - 1
  BY <1>1, <1>2, <1>3
<1>5. \A k, m \in 0 .. n - 1 : index(k) = index(m) => k = m
  BY <1>1, <1>2, <1>3
<1> HIDE DEF index
<1>6. \A k : Stop(c, k) = At(backends[c], index(k))
  BY DEF Stop, index, i, n
<1>7. \A k \in 0 .. n - 1 :
        Stop(c, k) \in backends[c] /\ Rank(backends[c], Stop(c, k)) = index(k)
  BY <1>4, <1>6, SnapshotFinite, AtIndex DEF n, Size
<1> QED BY <1>5, <1>7 DEF n

\* So the first k iterations visit k backends, and Size(c) of them all.
LEMMA VisitedCount ==
    ASSUME TypeOK, NEW c \in Clients, Size(c) > 0, ticket[c] >= 0, NEW k \in 0 .. Size(c)
    PROVE  /\ Visited(c, k) \subseteq backends[c]
           /\ Cardinality(Visited(c, k)) = k
           /\ k < Size(c) => Stop(c, k) \notin Visited(c, k)
           /\ k = Size(c) => Visited(c, k) = backends[c]
<1> DEFINE f == [m \in 0 .. k - 1 |-> Stop(c, m)]
<1>1. Size(c) \in Nat /\ k \in Nat /\ \A m \in 0 .. k - 1 : m \in 0 .. Size(c) - 1 /\ m # k
  BY SnapshotFinite
<1>2. Visited(c, k) \subseteq backends[c]
  BY <1>1, StopsDiffer DEF Visited
<1>3. f \in Bijection(0 .. k - 1, Visited(c, k))
  <2>1. f \in [0 .. k - 1 -> Visited(c, k)]
    BY DEF Visited
  <2>2. \A m, l \in 0 .. k - 1 : f[m] = f[l] => m = l
    BY <1>1, StopsDiffer
  <2>3. \A b \in Visited(c, k) : \E m \in 0 .. k - 1 : f[m] = b
    BY DEF Visited
  <2> QED BY <2>1, <2>2, <2>3 DEF Bijection, Injection, IsInjective, Surjection
<1>4. IsFiniteSet(0 .. k - 1) /\ Cardinality(0 .. k - 1) = k
  <2>1. 0 \in Int /\ k - 1 \in Int
    BY <1>1
  <2>2. /\ IsFiniteSet(0 .. k - 1)
        /\ Cardinality(0 .. k - 1) = IF 0 > k - 1 THEN 0 ELSE (k - 1) - 0 + 1
    BY <2>1, FS_Interval
  <2> QED BY <1>1, <2>2
<1>5. Cardinality(Visited(c, k)) = k
  <2>1. ExistsBijection(0 .. k - 1, Visited(c, k))
    BY <1>3 DEF ExistsBijection
  <2> QED BY <1>4, <2>1, FS_Bijection
<1>6. ASSUME k < Size(c) PROVE Stop(c, k) \notin Visited(c, k)
  <2>1. k \in 0 .. Size(c) - 1
    BY <1>1, <1>6
  <2> QED BY <1>1, <2>1, StopsDiffer DEF Visited
<1>7. ASSUME k = Size(c) PROVE Visited(c, k) = backends[c]
  BY <1>2, <1>5, <1>7, SnapshotFinite, FS_Subset DEF Size
<1> QED BY <1>2, <1>5, <1>6, <1>7

LEMMA VisitedNext ==
    ASSUME NEW c, NEW k \in Nat
    PROVE  /\ Visited(c, 0) = {}
           /\ Visited(c, k + 1) = Visited(c, k) \cup {Stop(c, k)}
<1>1. 0 .. (k + 1) - 1 = (0 .. k - 1) \cup {k}
  OBVIOUS
<1> QED BY <1>1 DEF Visited

\* A 502 among what the client has got.
Got502(c) == \E i \in 1 .. Len(received[c]) : received[c][i] = ErrorOf(502)

Entering == {"idle", "read", "snapshot", "claim"}
Trying == {"check", "dial", "relay", "write", "markSuccess"}

\* The backends judged so far are those of the iterations that are over: in
\* "markFailure" the iteration in progress has its verdict already.
RotationOf(c) ==
    /\ Judged(c) \subseteq backends[c]
    /\ pc[c] \in Entering => Judged(c) = {} /\ offset[c] = 0
    /\ pc[c] = "claim" => backends[c] # {}
    /\ pc[c] \in Trying \cup {"markFailure"} => ticket[c] >= 0 /\ offset[c] < Size(c)
    /\ pc[c] \in Trying => Judged(c) = Visited(c, offset[c])
    /\ pc[c] = "markFailure" => Judged(c) = Visited(c, offset[c] + 1)
    /\ pc[c] = "badGateway" => backends[c] \subseteq Judged(c)
    /\ Got502(c) => pc[c] = "done" /\ backends[c] \subseteq Judged(c)

RotationInv == \A c \in Clients : RotationOf(c)

\* What RotationOf(c) depends on.
SameRound(c) == backends'[c] = backends[c] /\ ticket'[c] = ticket[c]
SameRequest(c) ==
    /\ SameRound(c)
    /\ pc'[c] = pc[c] /\ offset'[c] = offset[c]
    /\ received'[c] = received[c] /\ verdict'[c] = verdict[c]

LEMMA VisitedSame ==
    ASSUME NEW c \in Clients, SameRound(c), NEW k, offset'[c] = k
    PROVE  /\ Size(c)' = Size(c)
           /\ Visited(c, offset[c])' = Visited(c, k)
           /\ Visited(c, offset[c] + 1)' = Visited(c, k + 1)
BY DEF SameRound, Visited, Stop, initialIndex, Size

LEMMA RotationSame ==
    ASSUME NEW c \in Clients, RotationOf(c), SameRequest(c)
    PROVE  RotationOf(c)'
<1>1. Judged(c)' = Judged(c) /\ (Got502(c)' <=> Got502(c))
  BY DEF SameRequest, Judged, Got502
<1>2. /\ Size(c)' = Size(c) /\ Visited(c, offset[c])' = Visited(c, offset[c])
      /\ Visited(c, offset[c] + 1)' = Visited(c, offset[c] + 1)
  BY VisitedSame DEF SameRequest
<1> QED BY <1>1, <1>2 DEF SameRequest, SameRound, RotationOf

\* A step of one connection has to be looked at for that one only.
LEMMA RotationOfOne ==
    ASSUME RotationInv, NEW c \in Clients, \A d \in Clients \ {c} : SameRequest(d), RotationOf(c)'
    PROVE  RotationInv'
BY RotationSame DEF RotationInv

\* A verdict on the backend of the iteration in progress.
LEMMA JudgedNext ==
    ASSUME TypeOK, NEW c \in Clients, RotationOf(c), pc[c] \in Trying,
           NEW why \in Verdicts \ {"none"},
           verdict' = [verdict EXCEPT ![c][selected(c)] = why]
    PROVE  /\ Judged(c)' = Visited(c, offset[c] + 1)
           /\ Judged(c)' \subseteq backends[c]
           /\ offset[c] + 1 = Size(c) => Judged(c)' = backends[c]
<1>1. /\ Size(c) > 0 /\ Size(c) \in Nat /\ ticket[c] >= 0 /\ offset[c] < Size(c)
      /\ offset[c] \in Nat /\ offset[c] \in 0 .. Size(c) - 1 /\ offset[c] + 1 \in 0 .. Size(c)
  BY SnapshotFinite DEF RotationOf, TypeOK
<1>2. selected(c) = Stop(c, offset[c])
  BY DEF selected, Stop
<1>3. selected(c) \in Backends
  BY <1>1, <1>2, StopsDiffer DEF TypeOK
<1>4. Judged(c)' = Judged(c) \cup {selected(c)}
  <2>1. verdict'[c] = [verdict[c] EXCEPT ![selected(c)] = why]
    BY DEF TypeOK
  <2>2. \A b \in Backends : verdict'[c][b] = IF b = selected(c) THEN why ELSE verdict[c][b]
    BY <2>1 DEF TypeOK
  <2> QED BY <1>3, <2>2 DEF Judged
<1>5. Judged(c) = Visited(c, offset[c])
  BY DEF RotationOf
<1>6. Judged(c)' = Visited(c, offset[c] + 1)
  BY <1>1, <1>2, <1>4, <1>5, VisitedNext
<1> QED BY <1>1, <1>6, VisitedCount

\* The end of an iteration whose backend has its verdict.
LEMMA NextAttemptKeeps ==
    ASSUME TypeOK, NEW c \in Clients, NextAttempt(c), SameRound(c), UNCHANGED received,
           RotationOf(c), pc[c] \in Trying \cup {"markFailure"},
           Judged(c)' = Visited(c, offset[c] + 1)
    PROVE  RotationOf(c)'
<1>1. /\ Size(c) > 0 /\ Size(c) \in Nat /\ ticket[c] >= 0 /\ offset[c] < Size(c)
      /\ offset[c] \in Nat /\ offset[c] + 1 \in 0 .. Size(c)
  BY SnapshotFinite DEF RotationOf, TypeOK
<1>2. Judged(c)' \subseteq backends'[c]
  BY <1>1, VisitedCount DEF SameRound
<1>3. ~Got502(c)'
  BY DEF RotationOf, Got502, Trying
<1>4. CASE offset[c] + 1 < Size(c) /\ Goto(c, "check") /\ offset' = [offset EXCEPT ![c] = @ + 1]
  <2>1. pc'[c] = "check" /\ offset'[c] = offset[c] + 1
    BY <1>4 DEF Goto, TypeOK
  <2>2. Size(c)' = Size(c) /\ Visited(c, offset[c])' = Visited(c, offset[c] + 1)
    BY <2>1, VisitedSame
  <2>3. ticket'[c] >= 0 /\ offset'[c] < Size(c)'
    BY <1>1, <1>4, <2>1, <2>2 DEF SameRound
  <2> QED BY <1>2, <1>3, <2>1, <2>2, <2>3 DEF RotationOf, Entering, Trying
<1>5. CASE ~(offset[c] + 1 < Size(c)) /\ Goto(c, "badGateway")
  <2>1. pc'[c] = "badGateway"
    BY <1>5 DEF Goto, TypeOK
  <2>2. Judged(c)' = backends'[c]
    <3>1. offset[c] + 1 = Size(c)
      BY <1>1, <1>5
    <3> QED BY <1>1, <3>1, VisitedCount DEF SameRound
  <2> QED BY <1>2, <1>3, <2>1, <2>2 DEF RotationOf, Entering, Trying
<1> QED BY <1>4, <1>5 DEF NextAttempt

\* What is not a 502 makes none.
LEMMA ReceiveOther ==
    ASSUME TypeOK, NEW c \in Clients, NEW segment, segment # ErrorOf(502), Receive(c, segment)
    PROVE  Got502(c)' => Got502(c)
<1>1. received'[c] \in {received[c], Append(received[c], segment)}
  BY DEF Receive, TypeOK
<1>2. received[c] \in Seq(Segments)
  BY DEF TypeOK
<1>3. CASE received'[c] = received[c]
  BY <1>3 DEF Got502
<1>4. CASE received'[c] = Append(received[c], segment)
  <2>1. Len(received'[c]) = Len(received[c]) + 1 /\ Len(received[c]) \in Nat
    BY <1>2, <1>4
  <2>2. \A i \in 1 .. Len(received'[c]) :
          received'[c][i] = IF i = Len(received[c]) + 1 THEN segment ELSE received[c][i]
    BY <1>2, <1>4, <2>1
  <2> QED BY <2>1, <2>2 DEF Got502
<1> QED BY <1>1, <1>3, <1>4

\* An iteration goes on, or the request ends in the middle of it.
LEMMA RotationGoesOn ==
    ASSUME TypeOK, NEW c \in Clients, RotationOf(c), pc[c] \in Trying,
           NEW label \in Trying \cup {"done"}, pc'[c] = label,
           SameRound(c), offset'[c] = offset[c], verdict'[c] = verdict[c],
           Got502(c)' => Got502(c)
    PROVE  RotationOf(c)'
<1>1. Judged(c)' = Judged(c) /\ Size(c)' = Size(c) /\ Visited(c, offset[c])' = Visited(c, offset[c])
  BY VisitedSame DEF Judged
<1>2. ~Got502(c)
  BY DEF RotationOf, Trying
<1>3. label \notin Entering /\ label \notin {"claim", "markFailure", "badGateway"}
  BY DEF Trying, Entering
<1> QED BY <1>1, <1>2, <1>3 DEF RotationOf, SameRound

LEMMA RotationStep == TypeOK /\ RotationInv /\ [Next]_vars => RotationInv'
<1> SUFFICES ASSUME TypeOK, RotationInv, [Next]_vars PROVE RotationInv'
  OBVIOUS
<1>1. ASSUME UNCHANGED <<pc, backends, ticket, offset, received, verdict>> PROVE RotationInv'
  BY <1>1, RotationSame DEF RotationInv, SameRequest, SameRound
<1>2. CASE Tick \/ Registry \/ UNCHANGED vars
  BY <1>1, <1>2 DEF Tick, Registry, list, register, remove, vars, requestVars
<1>3. ASSUME NEW c \in Clients, abort(c) PROVE RotationInv'
  BY <1>1, <1>3 DEF abort
<1>4. ASSUME NEW c \in Clients, accept(c) \/ readRequest(c) PROVE RotationInv'
  <2>1. UNCHANGED <<backends, ticket, offset, received, verdict>>
    BY <1>4 DEF accept, readRequest
  <2>2. PICK label \in {"read", "snapshot"} : Goto(c, label)
    BY <1>4 DEF accept, readRequest
  <2>3. pc[c] \in Entering \ {"claim"} /\ pc'[c] = label /\ RotationOf(c)
    BY <1>4, <2>2 DEF accept, readRequest, Goto, TypeOK, Entering, RotationInv
  <2>4. RotationOf(c)'
    BY <2>1, <2>2, <2>3 DEF RotationOf, Judged, Got502, Entering, Trying
  <2> QED BY <2>1, <2>2, <2>4, RotationOfOne DEF Goto, TypeOK, SameRequest, SameRound
<1>5. ASSUME NEW c \in Clients, handleConnection(c) PROVE RotationInv'
  <2>0. RotationOf(c)
    BY DEF RotationInv
  <2>1. CASE rejectRequest(c)
    <3>1. UNCHANGED <<backends, ticket, offset, verdict>> /\ sendError(c, 400) /\ Goto(c, "done")
          /\ pc[c] = "read"
      BY <2>1 DEF rejectRequest
    <3>2. ErrorOf(400) # ErrorOf(502)
      BY DEF ErrorOf
    <3>3. ~Got502(c)'
      <4>1. ~Got502(c)
        BY <2>0, <3>1 DEF RotationOf
      <4> QED BY <3>1, <3>2, <4>1, ReceiveOther DEF sendError, Got502
    <3>4. \A d \in Clients \ {c} : received'[d] = received[d]
      BY <3>1 DEF sendError, Receive, TypeOK
    <3>5. RotationOf(c)'
      BY <2>0, <3>1, <3>3 DEF Goto, TypeOK, RotationOf, Judged, Entering, Trying
    <3> QED BY <3>1, <3>4, <3>5, RotationOfOne DEF Goto, TypeOK, SameRequest, SameRound
  <2>2. CASE snapshot(c)
    <3>1. UNCHANGED <<ticket, offset, received, verdict>> /\ pc[c] = "snapshot"
          /\ backends' = [backends EXCEPT ![c] = pruneExpired]
      BY <2>2 DEF snapshot
    <3>2. PICK label \in {"badGateway", "claim"} :
            Goto(c, label) /\ (label = "badGateway" <=> pruneExpired = {})
      BY <2>2 DEF snapshot
    <3>3. /\ Judged(c)' = {} /\ offset'[c] = 0 /\ ~Got502(c)'
      BY <2>0, <3>1 DEF RotationOf, Judged, Got502, Entering
    <3>4. RotationOf(c)'
      BY <3>1, <3>2, <3>3 DEF Goto, TypeOK, RotationOf, Entering, Trying
    <3> QED BY <3>1, <3>2, <3>4, RotationOfOne DEF Goto, TypeOK, SameRequest, SameRound
  <2>3. CASE claim(c)
    <3>1. UNCHANGED <<backends, offset, received, verdict>> /\ pc[c] = "claim"
          /\ ticket' = [ticket EXCEPT ![c] = selection] /\ Goto(c, "check")
      BY <2>3 DEF claim
    <3>2. /\ Judged(c)' = {} /\ offset'[c] = 0 /\ ~Got502(c)' /\ backends'[c] # {}
      BY <2>0, <3>1 DEF RotationOf, Judged, Got502, Entering
    <3>3. Visited(c, offset[c])' = {}
      <4>1. 0 .. 0 - 1 = {}
        OBVIOUS
      <4> QED BY <3>2, <4>1 DEF Visited
    <3>4. ticket'[c] >= 0
      BY <3>1 DEF TypeOK
    <3>5. offset'[c] < Size(c)'
      <4>1. Size(c) \in Nat /\ Size(c) # 0
        BY <3>1, <3>2, SnapshotFinite, FS_EmptySet DEF Size
      <4> QED BY <3>1, <3>2, <4>1 DEF Size
    <3>6. RotationOf(c)'
      BY <3>1, <3>2, <3>3, <3>4, <3>5 DEF Goto, TypeOK, RotationOf, Entering, Trying
    <3> QED BY <3>1, <3>6, RotationOfOne DEF Goto, TypeOK, SameRequest, SameRound
  <2>4. ASSUME NextAttempt(c), UNCHANGED <<backends, ticket, received>>,
               pc[c] \in Trying \cup {"markFailure"},
               Judged(c)' = Visited(c, offset[c] + 1),
               \A d \in Clients \ {c} : verdict'[d] = verdict[d]
        PROVE  RotationInv'
    <3>1. RotationOf(c)'
      BY <2>0, <2>4, NextAttemptKeeps DEF SameRound
    <3>2. \A d \in Clients \ {c} : pc'[d] = pc[d] /\ offset'[d] = offset[d]
      BY <2>4 DEF NextAttempt, Goto, TypeOK
    <3> QED BY <2>4, <3>1, <3>2, RotationOfOne DEF SameRequest, SameRound
  <2>5. ASSUME NEW label \in Trying \cup {"done"}, Goto(c, label), pc[c] \in Trying,
               UNCHANGED <<backends, ticket, offset, verdict>>, Got502(c)' => Got502(c),
               \A d \in Clients \ {c} : received'[d] = received[d]
        PROVE  RotationInv'
    <3>1. pc'[c] = label /\ \A d \in Clients \ {c} : pc'[d] = pc[d]
      BY <2>5 DEF Goto, TypeOK
    <3>2. RotationOf(c)'
      BY <2>0, <2>5, <3>1, RotationGoesOn DEF SameRound
    <3> QED BY <2>5, <3>1, <3>2, RotationOfOne DEF SameRequest, SameRound
  <2>6. ASSUME UNCHANGED received PROVE Got502(c)' => Got502(c)
    BY <2>6 DEF Got502
  <2>7. CASE check(c)
    <3>1. UNCHANGED <<backends, ticket, received>> /\ pc[c] \in Trying
      BY <2>7 DEF check, Trying
    <3>2. CASE Goto(c, "dial") /\ UNCHANGED <<offset, verdict>>
      BY <2>5, <2>6, <3>1, <3>2 DEF Trying
    <3>3. CASE verdict' = [verdict EXCEPT ![c][selected(c)] = "skipped"] /\ NextAttempt(c)
      <4>1. Judged(c)' = Visited(c, offset[c] + 1)
        BY <2>0, <3>1, <3>3, JudgedNext DEF Verdicts
      <4> QED BY <2>4, <3>1, <3>3, <4>1 DEF TypeOK
    <3> QED BY <2>7, <3>2, <3>3 DEF check
  <2>8. CASE dial(c) \/ relayRead(c) \/ relayEOF(c) \/ markSuccess(c)
    BY <2>5, <2>6, <2>8 DEF dial, relayRead, relayEOF, markSuccess, Trying
  <2>9. CASE relayPartial(c) \/ relayWritten(c)
    <3>1. Receive(c, DataOf(offset[c])) /\ pc[c] = "write" /\ UNCHANGED <<backends, ticket, offset, verdict>>
      BY <2>9 DEF relayPartial, relayWritten
    <3>2. DataOf(offset[c]) # ErrorOf(502)
      BY DEF DataOf, ErrorOf
    <3>3. \A d \in Clients \ {c} : received'[d] = received[d]
      BY <3>1 DEF Receive, TypeOK
    <3>4. Goto(c, "write") \/ Goto(c, "relay")
      BY <2>9, <3>1 DEF relayPartial, relayWritten, Goto, TypeOK
    <3> QED BY <2>5, <3>1, <3>2, <3>3, <3>4, ReceiveOther DEF Trying
  <2>10. ASSUME NEW why \in Verdicts \ {"none"}, AttemptFailed(c, why), pc[c] \in Trying
         PROVE  RotationInv'
    <3>1. UNCHANGED <<backends, ticket, offset, received>>
      BY <2>10 DEF AttemptFailed
    <3>2. CASE Goto(c, "done") /\ UNCHANGED verdict
      BY <2>5, <2>6, <2>10, <3>1, <3>2
    <3>3. CASE Goto(c, "markFailure") /\ verdict' = [verdict EXCEPT ![c][selected(c)] = why]
      <4>1. Judged(c)' = Visited(c, offset[c] + 1) /\ Judged(c)' \subseteq backends[c]
        BY <2>0, <2>10, <3>3, JudgedNext
      <4>2. Size(c)' = Size(c) /\ Visited(c, offset[c] + 1)' = Visited(c, offset[c] + 1)
        BY <3>1, VisitedSame DEF SameRound
      <4>3. ~Got502(c)'
        BY <2>0, <2>6, <2>10, <3>1 DEF RotationOf, Trying
      <4>4. pc'[c] = "markFailure" /\ \A d \in Clients \ {c} : pc'[d] = pc[d] /\ verdict'[d] = verdict[d]
        BY <3>3 DEF Goto, TypeOK
      <4>5. ticket'[c] >= 0 /\ offset'[c] < Size(c)'
        BY <2>0, <2>10, <3>1, <4>2 DEF RotationOf
      <4>6. RotationOf(c)'
        BY <3>1, <4>1, <4>2, <4>3, <4>4, <4>5 DEF RotationOf, Entering, Trying
      <4> QED BY <3>1, <4>4, <4>6, RotationOfOne DEF SameRequest, SameRound
    <3> QED BY <2>10, <3>2, <3>3 DEF AttemptFailed
  <2>11. CASE dialError(c) \/ relayError(c) \/ relayWriteError(c)
    BY <2>10, <2>11 DEF dialError, relayError, relayWriteError, Verdicts, Trying
  <2>12. CASE markFailure(c)
    <3>1. NextAttempt(c) /\ UNCHANGED <<backends, ticket, received, verdict>> /\ pc[c] = "markFailure"
      BY <2>12 DEF markFailure
    <3>2. Judged(c)' = Visited(c, offset[c] + 1)
      BY <2>0, <3>1 DEF RotationOf, Judged
    <3> QED BY <2>4, <3>1, <3>2
  <2>13. CASE badGateway(c)
    <3>1. UNCHANGED <<backends, ticket, offset, verdict>> /\ sendError(c, 502) /\ Goto(c, "done")
          /\ pc[c] = "badGateway"
      BY <2>13 DEF badGateway
    <3>2. \A d \in Clients \ {c} : received'[d] = received[d]
      BY <3>1 DEF sendError, Receive, TypeOK
    <3>3. RotationOf(c)'
      BY <2>0, <3>1 DEF Goto, TypeOK, RotationOf, Judged, Entering, Trying
    <3> QED BY <3>1, <3>2, <3>3, RotationOfOne DEF Goto, TypeOK, SameRequest, SameRound
  <2> QED BY <1>4, <1>5, <2>1, <2>2, <2>3, <2>7, <2>8, <2>9, <2>11, <2>12, <2>13 DEF handleConnection
<1> QED BY <1>2, <1>3, <1>4, <1>5 DEF Next

LEMMA RotationInit == Init => RotationInv
<1> SUFFICES ASSUME Init, NEW c \in Clients PROVE RotationOf(c)
  BY DEF RotationInv
<1>1. pc[c] = "idle" /\ received[c] = <<>> /\ offset[c] = 0 /\ \A b \in Backends : verdict[c][b] = "none"
  BY DEF Init
<1>2. Judged(c) = {} /\ ~Got502(c)
  BY <1>1 DEF Judged, Got502
<1> QED BY <1>1, <1>2 DEF RotationOf, Entering, Trying

LEMMA RotationInvariant == Spec => []RotationInv
BY RotationInit, RotationStep, TypeCorrect, PTL DEF Spec

\* However many backends the snapshot has and wherever the counter stands,
\* the loop comes to each of them exactly once.
THEOREM RotationIsOnce == Spec => []RotationVisitsOnce
<1>1. TypeOK /\ RotationInv => RotationVisitsOnce
  <2> SUFFICES ASSUME TypeOK, RotationInv, NEW c \in Clients
               PROVE  /\ Judged(c) \subseteq backends[c]
                      /\ pc[c] \in Trying =>
                           Cardinality(Judged(c)) = offset[c] /\ selected(c) \notin Judged(c)
    BY DEF RotationVisitsOnce, Trying
  <2>1. RotationOf(c)
    BY DEF RotationInv
  <2>2. ASSUME pc[c] \in Trying
        PROVE  Cardinality(Judged(c)) = offset[c] /\ selected(c) \notin Judged(c)
    <3>1. /\ Size(c) > 0 /\ ticket[c] >= 0 /\ offset[c] < Size(c) /\ offset[c] \in 0 .. Size(c)
          /\ Judged(c) = Visited(c, offset[c])
      BY <2>1, <2>2, SnapshotFinite DEF RotationOf, TypeOK
    <3>2. selected(c) = Stop(c, offset[c])
      BY DEF selected, Stop
    <3> QED BY <3>1, <3>2, VisitedCount
  <2> QED BY <2>1, <2>2 DEF RotationOf
<1> QED BY <1>1, RotationInvariant, TypeCorrect, PTL

\* No 502 before every backend of the snapshot was skipped or has failed.
THEOREM BadGatewayIsLast == Spec => []BadGatewayJustified
<1>1. RotationInv => BadGatewayJustified
  BY DEF RotationInv, RotationOf, Got502, BadGatewayJustified
<1> QED BY <1>1, RotationInvariant, PTL
=============================================================================
