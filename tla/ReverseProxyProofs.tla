------------------------- MODULE ReverseProxyProofs -------------------------
(***************************************************************************)
(* Theorems about ReverseProxy, for every set of connections, every        *)
(* timeout and every set of faults.                                        *)
(***************************************************************************)
EXTENDS ReverseProxy, TLAPS

-----------------------------------------------------------------------------
\* Types.

\* What a client that has at most one run receives.
LEMMA ReceiveOne ==
    ASSUME TypeOK, NEW c \in Clients, NEW run, received[c] \in {<<>>, <<run>>}, Receive(c, run)
    PROVE  received' = [received EXCEPT ![c] = <<run>>]
<1>1. CASE received[c] = <<>>
  BY <1>1 DEF Receive, TypeOK
<1>2. CASE received[c] = <<run>>
  <2>1. received' = [received EXCEPT ![c] = @]
    BY <1>2 DEF Receive
  <2> QED BY <1>2, <2>1
<1> QED BY <1>1, <1>2

LEMMA ReceiveType ==
    ASSUME TypeOK, NEW c \in Clients, NEW run \in {Response} \cup Statuses, Receive(c, run)
    PROVE  received' \in [Clients -> Seq({Response} \cup Statuses)]
<1>1. received[c] \in Seq({Response} \cup Statuses)
  BY DEF TypeOK
<1>2. Append(received[c], run) \in Seq({Response} \cup Statuses)
  BY <1>1
<1> QED BY <1>1, <1>2 DEF Receive, TypeOK

LEMMA TypeInit == Init => TypeOK
BY ProxyAssumption DEF ProxyAssumption, Init, TypeOK, Pcs, Outcomes

LEMMA TypeStep == TypeOK /\ [Next]_vars => TypeOK'
<1> SUFFICES ASSUME TypeOK, [Next]_vars PROVE TypeOK'
  OBVIOUS
<1>0. SocketTimeout \in 0 .. SocketTimeout
  BY ProxyAssumption DEF ProxyAssumption
<1>1. CASE Tick
  <2>1. \A left \in 0 .. SocketTimeout : Less(left) \in 0 .. SocketTimeout
    BY ProxyAssumption DEF ProxyAssumption, Less
  <2> QED BY <1>1, <2>1 DEF Tick, TypeOK
<1>2. ASSUME NEW c \in Clients, accept(c) \/ abort(c) PROVE TypeOK'
  <2>1. CASE accept(c)
    BY <1>0, <2>1 DEF accept, Goto, TypeOK, Pcs
  <2>2. CASE abort(c)
    BY <2>2 DEF abort, TypeOK
  <2> QED BY <1>2, <2>1, <2>2
<1>3. ASSUME NEW c \in Clients, handleConnection(c) PROVE TypeOK'
  <2>1. CASE readRequest(c) \/ dial(c)
    BY <1>0, <2>1 DEF readRequest, dial, Goto, TypeOK, Pcs
  <2>2. CASE rejectRequest(c)
    <3>1. received' \in [Clients -> Seq({Response} \cup Statuses)]
      BY <2>2, ReceiveType DEF rejectRequest, Statuses, TypeOK
    <3> QED BY <2>2, <3>1 DEF rejectRequest, Goto, Fail, TypeOK, Pcs, Outcomes
  <2>3. CASE dialError(c) \/ relayError(c) \/ relayWriteError(c)
    BY <2>3 DEF dialError, relayError, relayWriteError, Goto, Fail, TypeOK, Pcs, Outcomes
  <2>4. CASE relayRead(c) \/ relayEOF(c)
    BY <2>4 DEF relayRead, relayEOF, Goto, TypeOK, Pcs
  <2>5. CASE relayPartial(c) \/ relayWritten(c)
    <3>1. received' \in [Clients -> Seq({Response} \cup Statuses)]
      BY <2>5, ReceiveType DEF relayPartial, relayWritten
    <3> QED BY <2>5, <3>1 DEF relayPartial, relayWritten, Goto, TypeOK, Pcs
  <2>6. CASE gatewayError(c)
    <3>1. received' \in [Clients -> Seq({Response} \cup Statuses)]
      BY <2>6, ReceiveType DEF gatewayError, status, Statuses, TypeOK
    <3>2. writeLeft' \in [Clients -> 0 .. SocketTimeout]
      BY <1>0, <2>6 DEF gatewayError, TypeOK
    <3> QED BY <2>6, <3>1, <3>2 DEF gatewayError, Goto, TypeOK, Pcs
  <2> QED BY <1>3, <2>1, <2>2, <2>3, <2>4, <2>5, <2>6 DEF handleConnection
<1>4. CASE UNCHANGED vars
  BY <1>4 DEF vars, TypeOK
<1> QED BY <1>1, <1>2, <1>3, <1>4 DEF Next

\* The state of the proxy always has its type.
THEOREM TypeCorrect == Spec => []TypeOK
BY TypeInit, TypeStep, PTL DEF Spec

-----------------------------------------------------------------------------
\* responseStarted tells the truth about what the client has received, for
\* as long as handleConnection may still ask it.

ClientAnswer(c) ==
    /\ pc[c] \in {"idle", "read", "dial"} => received[c] = <<>> /\ ~responseStarted[c]
    /\ pc[c] \in {"relay", "write", "failed"} =>
         /\ responseStarted[c] => received[c] = <<Response>>
         /\ ~responseStarted[c] => received[c] = <<>>
    /\ pc[c] \notin {"failed", "done"} => err[c] = "nil"

AnswerInv == \A c \in Clients : ClientAnswer(c)

\* A step of one goroutine leaves the other connections alone.
OthersKeep(c) ==
    \A d \in Clients \ {c} :
        /\ pc'[d] = pc[d] /\ received'[d] = received[d] /\ err'[d] = err[d]
        /\ responseStarted'[d] = responseStarted[d] /\ aborted'[d] = aborted[d]

LEMMA AnswerOfOne ==
    ASSUME AnswerInv, NEW c \in Clients, OthersKeep(c), ClientAnswer(c)'
    PROVE  AnswerInv'
<1>1. ASSUME NEW d \in Clients \ {c} PROVE ClientAnswer(d)'
  <2>1. ClientAnswer(d)
    BY DEF AnswerInv
  <2> QED BY <2>1 DEF OthersKeep, ClientAnswer
<1> QED BY <1>1 DEF AnswerInv

LEMMA AnswerStep == TypeOK /\ AnswerInv /\ [Next]_vars => AnswerInv'
<1> SUFFICES ASSUME TypeOK, AnswerInv, [Next]_vars PROVE AnswerInv'
  OBVIOUS
<1>1. CASE Tick \/ UNCHANGED vars
  BY <1>1 DEF Tick, vars, AnswerInv, ClientAnswer
<1>2. ASSUME NEW c \in Clients, accept(c) \/ abort(c) \/ handleConnection(c) PROVE AnswerInv'
  <2>0. ClientAnswer(c)
    BY DEF AnswerInv
  <2> SUFFICES OthersKeep(c) /\ ClientAnswer(c)'
    BY AnswerOfOne
  <2> USE DEF Goto, TypeOK, OthersKeep, ClientAnswer
  <2>1. CASE accept(c) \/ abort(c)
    BY <2>0, <2>1 DEF accept, abort
  <2>2. CASE readRequest(c) \/ dial(c) \/ relayRead(c) \/ relayEOF(c)
    BY <2>0, <2>2 DEF readRequest, dial, relayRead, relayEOF
  <2>3. CASE rejectRequest(c)
    <3>1. PICK run : run = "400 Bad Request"
      OBVIOUS
    <3>2. received[c] = <<>>
      BY <2>0, <2>3 DEF rejectRequest
    <3>3. CASE Receive(c, run)
      <4>1. received' = [received EXCEPT ![c] = <<run>>]
        BY <3>2, <3>3, ReceiveOne
      <4> QED BY <2>0, <2>3, <4>1 DEF rejectRequest, Fail
    <3>4. CASE UNCHANGED received
      BY <2>0, <2>3, <3>4 DEF rejectRequest, Fail
    <3> QED BY <2>3, <3>1, <3>3, <3>4, Zenon DEF rejectRequest
  <2>4. CASE dialError(c) \/ relayError(c) \/ relayWriteError(c)
    BY <2>0, <2>4 DEF dialError, relayError, relayWriteError, Fail
  <2>5. CASE relayPartial(c) \/ relayWritten(c)
    <3>1. received[c] \in {<<>>, <<Response>>}
      BY <2>0, <2>5 DEF relayPartial, relayWritten
    <3>2. received' = [received EXCEPT ![c] = <<Response>>]
      BY <2>5, <3>1, ReceiveOne DEF relayPartial, relayWritten
    <3> QED BY <2>0, <2>5, <3>2 DEF relayPartial, relayWritten
  <2>6. CASE gatewayError(c)
    <3>1. CASE responseStarted[c]
      <4>1. received' = received
        BY <2>6, <3>1, Zenon DEF gatewayError
      <4> QED BY <2>6, <4>1 DEF gatewayError
    <3>2. CASE ~responseStarted[c] /\ aborted[c]
      BY <2>0, <2>6, <3>2 DEF gatewayError
    <3>3. CASE ~responseStarted[c] /\ ~aborted[c]
      <4>1. received' = [received EXCEPT ![c] = <<status(c)>>]
        BY <2>0, <2>6, <3>3, ReceiveOne DEF gatewayError
      <4> QED BY <2>0, <2>6, <4>1 DEF gatewayError
    <3> QED BY <3>1, <3>2, <3>3
  <2> QED BY <1>2, <2>1, <2>2, <2>3, <2>4, <2>5, <2>6 DEF handleConnection
<1> QED BY <1>1, <1>2 DEF Next

LEMMA AnswerInvariant == Spec => []AnswerInv
<1>1. Init => AnswerInv
  BY DEF Init, AnswerInv, ClientAnswer
<1> QED BY <1>1, AnswerStep, TypeCorrect, PTL DEF Spec

-----------------------------------------------------------------------------
\* Who is told of a failure, and whom an error blames.

\* Until an error is sent both deadlines of the client agree, and a response
\* that was read but not passed on means that they are over or that the
\* client is gone.
ClientFault(c) ==
    /\ pc[c] \in {"idle", "read", "dial"} => ~heard[c]
    /\ pc[c] \notin {"idle", "done"} => readLeft[c] = writeLeft[c]
    /\ pc[c] = "relay" /\ heard[c] => responseStarted[c]
    /\ pc[c] = "write" => heard[c]
    /\ pc[c] = "failed" /\ ~responseStarted[c] =>
         /\ heard[c] => aborted[c] \/ (err[c] = "timeout" /\ readLeft[c] = 0)
         /\ ~heard[c] /\ err[c] = "timeout" => backendLeft[c] = 0

\* FailureIsReported and ErrorJustified, of one connection that has ended.
Silence(c) ==
    pc[c] = "done" /\ ~aborted[c] /\ received[c] = <<>> =>
        \/ err[c] = "request" /\ readLeft[c] = 0
        \/ err[c] = "nil" /\ ~heard[c]

Blame(c) ==
    pc[c] = "done" =>
        /\ received[c] = <<"502 Bad Gateway">> => ~heard[c]
        /\ received[c] = <<"504 Gateway Timeout">> =>
             IF heard[c] THEN readLeft[c] = 0 ELSE backendLeft[c] = 0

FaultInv == \A c \in Clients : ClientFault(c) /\ Silence(c) /\ Blame(c)

LEMMA FaultOfOne ==
    ASSUME FaultInv, NEW c \in Clients, OthersKeep(c), (ClientFault(c) /\ Silence(c) /\ Blame(c))',
           \A d \in Clients \ {c} : /\ readLeft'[d] = readLeft[d] /\ writeLeft'[d] = writeLeft[d]
                                    /\ backendLeft'[d] = backendLeft[d] /\ heard'[d] = heard[d]
    PROVE  FaultInv'
<1>1. ASSUME NEW d \in Clients \ {c} PROVE (ClientFault(d) /\ Silence(d) /\ Blame(d))'
  <2>1. ClientFault(d) /\ Silence(d) /\ Blame(d)
    BY DEF FaultInv
  <2>2. ClientFault(d)'
    BY <2>1 DEF OthersKeep, ClientFault
  <2>3. Silence(d)'
    BY <2>1 DEF OthersKeep, Silence
  <2>4. Blame(d)'
    BY <2>1 DEF OthersKeep, Blame
  <2> QED BY <2>2, <2>3, <2>4
<1> QED BY <1>1 DEF FaultInv

\* Time only takes deadlines to their end.
LEMMA FaultTick == TypeOK /\ FaultInv /\ Tick => FaultInv'
<1> SUFFICES ASSUME TypeOK, FaultInv, Tick, NEW c \in Clients
             PROVE  (ClientFault(c) /\ Silence(c) /\ Blame(c))'
  BY DEF FaultInv
<1>1. ClientFault(c) /\ Silence(c) /\ Blame(c)
  BY DEF FaultInv
<1>2. /\ readLeft'[c] = Less(readLeft[c]) /\ writeLeft'[c] = Less(writeLeft[c])
      /\ backendLeft'[c] = Less(backendLeft[c])
  BY DEF Tick
<1>3. /\ readLeft[c] = 0 => readLeft'[c] = 0
      /\ backendLeft[c] = 0 => backendLeft'[c] = 0
  BY <1>2 DEF Less
<1>4. readLeft[c] = writeLeft[c] => readLeft'[c] = writeLeft'[c]
  BY <1>2
<1>5. ClientFault(c)'
  BY <1>1, <1>3, <1>4, Zenon DEF Tick, ClientFault
<1>6. Silence(c)'
  BY <1>1, <1>3, Zenon DEF Tick, Silence
<1>7. Blame(c)'
  BY <1>1, <1>3, Zenon DEF Tick, Blame
<1> QED BY <1>5, <1>6, <1>7

LEMMA ErrorRuns ==
    /\ <<>> \notin {<<"502 Bad Gateway">>, <<"504 Gateway Timeout">>}
    /\ <<"400 Bad Request">> \notin {<<>>, <<"502 Bad Gateway">>, <<"504 Gateway Timeout">>}
    /\ <<Response>> \notin {<<>>, <<"502 Bad Gateway">>, <<"504 Gateway Timeout">>}
    /\ <<"502 Bad Gateway">> \notin {<<>>, <<"504 Gateway Timeout">>}
    /\ <<"504 Gateway Timeout">> \notin {<<>>, <<"502 Bad Gateway">>}
BY DEF Response

LEMMA FaultStep == TypeOK /\ AnswerInv /\ FaultInv /\ [Next]_vars => FaultInv'
<1> SUFFICES ASSUME TypeOK, AnswerInv, FaultInv, [Next]_vars PROVE FaultInv'
  OBVIOUS
<1>1. CASE UNCHANGED vars
  BY <1>1 DEF vars, FaultInv, ClientFault, Silence, Blame
<1>2. CASE Tick
  BY <1>2, FaultTick
<1>3. ASSUME NEW c \in Clients, accept(c) \/ abort(c) \/ handleConnection(c) PROVE FaultInv'
  <2>0. ClientAnswer(c) /\ ClientFault(c) /\ Silence(c) /\ Blame(c)
    BY DEF AnswerInv, FaultInv
  <2> DEFINE Others == \A d \in Clients \ {c} :
                          /\ readLeft'[d] = readLeft[d] /\ writeLeft'[d] = writeLeft[d]
                          /\ backendLeft'[d] = backendLeft[d] /\ heard'[d] = heard[d]
  <2> SUFFICES OthersKeep(c) /\ Others /\ ClientFault(c)' /\ Silence(c)' /\ Blame(c)'
    BY FaultOfOne
  <2> USE DEF Goto, TypeOK, OthersKeep, ClientAnswer, ClientFault
  <2>1. CASE accept(c) \/ abort(c)
    BY <2>0, <2>1 DEF accept, abort, Silence, Blame
  <2>2. CASE readRequest(c) \/ dial(c) \/ relayRead(c)
    BY <2>0, <2>2 DEF readRequest, dial, relayRead, Silence, Blame
  <2>9. CASE relayEOF(c)
    <3>1. received'[c] \in {<<>>, <<Response>>}
      BY <2>0, <2>9 DEF relayEOF
    <3>2. Silence(c)'
      <4>1. ~heard[c] \/ received[c] = <<Response>>
        BY <2>0, <2>9 DEF relayEOF
      <4>2. ~heard[c] \/ received[c] # <<>>
        BY <4>1, ErrorRuns
      <4> QED BY <2>0, <2>9, <4>2 DEF relayEOF, Silence
    <3>3. Blame(c)'
      BY <3>1, ErrorRuns DEF Blame
    <3> QED BY <2>0, <2>9, <3>2, <3>3 DEF relayEOF
  <2>3. CASE rejectRequest(c)
    <3>1. received[c] = <<>> /\ readLeft[c] = writeLeft[c]
      BY <2>0, <2>3 DEF rejectRequest
    <3>2. CASE Writable(c)
      <4>1. PICK run : run = "400 Bad Request"
        OBVIOUS
      <4>2. Receive(c, run)
        BY <2>3, <3>2, <4>1, Zenon DEF rejectRequest
      <4>3. received' = [received EXCEPT ![c] = <<run>>]
        BY <3>1, <4>2, ReceiveOne
      <4>4. received'[c] = <<"400 Bad Request">>
        BY <4>1, <4>3
      <4>5. Silence(c)' /\ Blame(c)'
        BY <4>4, ErrorRuns DEF Silence, Blame
      <4> QED BY <2>0, <2>3, <4>3, <4>5 DEF rejectRequest, Fail
    <3>3. CASE ~Writable(c)
      <4>1. received' = received /\ err'[c] = "request"
        BY <2>3, <3>3, Zenon DEF rejectRequest, Fail
      <4>2. aborted[c] \/ readLeft[c] = 0
        BY <3>1, <3>3 DEF Writable
      <4>3. Silence(c)'
        BY <2>3, <4>1, <4>2 DEF rejectRequest, Silence
      <4>4. Blame(c)'
        BY <3>1, <4>1, ErrorRuns DEF Blame
      <4> QED BY <2>0, <2>3, <4>1, <4>3, <4>4 DEF rejectRequest, Fail
    <3> QED BY <3>2, <3>3
  <2>4. CASE dialError(c) \/ relayError(c)
    BY <2>0, <2>4 DEF dialError, relayError, Fail, Silence, Blame
  <2>8. CASE relayWriteError(c)
    <3>1. aborted[c] \/ writeLeft[c] = 0
      BY <2>8 DEF relayWriteError, Writable
    <3>2. writeLeft[c] = 0 => err'[c] = "timeout"
      BY <2>8 DEF relayWriteError, Fail
    <3>3. heard[c]
      BY <2>0, <2>8 DEF relayWriteError
    <3> QED BY <2>0, <2>8, <3>1, <3>2, <3>3 DEF relayWriteError, Fail, Silence, Blame
  <2>5. CASE relayPartial(c) \/ relayWritten(c)
    <3>1. received[c] \in {<<>>, <<Response>>}
      BY <2>0, <2>5 DEF relayPartial, relayWritten
    <3>2. received' = [received EXCEPT ![c] = <<Response>>]
      BY <2>5, <3>1, ReceiveOne DEF relayPartial, relayWritten
    <3>3. Silence(c)' /\ Blame(c)'
      BY <2>5 DEF relayPartial, relayWritten, Silence, Blame
    <3> QED BY <2>0, <2>5, <3>2, <3>3 DEF relayPartial, relayWritten
  <2>6. CASE gatewayError(c)
    <3>1. CASE responseStarted[c]
      <4>1. received' = received /\ received[c] = <<Response>>
        BY <2>0, <2>6, <3>1 DEF gatewayError
      <4>2. Silence(c)' /\ Blame(c)'
        BY <4>1, ErrorRuns DEF Silence, Blame
      <4> QED BY <2>0, <2>6, <3>1, <4>1, <4>2 DEF gatewayError
    <3>2. CASE ~responseStarted[c] /\ aborted[c]
      <4>1. received' = received /\ received[c] = <<>>
        BY <2>0, <2>6, <3>2, Zenon DEF gatewayError
      <4>2. Blame(c)'
        BY <4>1, ErrorRuns DEF Blame
      <4> QED BY <2>0, <2>6, <3>2, <4>1, <4>2 DEF gatewayError, Silence
    <3>3. CASE ~responseStarted[c] /\ ~aborted[c]
      <4>0. received[c] = <<>> /\ Receive(c, status(c))
        BY <2>0, <2>6, <3>3 DEF gatewayError
      <4>1. received' = [received EXCEPT ![c] = <<status(c)>>]
        BY <4>0, ReceiveOne
      <4>2. CASE err[c] = "timeout"
        <5>1. received'[c] = <<"504 Gateway Timeout">>
          BY <4>1, <4>2 DEF status
        <5>2. IF heard'[c] THEN readLeft'[c] = 0 ELSE backendLeft'[c] = 0
          BY <2>0, <2>6, <3>3, <4>2 DEF gatewayError
        <5>3. Silence(c)' /\ Blame(c)'
          BY <5>1, <5>2, ErrorRuns DEF Silence, Blame
        <5> QED BY <2>6, <4>1, <5>3 DEF gatewayError
      <4>3. CASE err[c] # "timeout"
        <5>1. received'[c] = <<"502 Bad Gateway">>
          BY <4>1, <4>3 DEF status
        <5>2. ~heard'[c]
          BY <2>0, <2>6, <3>3, <4>3 DEF gatewayError
        <5>3. Silence(c)' /\ Blame(c)'
          BY <5>1, <5>2, ErrorRuns DEF Silence, Blame
        <5> QED BY <2>6, <4>1, <5>3 DEF gatewayError
      <4> QED BY <4>2, <4>3
    <3> QED BY <3>1, <3>2, <3>3
  <2> QED BY <1>3, <2>1, <2>2, <2>3, <2>4, <2>5, <2>6, <2>8, <2>9 DEF handleConnection
<1> QED BY <1>1, <1>2, <1>3 DEF Next

LEMMA FaultInvariant == Spec => []FaultInv
<1>1. Init => FaultInv
  BY DEF Init, FaultInv, ClientFault, Silence, Blame
<1> QED BY <1>1, FaultStep, AnswerInvariant, TypeCorrect, PTL DEF Spec

\* A client that stays gets nothing only when its request was incomplete at
\* its deadline or its backend closed the connection before a byte: every
\* other failure is reported.
THEOREM FailuresAreReported == Spec => []FailureIsReported
<1>1. FaultInv => FailureIsReported
  BY DEF FaultInv, Silence, FailureIsReported
<1> QED BY <1>1, FaultInvariant, PTL

\* A 502 goes only to a client whose backend sent nothing, and a 504 only
\* when the time of the backend, or of the client of a backend that answered,
\* had run out.
THEOREM ErrorsAreJustified == Spec => []ErrorJustified
<1>1. TypeOK /\ AnswerInv /\ FaultInv => ErrorJustified
  <2> SUFFICES ASSUME TypeOK, AnswerInv, FaultInv, NEW c \in Clients
               PROVE  /\ received[c] = <<"502 Bad Gateway">> => ~heard[c]
                      /\ received[c] = <<"504 Gateway Timeout">> =>
                           IF heard[c] THEN readLeft[c] = 0 ELSE backendLeft[c] = 0
    BY DEF ErrorJustified
  <2>1. CASE pc[c] = "done"
    BY <2>1 DEF FaultInv, Blame
  <2>2. CASE pc[c] # "done"
    <3>1. ClientAnswer(c) /\ pc[c] \in Pcs
      BY DEF AnswerInv, TypeOK
    <3>2. received[c] \in {<<>>, <<Response>>}
      BY <2>2, <3>1 DEF ClientAnswer, TypeOK, Pcs
    <3> QED BY <3>2, ErrorRuns
  <2> QED BY <2>1, <2>2
<1> QED BY <1>1, FaultInvariant, AnswerInvariant, TypeCorrect, PTL

-----------------------------------------------------------------------------
\* The proxy is a Gateway.

LEMMA PhaseStep ==
    ASSUME TypeOK, NEW c \in Clients, NEW from, NEW to \in Pcs \ {"idle"}, Goto(c, from, to),
           from \notin {"idle", "done"}
    PROVE  /\ ClientPhase[c] = "serving"
           /\ to # "done" => UNCHANGED ClientPhase
           /\ to = "done" => ClientPhase' = [ClientPhase EXCEPT ![c] = "closed"]
BY DEF Goto, ClientPhase, TypeOK

LEMMA GatewayStep == TypeOK /\ AnswerInv /\ [Next]_vars => [G!Next]_(G!vars)
<1> SUFFICES ASSUME TypeOK, AnswerInv, [Next]_vars PROVE [G!Next]_(G!vars)
  OBVIOUS
<1>1. CASE Tick \/ UNCHANGED vars
  BY <1>1 DEF Tick, vars, ClientPhase, G!vars
<1>2. ASSUME NEW c \in Clients, accept(c) PROVE [G!Next]_(G!vars)
  <2>1. ClientPhase[c] = "idle" /\ ClientPhase' = [ClientPhase EXCEPT ![c] = "serving"]
    BY <1>2 DEF accept, Goto, ClientPhase, TypeOK
  <2>2. G!Accept(c)
    BY <1>2, <2>1 DEF accept, G!Accept
  <2> QED BY <2>2 DEF G!Next
<1>3. ASSUME NEW c \in Clients, abort(c) PROVE [G!Next]_(G!vars)
  BY <1>3 DEF abort, ClientPhase, G!vars
<1>4. ASSUME NEW c \in Clients, handleConnection(c) PROVE [G!Next]_(G!vars)
  <2>0. ClientAnswer(c)
    BY DEF AnswerInv
  <2>1. ASSUME NEW from \in Pcs \ {"idle", "done"}, NEW to \in Pcs \ {"idle"},
               Goto(c, from, to), UNCHANGED received
        PROVE  [G!Next]_(G!vars)
    <3>1. CASE to # "done"
      BY <2>1, <3>1, PhaseStep DEF G!vars
    <3>2. CASE to = "done"
      <4>1. G!Close(c)
        BY <2>1, <3>2, PhaseStep DEF G!Close
      <4> QED BY <4>1 DEF G!Next
    <3> QED BY <3>1, <3>2
  <2>2. ASSUME NEW from \in {"read", "failed"}, NEW error \in Statuses, Goto(c, from, "done"),
               received[c] = <<>>, Receive(c, error)
        PROVE  [G!Next]_(G!vars)
    <3>1. ClientPhase[c] = "serving" /\ ClientPhase' = [ClientPhase EXCEPT ![c] = "closed"]
      BY <2>2, PhaseStep DEF Pcs
    <3>2. received' = [received EXCEPT ![c] = <<error>>]
      BY <2>2, ReceiveOne
    <3>3. G!Refuse(c, error)
      BY <2>2, <3>1, <3>2 DEF G!Refuse
    <3> QED BY <3>3 DEF G!Next
  <2>3. CASE rejectRequest(c)
    <3>1. Goto(c, "read", "done") /\ received[c] = <<>>
      BY <2>0, <2>3 DEF rejectRequest, Goto, ClientAnswer
    <3> QED BY <2>1, <2>2, <2>3, <3>1 DEF rejectRequest, Statuses, Pcs
  <2>4. CASE readRequest(c) \/ dial(c) \/ relayRead(c) \/ relayEOF(c)
    BY <2>1, <2>4 DEF readRequest, dial, relayRead, relayEOF, Pcs
  <2>5. CASE dialError(c) \/ relayError(c) \/ relayWriteError(c)
    BY <2>1, <2>5 DEF dialError, relayError, relayWriteError, Pcs
  <2>6. CASE relayPartial(c) \/ relayWritten(c)
    <3>1. received[c] \in {<<>>, <<Response>>}
      BY <2>0, <2>6 DEF relayPartial, relayWritten, Goto, ClientAnswer
    <3>2. received' = [received EXCEPT ![c] = <<Response>>]
      BY <2>6, <3>1, ReceiveOne DEF relayPartial, relayWritten
    <3>3. ClientPhase[c] = "serving" /\ UNCHANGED ClientPhase
      BY <2>6 DEF relayPartial, relayWritten, Goto, ClientPhase, TypeOK
    <3>4. G!Forward(c, Response)
      BY <3>1, <3>2, <3>3 DEF G!Forward
    <3> QED BY <3>4 DEF G!Next
  <2>7. CASE gatewayError(c)
    <3>1. Goto(c, "failed", "done") /\ status(c) \in Statuses
      BY <2>7 DEF gatewayError, status, Statuses
    <3>2. CASE UNCHANGED received
      BY <2>1, <3>1, <3>2 DEF Pcs
    <3>3. CASE ~responseStarted[c] /\ Receive(c, status(c))
      <4>1. received[c] = <<>>
        BY <2>0, <3>1, <3>3 DEF Goto, ClientAnswer
      <4> QED BY <2>2, <3>1, <3>3, <4>1
    <3> QED BY <2>7, <3>2, <3>3 DEF gatewayError
  <2> QED BY <1>4, <2>3, <2>4, <2>5, <2>6, <2>7 DEF handleConnection
<1> QED BY <1>1, <1>2, <1>3, <1>4 DEF Next

\* A client of the proxy gets one answer: the backend's, perhaps cut short,
\* or one error.
THEOREM ProxyIsGateway == Spec => ImplementsGateway
<1>1. Init => G!Init
  BY DEF Init, G!Init, ClientPhase
<1> QED BY <1>1, GatewayStep, TypeCorrect, AnswerInvariant, PTL
        DEF Spec, ImplementsGateway, G!Spec
=============================================================================
