---------------------------- MODULE ReverseProxy ----------------------------
(***************************************************************************)
(* The reverse proxy of reverse-proxy/server.go: one goroutine per client  *)
(* connection, which reads a request, makes one attempt at the backend and *)
(* relays its response.  Connections share nothing but the clock.          *)
(*                                                                         *)
(* As in LoadBalancer, a deadline is kept as the ticks that are left of    *)
(* it.  A connection to a client has two: SetDeadline sets both, and       *)
(* SetWriteDeadline, before a gateway error, only the one of writes.       *)
(***************************************************************************)
EXTENDS Integers, Sequences

CONSTANTS
    Clients,        \* connections
    SocketTimeout,  \* socketTimeout, in ticks
    Faults          \* see AllFaults

\* "refuse": the backend refuses the connection; "reset": it breaks it;
\* "close": it closes it before it sent a byte; "abort": the client resets
\* its connection; "partial": a write to the client that is not the first
\* gets a part of its bytes out and then blocks; "invalid": the request is
\* empty, cut short by the client, too large, or announces a body.
AllFaults == {"refuse", "reset", "close", "abort", "partial", "invalid"}

ASSUME ProxyAssumption ==
    /\ SocketTimeout \in Nat \ {0}
    /\ Faults \subseteq AllFaults

Pcs == {"idle", "read", "dial", "relay", "write", "failed", "done"}

\* What a client may receive: runs of the response, or an error.
Response == "response"
Statuses == {"400 Bad Request", "502 Bad Gateway", "504 Gateway Timeout"}

\* err of handleConnection; "request" is the error of a rejected request.
Outcomes == {"nil", "request", "timeout", "other"}

VARIABLES
    pc,              \* where each connection's goroutine is
    readLeft,        \* what is left of the client's read deadline
    writeLeft,       \* what is left of the client's write deadline
    backendLeft,     \* what is left of the dial timeout or backend deadline
    responseStarted,
    err,
    aborted,         \* the client has reset its connection
    heard,           \* history: the backend answered this request in time
    received         \* history: the runs of bytes the client got, in order

vars == <<pc, readLeft, writeLeft, backendLeft, responseStarted, err, aborted,
          heard, received>>

TypeOK ==
    /\ pc \in [Clients -> Pcs]
    /\ readLeft \in [Clients -> 0 .. SocketTimeout]
    /\ writeLeft \in [Clients -> 0 .. SocketTimeout]
    /\ backendLeft \in [Clients -> 0 .. SocketTimeout]
    /\ responseStarted \in [Clients -> BOOLEAN]
    /\ err \in [Clients -> Outcomes]
    /\ aborted \in [Clients -> BOOLEAN]
    /\ heard \in [Clients -> BOOLEAN]
    /\ received \in [Clients -> Seq({Response} \cup Statuses)]

Init ==
    /\ pc = [c \in Clients |-> "idle"]
    /\ readLeft = [c \in Clients |-> 0]
    /\ writeLeft = [c \in Clients |-> 0]
    /\ backendLeft = [c \in Clients |-> 0]
    /\ responseStarted = [c \in Clients |-> FALSE]
    /\ err = [c \in Clients |-> "nil"]
    /\ aborted = [c \in Clients |-> FALSE]
    /\ heard = [c \in Clients |-> FALSE]
    /\ received = [c \in Clients |-> <<>>]

-----------------------------------------------------------------------------
Goto(c, from, to) ==
    /\ pc[c] = from
    /\ pc' = [pc EXCEPT ![c] = to]

\* A write reaches the client before its deadline, unless the client is gone.
Writable(c) == writeLeft[c] > 0 /\ ~aborted[c]

\* The client receives a run of bytes; more of the same run is no new run.
Receive(c, run) ==
    received' = [received EXCEPT ![c] =
                   IF @ # <<>> /\ @[Len(@)] = run THEN @ ELSE Append(@, run)]

Fail(c, why) == err' = [err EXCEPT ![c] = why]

\* serve accepts a connection, and its goroutine sets both deadlines.
accept(c) ==
    /\ Goto(c, "idle", "read")
    /\ readLeft' = [readLeft EXCEPT ![c] = SocketTimeout]
    /\ writeLeft' = [writeLeft EXCEPT ![c] = SocketTimeout]
    /\ UNCHANGED <<backendLeft, responseStarted, err, aborted, heard, received>>

\* readRequest returns a request that is complete and has no body framing;
\* the timeout of the dial starts.
readRequest(c) ==
    /\ Goto(c, "read", "dial")
    /\ readLeft[c] > 0
    /\ backendLeft' = [backendLeft EXCEPT ![c] = SocketTimeout]
    /\ UNCHANGED <<readLeft, writeLeft, responseStarted, err, aborted, heard, received>>

\* Mutant: a read that timed out is tried again.
MutantRejectRequest(c) ==
    /\ Goto(c, "read", "done")
    /\ readLeft[c] > 0
    /\ "invalid" \in Faults \/ aborted[c]
    /\ Fail(c, "request")
    /\ IF Writable(c) THEN Receive(c, "400 Bad Request") ELSE UNCHANGED received
    /\ UNCHANGED <<readLeft, writeLeft, backendLeft, responseStarted, aborted, heard>>

\* The request is invalid, or reading it failed or ran into the deadline.
rejectRequest(c) ==
    /\ Goto(c, "read", "done")
    /\ "invalid" \in Faults \/ aborted[c] \/ readLeft[c] = 0
    /\ Fail(c, "request")
    /\ IF Writable(c) THEN Receive(c, "400 Bad Request") ELSE UNCHANGED received
    /\ UNCHANGED <<readLeft, writeLeft, backendLeft, responseStarted, aborted, heard>>

\* Mutant: the deadline is added to what is left of the dial timeout.
MutantDial(c) ==
    /\ Goto(c, "dial", "relay")
    /\ backendLeft[c] > 0
    /\ backendLeft' = [backendLeft EXCEPT ![c] = @ + SocketTimeout]
    /\ UNCHANGED <<readLeft, writeLeft, responseStarted, err, aborted, heard, received>>

\* The backend is reached: its deadline covers the whole relay.
dial(c) ==
    /\ Goto(c, "dial", "relay")
    /\ backendLeft[c] > 0
    /\ backendLeft' = [backendLeft EXCEPT ![c] = SocketTimeout]
    /\ UNCHANGED <<readLeft, writeLeft, responseStarted, err, aborted, heard, received>>

dialError(c) ==
    /\ Goto(c, "dial", "failed")
    /\ \/ backendLeft[c] = 0 /\ Fail(c, "timeout")
       \/ backendLeft[c] > 0 /\ "refuse" \in Faults /\ Fail(c, "other")
    /\ UNCHANGED <<readLeft, writeLeft, backendLeft, responseStarted, aborted, heard, received>>

\* backend.Read returned bytes of the response; client.Write follows.
relayRead(c) ==
    /\ Goto(c, "relay", "write")
    /\ backendLeft[c] > 0
    /\ heard' = [heard EXCEPT ![c] = TRUE]
    /\ UNCHANGED <<readLeft, writeLeft, backendLeft, responseStarted, err, aborted, received>>

\* client.Write got a part of its bytes out and waits to write the rest.  The
\* first write has an empty socket buffer before it, which takes all of the
\* at most bufferSize bytes or, past the deadline, none.
relayPartial(c) ==
    /\ "partial" \in Faults
    /\ pc[c] = "write"
    /\ responseStarted[c]
    /\ Writable(c)
    /\ Receive(c, Response)
    /\ UNCHANGED <<pc, readLeft, writeLeft, backendLeft, responseStarted, err, aborted, heard>>

\* Mutant: responseStarted is only set by the response's end.
MutantRelayWritten(c) ==
    /\ Goto(c, "write", "relay")
    /\ Writable(c)
    /\ Receive(c, Response)
    /\ UNCHANGED <<readLeft, writeLeft, backendLeft, responseStarted, err, aborted, heard>>

relayWritten(c) ==
    /\ Goto(c, "write", "relay")
    /\ Writable(c)
    /\ Receive(c, Response)
    /\ responseStarted' = [responseStarted EXCEPT ![c] = TRUE]
    /\ UNCHANGED <<readLeft, writeLeft, backendLeft, err, aborted, heard>>

\* Mutant: the kind of a write's error is lost.
MutantRelayWriteError(c) ==
    /\ Goto(c, "write", "failed")
    /\ ~Writable(c)
    /\ Fail(c, "other")
    /\ UNCHANGED <<readLeft, writeLeft, backendLeft, responseStarted, aborted, heard, received>>

\* client.Write failed.  A deadline that has passed is a timeout error, even
\* of a client that is gone; the error of a reset connection is none.
relayWriteError(c) ==
    /\ Goto(c, "write", "failed")
    /\ ~Writable(c)
    /\ Fail(c, IF writeLeft[c] = 0 THEN "timeout" ELSE "other")
    /\ UNCHANGED <<readLeft, writeLeft, backendLeft, responseStarted, aborted, heard, received>>

\* relay returns nil: the backend closed the connection, whether or not it
\* had sent anything.
relayEOF(c) ==
    /\ Goto(c, "relay", "done")
    /\ backendLeft[c] > 0
    /\ heard[c] \/ "close" \in Faults
    /\ UNCHANGED <<readLeft, writeLeft, backendLeft, responseStarted, err, aborted,
                   heard, received>>

\* Writing the request or reading the response fails, or the deadline passes.
relayError(c) ==
    /\ Goto(c, "relay", "failed")
    /\ \/ backendLeft[c] = 0 /\ Fail(c, "timeout")
       \/ backendLeft[c] > 0 /\ "reset" \in Faults /\ Fail(c, "other")
    /\ UNCHANGED <<readLeft, writeLeft, backendLeft, responseStarted, aborted, heard, received>>

\* The status of the error, as handleConnection classifies it.
status(c) == IF err[c] = "timeout" THEN "504 Gateway Timeout" ELSE "502 Bad Gateway"

\* Mutant: the client's deadline is not renewed for the error.
MutantGatewayError(c) ==
    /\ Goto(c, "failed", "done")
    /\ \/ /\ ~responseStarted[c]
          /\ IF Writable(c) THEN Receive(c, status(c)) ELSE UNCHANGED received
       \/ /\ responseStarted[c]
          /\ UNCHANGED received
    /\ UNCHANGED <<readLeft, writeLeft, backendLeft, responseStarted, err, aborted, heard>>

\* The end of handleConnection: unless the response has started, the write
\* deadline is renewed and an error sent.
gatewayError(c) ==
    /\ Goto(c, "failed", "done")
    /\ \/ /\ ~responseStarted[c]
          /\ writeLeft' = [writeLeft EXCEPT ![c] = SocketTimeout]
          /\ IF aborted[c] THEN UNCHANGED received ELSE Receive(c, status(c))
       \/ /\ responseStarted[c]
          /\ UNCHANGED <<writeLeft, received>>
    /\ UNCHANGED <<readLeft, backendLeft, responseStarted, err, aborted, heard>>

-----------------------------------------------------------------------------
\* A client resets its connection while the proxy works on its request.
abort(c) ==
    /\ "abort" \in Faults
    /\ pc[c] \notin {"idle", "done"}
    /\ ~aborted[c]
    /\ aborted' = [aborted EXCEPT ![c] = TRUE]
    /\ UNCHANGED <<pc, readLeft, writeLeft, backendLeft, responseStarted, err, heard, received>>

Less(left) == IF left > 0 THEN left - 1 ELSE left

Tick ==
    /\ readLeft' = [c \in Clients |-> Less(readLeft[c])]
    /\ writeLeft' = [c \in Clients |-> Less(writeLeft[c])]
    /\ backendLeft' = [c \in Clients |-> Less(backendLeft[c])]
    /\ UNCHANGED <<pc, responseStarted, err, aborted, heard, received>>

handleConnection(c) ==
    \/ readRequest(c) \/ rejectRequest(c) \/ dial(c) \/ dialError(c)
    \/ relayRead(c) \/ relayPartial(c) \/ relayWritten(c) \/ relayWriteError(c)
    \/ relayEOF(c) \/ relayError(c) \/ gatewayError(c)

Next ==
    \/ Tick
    \/ \E c \in Clients : accept(c) \/ abort(c) \/ handleConnection(c)

Spec == Init /\ [][Next]_vars

\* Time passes; a goroutine does not stop on its own, and a read, write or
\* dial past its deadline returns.  Nothing is assumed of the other ends.
Progress(c) ==
    \/ readLeft[c] = 0 /\ rejectRequest(c)
    \/ backendLeft[c] = 0 /\ (dialError(c) \/ relayError(c))
    \/ relayWriteError(c) \/ gatewayError(c)

FairSpec == Spec /\ WF_vars(Tick) /\ \A c \in Clients : WF_vars(Progress(c))

-----------------------------------------------------------------------------
\* What the proxy guarantees.

ClientPhase ==
    [c \in Clients |-> CASE pc[c] = "idle" -> "idle"
                         [] pc[c] = "done" -> "closed"
                         [] OTHER -> "serving"]

G == INSTANCE Gateway WITH
        Responses <- {Response}, Errors <- Statuses, phase <- ClientPhase

\* The proxy is a Gateway: although the write deadline is renewed for an
\* error, none is ever appended to a response that has begun.
ImplementsGateway == G!Spec

\* A client that stays is left without a byte in two cases only: its request
\* was not complete when its deadline passed, so that the 400 cannot be
\* written any more, or the backend closed the connection before its first
\* byte, which relay takes for the end of a response.  Every other failure is
\* reported, even when the deadline of the connection is over: gatewayError
\* renews it.
FailureIsReported ==
    \A c \in Clients :
        pc[c] = "done" /\ ~aborted[c] /\ received[c] = <<>> =>
            \/ err[c] = "request" /\ readLeft[c] = 0
            \/ err[c] = "nil" /\ ~heard[c]

\* What reverse-proxy/README.md and ADR 002 promise: a backend that fails
\* before a byte of its response, and not by a timeout, is answered with a
\* 502.  The code keeps silent when the backend closes the connection.
NonTimeoutFailureMeans502 ==
    \A c \in Clients :
        /\ pc[c] = "done" /\ ~aborted[c] /\ ~heard[c]
        /\ err[c] \notin {"request", "timeout"}
        => received[c] = <<"502 Bad Gateway">>

\* No error blames a backend that did its part.  A 502 goes only to a client
\* whose backend sent nothing; a 504 only when five seconds really ran out:
\* the backend's, or, when it did answer in time, the client's.  The latter
\* count from the accept and are spent on the request, the dial and the wait
\* for the answer alike, so that the client need not have been slow itself;
\* handleConnection takes any timeout for the backend's.
ErrorJustified ==
    \A c \in Clients :
        /\ received[c] = <<"502 Bad Gateway">> => ~heard[c]
        /\ received[c] = <<"504 Gateway Timeout">> =>
             IF heard[c] THEN readLeft[c] = 0 ELSE backendLeft[c] = 0

\* Every accepted connection is closed in the end.
EveryRequestEnds ==
    \A c \in Clients : pc[c] = "read" ~> pc[c] = "done"
=============================================================================
