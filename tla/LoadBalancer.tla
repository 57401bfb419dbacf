---------------------------- MODULE LoadBalancer ----------------------------
(***************************************************************************)
(* The load balancer of load-balancer/server.go: the mutex-protected       *)
(* backend pool with leases and passive health, the registry endpoint that *)
(* changes it, the shared round-robin counter, and one goroutine per       *)
(* client connection running handleConnection.                             *)
(*                                                                         *)
(* Time.  The code stores absolute instants and compares them with         *)
(* time.Now().  The model stores what is left of each of them, in ticks,   *)
(* and Tick lets one tick pass: now.Before(t) is "left > 0", and an        *)
(* instant that has passed stays at 0.  Go's clock readings are monotonic, *)
(* so the two views agree, and no bound on time is needed.                 *)
(*                                                                         *)
(* Backends.  A *backendState is an object: a request keeps pointers to    *)
(* the objects of its snapshot, and an address that is removed and         *)
(* registered again gets a new object.  Objects are numbered in the order  *)
(* they are allocated.  The slice pool.backends only ever gets the newest  *)
(* object appended, and pruneExpired and remove keep the order of what     *)
(* stays, so the slice is always sorted by object number: the model keeps  *)
(* it as a set and At(S, k) is its k-th element.                           *)
(***************************************************************************)
EXTENDS Integers, FiniteSets, Sequences

CONSTANTS
    Clients,          \* connections, one goroutine each
    Addresses,        \* HOST:PORT strings a backend may have
    NoAddress,        \* the address of an object not yet allocated
    StaticBackends,   \* the -backend options; <<>> in registry mode
    MaxBackends,      \* maxBackends
    SocketTimeout,    \* socketTimeout, in ticks
    HealthCooldown,   \* healthCooldown, in ticks
    BackendLease,     \* backendLease, in ticks
    Faults,           \* what may go wrong around the balancer, see AllFaults
    MaxObjects        \* bound: how many *backendState are ever allocated

\* "refuse": a backend refuses a connection; "reset": it breaks a connection;
\* "close": it closes a connection before sending a byte; "abort": a client
\* resets its connection; "partial": a write to a client gets a part of its
\* bytes out and then blocks; "invalid": a client sends a request that
\* readRequest or hasUnsupportedBody rejects.  A backend or a client that
\* stays silent is no fault of this list: time just passes.
AllFaults == {"refuse", "reset", "close", "abort", "partial", "invalid"}

RegistryMode == StaticBackends = <<>>

ASSUME ConstantsAssumption ==
    /\ NoAddress \notin Addresses
    /\ StaticBackends \in Seq(Addresses)
    /\ MaxBackends \in Nat \ {0}
    /\ SocketTimeout \in Nat \ {0}
    /\ HealthCooldown \in Nat \ {0}
    /\ BackendLease \in Nat \ {0}
    /\ Faults \subseteq AllFaults
    /\ MaxObjects \in Nat
    /\ Len(StaticBackends) <= MaxObjects

Backends == 1 .. MaxObjects

Forever == -1   \* what is left of a zero expiresAt: a static backend

\* One run of bytes a client receives: response bytes of one attempt (the
\* loop offset it was made at), or an error response of the balancer.
Segments == [kind: {"data"}, attempt: Nat] \cup [kind: {"error"}, status: {400, 502}]
DataOf(attempt) == [kind |-> "data", attempt |-> attempt]
ErrorOf(status) == [kind |-> "error", status |-> status]

Pcs == {"idle", "read", "snapshot", "claim", "check", "dial", "relay",
        "write", "markSuccess", "markFailure", "badGateway", "done"}

Verdicts == {"none", "skipped", "failed", "blamed"}

VARIABLES
    pool,          \* pool.backends, a set of objects
    allocated,     \* how many objects exist
    address,       \* backendState.address
    retryIn,       \* what is left of backendState.retryAt; 0 also when zero
    leaseLeft,     \* what is left of backendState.expiresAt, or Forever
    selection,     \* the shared round-robin counter
    pc,            \* where each connection's goroutine is
    backends,      \* its snapshot of the pool
    ticket,        \* the counter value it claimed, -1 before
    offset,        \* the loop variable
    responseStarted,
    clientLeft,    \* what is left of the client connection's deadline
    backendLeft,   \* what is left of the dial timeout or backend deadline
    aborted,       \* the client has reset its connection
    received,      \* history: the runs of bytes the client got, in order
    verdict        \* history: what became of each backend in this request

poolVars == <<pool, allocated, address, retryIn, leaseLeft>>
requestVars == <<pc, backends, ticket, offset, responseStarted, clientLeft,
                 backendLeft, aborted, received, verdict>>
vars == <<poolVars, selection, requestVars>>

TypeOK ==
    /\ pool \subseteq Backends
    /\ allocated \in 0 .. MaxObjects
    /\ address \in [Backends -> Addresses \cup {NoAddress}]
    /\ retryIn \in [Backends -> 0 .. HealthCooldown]
    /\ leaseLeft \in [Backends -> {Forever} \cup 0 .. BackendLease]
    /\ selection \in Nat
    /\ pc \in [Clients -> Pcs]
    /\ backends \in [Clients -> SUBSET Backends]
    /\ ticket \in [Clients -> {-1} \cup Nat]
    /\ offset \in [Clients -> Nat]
    /\ responseStarted \in [Clients -> BOOLEAN]
    /\ clientLeft \in [Clients -> 0 .. SocketTimeout]
    /\ backendLeft \in [Clients -> 0 .. SocketTimeout]
    /\ aborted \in [Clients -> BOOLEAN]
    /\ received \in [Clients -> Seq(Segments)]
    /\ verdict \in [Clients -> [Backends -> Verdicts]]

-----------------------------------------------------------------------------
\* newBackendPool: the static backends have no lease and no cooldown.
Init ==
    /\ allocated = Len(StaticBackends)
    /\ pool = 1 .. Len(StaticBackends)
    /\ address = [b \in Backends |->
                    IF b <= Len(StaticBackends) THEN StaticBackends[b] ELSE NoAddress]
    /\ retryIn = [b \in Backends |-> 0]
    /\ leaseLeft = [b \in Backends |-> Forever]
    /\ selection = 0
    /\ pc = [c \in Clients |-> "idle"]
    /\ backends = [c \in Clients |-> {}]
    /\ ticket = [c \in Clients |-> -1]
    /\ offset = [c \in Clients |-> 0]
    /\ responseStarted = [c \in Clients |-> FALSE]
    /\ clientLeft = [c \in Clients |-> 0]
    /\ backendLeft = [c \in Clients |-> 0]
    /\ aborted = [c \in Clients |-> FALSE]
    /\ received = [c \in Clients |-> <<>>]
    /\ verdict = [c \in Clients |-> [b \in Backends |-> "none"]]

-----------------------------------------------------------------------------
\* The pool.  Each of these runs under pool.mutex, in one step.

Live(b) == leaseLeft[b] # 0

pruneExpired == {b \in pool : Live(b)}

available(b) == Live(b) /\ retryIn[b] = 0

\* The element of a sorted slice at index k.
At(S, k) == CHOOSE b \in S : Cardinality({d \in S : d < b}) = k

Registered(a) == {b \in pruneExpired : address[b] = a}

\* Mutant: one backend too many fits.
MutantRegisterStatus(a) ==
    IF Registered(a) # {} \/ Cardinality(pruneExpired) <= MaxBackends THEN 204 ELSE 409

\* The status PUT /backends answers for a well-formed address.
registerStatus(a) ==
    IF Registered(a) # {} \/ Cardinality(pruneExpired) < MaxBackends THEN 204 ELSE 409

\* Mutant: a registered backend gets no expiresAt, as a static one.
MutantRegister(a) ==
    /\ RegistryMode
    /\ Registered(a) = {} /\ registerStatus(a) = 204 /\ allocated < MaxObjects
    /\ allocated' = allocated + 1
    /\ pool' = pruneExpired \cup {allocated'}
    /\ address' = [address EXCEPT ![allocated'] = a]
    /\ UNCHANGED <<retryIn, leaseLeft, selection, requestVars>>

\* PUT /backends: prune, then renew the lease, add a backend, or refuse.
register(a) ==
    /\ RegistryMode
    /\ \/ /\ Registered(a) # {}
          /\ pool' = pruneExpired
          /\ leaseLeft' = [b \in Backends |->
                             IF b \in Registered(a) THEN BackendLease ELSE leaseLeft[b]]
          /\ UNCHANGED <<allocated, address, retryIn>>
       \/ /\ Registered(a) = {}
          /\ registerStatus(a) = 204
          /\ allocated < MaxObjects
          /\ allocated' = allocated + 1
          /\ pool' = pruneExpired \cup {allocated'}
          /\ address' = [address EXCEPT ![allocated'] = a]
          /\ retryIn' = [retryIn EXCEPT ![allocated'] = 0]
          /\ leaseLeft' = [leaseLeft EXCEPT ![allocated'] = BackendLease]
       \/ /\ registerStatus(a) = 409
          /\ pool' = pruneExpired
          /\ UNCHANGED <<allocated, address, retryIn, leaseLeft>>
    /\ UNCHANGED <<selection, requestVars>>

\* remove looks through the pool as it is: it does not prune first.
Removable(a) == {b \in pool : address[b] = a}

\* The status DELETE /backends answers for a well-formed address.
removeStatus(a) == IF Removable(a) # {} THEN 204 ELSE 404

\* Mutant: the rest of the slice is not appended again.
MutantRemove(a) ==
    /\ RegistryMode
    /\ removeStatus(a) = 204
    /\ pool' = {b \in pool : b < At(Removable(a), 0)}
    /\ UNCHANGED <<allocated, address, retryIn, leaseLeft, selection, requestVars>>

\* DELETE /backends: the first backend with this address leaves the pool.
remove(a) ==
    /\ RegistryMode
    /\ removeStatus(a) = 204
    /\ pool' = pool \ {At(Removable(a), 0)}
    /\ UNCHANGED <<allocated, address, retryIn, leaseLeft, selection, requestVars>>

\* GET /backends lists a snapshot, which prunes the pool.
list ==
    /\ RegistryMode
    /\ pool' = pruneExpired
    /\ UNCHANGED <<allocated, address, retryIn, leaseLeft, selection, requestVars>>

-----------------------------------------------------------------------------
\* handleConnection.

Goto(c, label) == pc' = [pc EXCEPT ![c] = label]

\* A write reaches the client before its deadline, unless the client is gone.
Writable(c) == clientLeft[c] > 0 /\ ~aborted[c]

\* The client receives a run of bytes; more of the same run is no new run.
Receive(c, segment) ==
    received' = [received EXCEPT ![c] =
                   IF @ # <<>> /\ @[Len(@)] = segment THEN @ ELSE Append(@, segment)]

\* The outcome of the write is ignored.
sendError(c, status) ==
    IF Writable(c) THEN Receive(c, ErrorOf(status)) ELSE UNCHANGED received

\* serve accepts a connection; its goroutine first sets the deadline, once,
\* for every later read and write of the client connection.
accept(c) ==
    /\ pc[c] = "idle"
    /\ Goto(c, "read")
    /\ clientLeft' = [clientLeft EXCEPT ![c] = SocketTimeout]
    /\ UNCHANGED <<poolVars, selection, backends, ticket, offset, responseStarted,
                   backendLeft, aborted, received, verdict>>

\* readRequest returns a request that is complete and has no body framing.
readRequest(c) ==
    /\ pc[c] = "read"
    /\ clientLeft[c] > 0
    /\ Goto(c, "snapshot")
    /\ UNCHANGED <<poolVars, selection, backends, ticket, offset, responseStarted,
                   clientLeft, backendLeft, aborted, received, verdict>>

\* The request is invalid, or reading it failed or ran into the deadline.
rejectRequest(c) ==
    /\ pc[c] = "read"
    /\ "invalid" \in Faults \/ ~Writable(c)
    /\ sendError(c, 400)
    /\ Goto(c, "done")
    /\ UNCHANGED <<poolVars, selection, backends, ticket, offset, responseStarted,
                   clientLeft, backendLeft, aborted, verdict>>

snapshot(c) ==
    /\ pc[c] = "snapshot"
    /\ pool' = pruneExpired
    /\ backends' = [backends EXCEPT ![c] = pruneExpired]
    /\ Goto(c, IF pruneExpired = {} THEN "badGateway" ELSE "claim")
    /\ UNCHANGED <<allocated, address, retryIn, leaseLeft, selection, ticket, offset,
                   responseStarted, clientLeft, backendLeft, aborted, received, verdict>>

\* Mutant: the counter is kept below the number of backends.
MutantClaim(c) ==
    /\ pc[c] = "claim"
    /\ ticket' = [ticket EXCEPT ![c] = selection]
    /\ selection' = (selection + 1) % Cardinality(backends[c])
    /\ Goto(c, "check")
    /\ UNCHANGED <<poolVars, backends, offset, responseStarted, clientLeft,
                   backendLeft, aborted, received, verdict>>

\* selection.Add(1) - 1: an atomic step of its own, after the snapshot.
claim(c) ==
    /\ pc[c] = "claim"
    /\ ticket' = [ticket EXCEPT ![c] = selection]
    /\ selection' = selection + 1
    /\ Goto(c, "check")
    /\ UNCHANGED <<poolVars, backends, offset, responseStarted, clientLeft,
                   backendLeft, aborted, received, verdict>>

Size(c) == Cardinality(backends[c])

initialIndex(c) == ticket[c] % Size(c)

\* Mutant: the loop reads the shared counter again.
MutantSelected(c) == At(backends[c], (selection + offset[c]) % Size(c))

selected(c) == At(backends[c], (initialIndex(c) + offset[c]) % Size(c))

\* Mutant: the last backend of the rotation is never reached.
MutantNextAttempt(c) ==
    IF offset[c] + 2 < Size(c)
    THEN Goto(c, "check") /\ offset' = [offset EXCEPT ![c] = @ + 1]
    ELSE Goto(c, "badGateway") /\ UNCHANGED offset

\* Mutant: the loop stays at its backend until that one can be used.
MutantRetrySame(c) ==
    Goto(c, "check") /\ UNCHANGED offset

\* The end of a loop iteration that did not return.
NextAttempt(c) ==
    IF offset[c] + 1 < Size(c)
    THEN Goto(c, "check") /\ offset' = [offset EXCEPT ![c] = @ + 1]
    ELSE Goto(c, "badGateway") /\ UNCHANGED offset

\* Mutant: every attempt renews the deadline of the client connection.
MutantCheck(c) ==
    /\ pc[c] = "check"
    /\ \/ /\ available(selected(c))
          /\ Goto(c, "dial")
          /\ responseStarted' = [responseStarted EXCEPT ![c] = FALSE]
          /\ backendLeft' = [backendLeft EXCEPT ![c] = SocketTimeout]
          /\ clientLeft' = [clientLeft EXCEPT ![c] = SocketTimeout]
          /\ UNCHANGED <<offset, verdict>>
       \/ /\ ~available(selected(c))
          /\ verdict' = [verdict EXCEPT ![c][selected(c)] = "skipped"]
          /\ NextAttempt(c)
          /\ UNCHANGED <<responseStarted, backendLeft, clientLeft>>
    /\ UNCHANGED <<poolVars, selection, backends, ticket, aborted, received>>

\* pool.available(selected): go on to dial it, or skip it.
check(c) ==
    /\ pc[c] = "check"
    /\ \/ /\ available(selected(c))
          /\ Goto(c, "dial")
          /\ responseStarted' = [responseStarted EXCEPT ![c] = FALSE]
          /\ backendLeft' = [backendLeft EXCEPT ![c] = SocketTimeout]
          /\ UNCHANGED <<offset, verdict>>
       \/ /\ ~available(selected(c))
          /\ verdict' = [verdict EXCEPT ![c][selected(c)] = "skipped"]
          /\ NextAttempt(c)
          /\ UNCHANGED <<responseStarted, backendLeft>>
    /\ UNCHANGED <<poolVars, selection, backends, ticket, clientLeft, aborted, received>>

\* Mutant: the new deadline is added to what the client had left.
MutantDial(c) ==
    /\ pc[c] = "dial"
    /\ backendLeft[c] > 0
    /\ Goto(c, "relay")
    /\ backendLeft' = [backendLeft EXCEPT ![c] = clientLeft[c] + SocketTimeout]
    /\ UNCHANGED <<poolVars, selection, backends, ticket, offset, responseStarted,
                   clientLeft, aborted, received, verdict>>

dial(c) ==
    /\ pc[c] = "dial"
    /\ backendLeft[c] > 0
    /\ Goto(c, "relay")
    /\ backendLeft' = [backendLeft EXCEPT ![c] = SocketTimeout]
    /\ UNCHANGED <<poolVars, selection, backends, ticket, offset, responseStarted,
                   clientLeft, aborted, received, verdict>>

\* relay: backend.Read returned bytes of the response; client.Write follows.
relayRead(c) ==
    /\ pc[c] = "relay"
    /\ backendLeft[c] > 0
    /\ Goto(c, "write")
    /\ UNCHANGED <<poolVars, selection, backends, ticket, offset, responseStarted,
                   clientLeft, backendLeft, aborted, received, verdict>>

\* client.Write got a part of its bytes out and waits to write the rest.
relayPartial(c) ==
    /\ "partial" \in Faults
    /\ pc[c] = "write"
    /\ Writable(c)
    /\ Receive(c, DataOf(offset[c]))
    /\ UNCHANGED <<poolVars, selection, pc, backends, ticket, offset, responseStarted,
                   clientLeft, backendLeft, aborted, verdict>>

\* client.Write returned without an error.
relayWritten(c) ==
    /\ pc[c] = "write"
    /\ Writable(c)
    /\ Receive(c, DataOf(offset[c]))
    /\ responseStarted' = [responseStarted EXCEPT ![c] = TRUE]
    /\ Goto(c, "relay")
    /\ UNCHANGED <<poolVars, selection, backends, ticket, offset, clientLeft,
                   backendLeft, aborted, verdict>>

\* relay returns nil: the backend closed the connection, whether or not it
\* had sent anything.
relayEOF(c) ==
    /\ pc[c] = "relay"
    /\ backendLeft[c] > 0
    /\ responseStarted[c] \/ "close" \in Faults
    /\ Goto(c, "markSuccess")
    /\ UNCHANGED <<poolVars, selection, backends, ticket, offset, responseStarted,
                   clientLeft, backendLeft, aborted, received, verdict>>

\* An attempt ended with an error: give up once the response has started.
AttemptFailed(c, why) ==
    /\ \/ /\ responseStarted[c]
          /\ Goto(c, "done")
          /\ UNCHANGED verdict
       \/ /\ ~responseStarted[c]
          /\ Goto(c, "markFailure")
          /\ verdict' = [verdict EXCEPT ![c][selected(c)] = why]
    /\ UNCHANGED <<poolVars, selection, backends, ticket, offset, responseStarted,
                   clientLeft, backendLeft, aborted, received>>

\* The dial fails: refused, or no answer within the dial timeout.
dialError(c) ==
    /\ pc[c] = "dial"
    /\ "refuse" \in Faults \/ backendLeft[c] = 0
    /\ AttemptFailed(c, "failed")

\* Writing the request or reading the response fails, or the deadline passes.
relayError(c) ==
    /\ pc[c] = "relay"
    /\ "reset" \in Faults \/ backendLeft[c] = 0
    /\ AttemptFailed(c, "failed")

\* client.Write failed: the client is gone, or its deadline has passed.
relayWriteError(c) ==
    /\ pc[c] = "write"
    /\ ~Writable(c)
    /\ AttemptFailed(c, "blamed")

markSuccess(c) ==
    /\ pc[c] = "markSuccess"
    /\ retryIn' = [retryIn EXCEPT ![selected(c)] = 0]
    /\ Goto(c, "done")
    /\ UNCHANGED <<pool, allocated, address, leaseLeft, selection, backends, ticket,
                   offset, responseStarted, clientLeft, backendLeft, aborted,
                   received, verdict>>

markFailure(c) ==
    /\ pc[c] = "markFailure"
    /\ retryIn' = [retryIn EXCEPT ![selected(c)] = HealthCooldown]
    /\ NextAttempt(c)
    /\ UNCHANGED <<pool, allocated, address, leaseLeft, selection, backends, ticket,
                   responseStarted, clientLeft, backendLeft, aborted, received,
                   verdict>>

badGateway(c) ==
    /\ pc[c] = "badGateway"
    /\ sendError(c, 502)
    /\ Goto(c, "done")
    /\ UNCHANGED <<poolVars, selection, backends, ticket, offset, responseStarted,
                   clientLeft, backendLeft, aborted, verdict>>

-----------------------------------------------------------------------------
\* The environment.

\* A client resets its connection while the balancer works on its request.
abort(c) ==
    /\ "abort" \in Faults
    /\ pc[c] \notin {"idle", "done"}
    /\ ~aborted[c]
    /\ aborted' = [aborted EXCEPT ![c] = TRUE]
    /\ UNCHANGED <<poolVars, selection, pc, backends, ticket, offset, responseStarted,
                   clientLeft, backendLeft, received, verdict>>

Less(left) == IF left > 0 THEN left - 1 ELSE left

Tick ==
    /\ retryIn' = [b \in Backends |-> Less(retryIn[b])]
    /\ leaseLeft' = [b \in Backends |-> Less(leaseLeft[b])]
    /\ clientLeft' = [c \in Clients |-> Less(clientLeft[c])]
    /\ backendLeft' = [c \in Clients |-> Less(backendLeft[c])]
    /\ UNCHANGED <<pool, allocated, address, selection, pc, backends, ticket, offset,
                   responseStarted, aborted, received, verdict>>

Registry == list \/ \E a \in Addresses : register(a) \/ remove(a)

handleConnection(c) ==
    \/ readRequest(c) \/ rejectRequest(c) \/ snapshot(c) \/ claim(c) \/ check(c)
    \/ dial(c) \/ dialError(c) \/ relayRead(c) \/ relayPartial(c) \/ relayWritten(c)
    \/ relayWriteError(c) \/ relayEOF(c) \/ relayError(c)
    \/ markSuccess(c) \/ markFailure(c) \/ badGateway(c)

Next ==
    \/ Tick
    \/ Registry
    \/ \E c \in Clients : accept(c) \/ abort(c) \/ handleConnection(c)

\* The steps a goroutine cannot be kept from: its own computation, and the
\* errors that Go's deadlines make of reads and writes that take too long.
\* Nothing is assumed of clients and backends.
Progress(c) ==
    \/ snapshot(c) \/ claim(c) \/ check(c)
    \/ markSuccess(c) \/ markFailure(c) \/ badGateway(c)
    \/ ~Writable(c) /\ (rejectRequest(c) \/ relayWriteError(c))
    \/ backendLeft[c] = 0 /\ (dialError(c) \/ relayError(c))

Fairness == WF_vars(Tick) /\ \A c \in Clients : WF_vars(Progress(c))

Spec == Init /\ [][Next]_vars

FairSpec == Spec /\ Fairness

-----------------------------------------------------------------------------
\* What the balancer guarantees.

\* relay and handleConnection never mix answers: a client gets bytes of one
\* attempt's response only, or of one error.  This holds although a write
\* that fails half-way leaves responseStarted unset and handleConnection
\* goes on to another backend: the deadline of line 289 is never renewed, so
\* nothing more can reach the client.
SingleAnswer == \A c \in Clients : Len(received[c]) <= 1

\* The loop of handleConnection visits every backend of its snapshot exactly
\* once: after k iterations exactly k of them have been skipped or have
\* failed, and the iteration in progress is at one of the others.
Judged(c) == {b \in Backends : verdict[c][b] # "none"}

RotationVisitsOnce ==
    \A c \in Clients :
        /\ Judged(c) \subseteq backends[c]
        /\ pc[c] \in {"check", "dial", "relay", "write", "markSuccess"} =>
               Cardinality(Judged(c)) = offset[c] /\ selected(c) \notin Judged(c)

\* A 502 is the last resort: handleConnection sends it only when each
\* backend of the request's snapshot was unavailable or failed.
BadGatewayJustified ==
    \A c \in Clients :
        ErrorOf(502) \in {received[c][i] : i \in 1 .. Len(received[c])}
            => backends[c] \subseteq Judged(c)

\* selection.Add hands every number to exactly one request, however the
\* goroutines interleave between their snapshot and their claim.
EveryTicketOnce ==
    /\ \A c \in Clients : ticket[c] < selection
    /\ \A c, d \in Clients : ticket[c] = ticket[d] /\ ticket[c] >= 0 => c = d
    /\ \A k \in 0 .. selection - 1 : \E c \in Clients : ticket[c] = k

\* In registry mode an address is a member at most once, and there are never
\* more than maxBackends members, whatever expired in between.
AddressesDistinct ==
    \A b, d \in pool : address[b] = address[d] => b = d

Membership ==
    RegistryMode => AddressesDistinct /\ Cardinality(pool) <= MaxBackends

\* A member whose lease runs leaves the pool by a DELETE of its own address
\* and by nothing else, and an object that left never comes back.
MembersStay ==
    [][/\ \A b \in pool \ pool' : Live(b) => remove(address[b])
       /\ \A b \in pool' \ pool : b > allocated]_vars

\* Every accepted connection is closed in the end, whatever the client and
\* the backends do: no read, write or dial is without a deadline.
EveryRequestEnds ==
    \A c \in Clients : pc[c] = "read" ~> pc[c] = "done"

\* The balancer is a Gateway.
ClientPhase ==
    [c \in Clients |-> CASE pc[c] = "idle" -> "idle"
                         [] pc[c] = "done" -> "closed"
                         [] OTHER -> "serving"]

G == INSTANCE Gateway WITH
        Responses <- [kind: {"data"}, attempt: 0 .. MaxObjects],
        Errors <- [kind: {"error"}, status: {400, 502}],
        phase <- ClientPhase

\* Every step of the balancer is, for its clients, a step of the Gateway: one
\* answer, from one attempt or from the balancer, then the close.
ImplementsGateway == G!Spec

-----------------------------------------------------------------------------
\* What the documentation says and the code does not do.

\* README: "returns 502 Bad Gateway when no backend can serve the request".
\* A client that stays gets a 502 once every backend failed it.
NoBackendMeans502 ==
    \A c \in Clients :
        /\ pc[c] = "done" /\ ~aborted[c] /\ backends[c] # {}
        /\ \A b \in backends[c] : verdict[c][b] = "failed"
        => received[c] = <<ErrorOf(502)>>
=============================================================================
