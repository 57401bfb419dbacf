# Verification of infra-from-scratch

TLA+ models of the components of this repository, the TLC runs that check them
on small instances, and TLAPS proofs of the properties that matter most.
`PROJECT.json` lists the runs, the source lines behind every definition, the
hazards, the findings and the theorems.

## The system

A request of the complete stack passes through these parts:

    client.py --UDP--> dns-server
        |
        v
    reverse-proxy --> load-balancer --> http-server (several) --> in-mem-cache
                          ^                  |                    (in a container
                          +---- registry ----+                     of container-runtime)

Every arrow but the DNS one is a TCP connection used for one request. Each part
is a process of its own; what they share is the state of the balancer's registry
and of the cache.

### Inventory

| Component | State | Operations | What is hard | What makes it correct |
| --- | --- | --- | --- | --- |
| load balancer (`load-balancer/server.go`) | pool of backends with lease and cooldown, round-robin counter; per connection: snapshot, offset, deadlines | `register`, `remove`, `GET /backends`; `handleConnection`, `relay` | concurrent requests over stale snapshots, failover against one client deadline, passive health shared by all requests | one answer per client; every backend tried once before a 502; no address twice, never above the limit; every connection ends |
| reverse proxy (`reverse-proxy/server.go`) | per connection: two client deadlines, a backend deadline, `responseStarted` | `handleConnection`, `relay` | which deadline ran out, an error after a timeout | one answer per client; failures are reported; every connection ends |
| cache store (`in-mem-cache/server.c`) | array of entries under a mutex | `GET`, `SET`, `DELETE` | lazy expiry, slot reuse, a full store | it is a map with exact expiry |
| cache server (`in-mem-cache/server.c`) | `active_clients`, one thread per connection | accept loop, `handle_client` | error paths that must release a slot, clients that leave at any moment | slots are counted exactly and come back |
| request readers (in all three servers) | buffer of one connection | `readRequest`, `read_request` | the size check depends on how the bytes are cut into chunks | the same request is accepted however it arrives |
| cache line buffer (`handle_client` in `in-mem-cache/server.c`) | `pending`, `pending_len`, `processed` | `recv`, the scan for lines, the move of the rest | chunks that end anywhere, pipelined lines, the limit of the buffer | each line answered once, only long lines refused |
| HTTP server (`http-server/server.py`, `application.py`) | none of its own; one thread per connection | `handle_connection`, `respond_with_cache` | the cache fails between `get` and `set` | a cache failure never changes the answer |
| backend registration (`http-server/server.py`) | renewal thread, stop event | `renew_registration`, DELETE at the end of `serve` | lost and late registry calls, a late PUT after the DELETE | a live backend stays a member, a stopped one leaves |
| cache client (`http-server/cache_client.py`) | none; one connection per command | `get`, `set` | a timeout after the command took effect | a command that fails costs the cache no slot |
| HTTP client and resolver (`http-server/client.py`) | none | `URL.request`, `DNSResolver.resolve` | one datagram, no retry, fixed transaction id | an address comes from an answer to this query |
| DNS server (`dns-server/server.go`) | none | `makeResponse` | malformed packets | every query gets the right response code or silence |
| container runtime (`container-runtime/runtime.c`) | two supervisors, a pipe and a pidfd, pending signals | startup handshake, `supervise` | death of the parent during startup, signals between `waitpid` and `sigwaitinfo` or before the command's group exists, SIGCHLD standing for several children | nothing outlives the launcher, no lost signal, the command's exit status, the rootfs that was checked |

Interactions: the proxy and the balancer are both *gateways* to their clients.
HTTP servers call the balancer's registry (PUT every second, DELETE at a graceful
end), which changes the pool that the balancer's connections take snapshots of.
HTTP servers open one connection to the cache per command.

## Modules

| Module | Models |
| --- | --- |
| `Gateway` | abstract: what a client of a gateway may rely on, one answer and then the close |
| `LoadBalancer` | `load-balancer/server.go`; implements `Gateway` |
| `ReverseProxy` | `reverse-proxy/server.go`; implements `Gateway` |
| `CacheSpec` | abstract: a map with exact expiry and room for `Capacity` live keys |
| `CacheStore` | the array and `handle_line` of `in-mem-cache/server.c`; implements `CacheSpec` |
| `CacheServer` | accept loop and client threads of `in-mem-cache/server.c`, over `CacheStore` |
| `LineBuffer` | one connection's buffer in `handle_client` of `in-mem-cache/server.c` |
| `CacheAside` | the handlers of `http-server/server.py` with `cache_client.py`, composed with `CacheServer` |
| `Registration` | `serve`, `renew_registration` and `update_registry` of `http-server/server.py`, composed with the registry of `LoadBalancer` |
| `ContainerRuntime` | `container-runtime/runtime.c` |
| `MC*` | definitions for TLC (symmetry, initial backends); runs without need of one use the module itself |
| `*Proofs` | the theorems of the module they are named after |

Definitions named `Mutant...` are plausible bugs: each one, put in the place of
the definition that follows it, makes a property fail. They are used nowhere else.

### Conventions

*Time.* The code keeps absolute instants and compares them with the clock. The
models keep what is left of each of them in ticks, and `Tick` lets one pass. Both
Go's readings and `CLOCK_MONOTONIC` are monotonic, so the views agree, and no bound
on time is needed. `Tick` is always possible: a process may be slow at any point.

*Steps.* What happens under a mutex is one step, as is an atomic operation.
Between two such steps, and around every read, write and dial, others may run.

*Bytes* are abstracted. A request is valid or not; a response is a run of bytes
of one attempt; a malformed cache line is one of any kind. What the syntax checks
accept is not modelled. Only `LineBuffer` has bytes, of the four kinds that
`handle_client` tells apart.

*History variables* are marked as such where they are declared. They are not in the
code, and no guard of a step depends on them, with two exceptions that only restrict
the environment: the proxy's `heard` tells whether the backend closed before its
first byte, and the runtime's `sent` lets each signal be sent once.

### LoadBalancer

A `*backendState` is an object: a request holds pointers to the objects of its
snapshot, and an address that is removed and registered again gets a new one.
Objects are numbered as they are allocated; `pool.backends` is always sorted by
that number, so it is kept as a set, and `At(S, k)` is its k-th element.

`handleConnection` is cut where other goroutines may come in between: `readRequest`
or `rejectRequest`, `snapshot`, `claim` (the atomic `selection.Add`), then per
iteration `check` (`pool.available`), `dial` or `dialError`, and the loop of
`relay` (`relayRead`, then `relayPartial`, `relayWritten` or `relayWriteError`;
`relayEOF`; `relayError`), `markSuccess` or `markFailure`, and `badGateway` at
the end. `register`, `remove` and `list` are the registry's handlers. An invalid
registry request changes nothing and is left out.

`Faults` says what goes wrong around the balancer. Silence needs no fault: time
just passes. `relayPartial` lets a write get some bytes out and block. For the
first write of a connection (at most 4096 bytes into an empty socket buffer) this
does not really happen; the model allows it, and the properties hold all the same.

`selection` is a natural number. In the code `int(selection.Add(1)-1)` would turn
negative after 2^63 requests, which no process lives to see.

### ReverseProxy

Its client connection has a read and a write deadline, because `handleConnection`
renews the second one before it sends a 502 or 504. `err` tells a timeout from
another error, as `net.Error.Timeout` does. Here the assumption on the first write
is needed: after a first write that got out in part the renewed deadline would let
an error follow it. So `relayPartial` only concerns later writes.

`FailureIsReported` says who may be left without a byte: a client whose request was
incomplete at its deadline (the 400 goes by the deadline that has just passed), and the
client of a backend that closed before its first byte, which `relay` takes for the end of a
response. The second case is a finding, with a run of its own (see below).

### CacheStore and CacheServer

`lookup` returns an index and may discard a stale entry: the operator `lookup` is
the first effect, `Discarded` the second. `free_slot` works on the array `lookup`
left behind. Each command is one step that determines the reply; `send_reply` is
another one. `CacheServer` adds the listener's queue, the life of a connection and
`active_clients`. Its `command`, `reply_sent` and `reply_lost` run the store's own
actions, so everything about `CacheStore` carries over (theorem `ServerIsMap`).

`CacheSpec` tells the reason of an ERROR, which the bytes do not, so that it can
say that a SET is refused only by a full map.

### LineBuffer

`CacheServer` takes lines for granted; this module says where they come from. The
array, `pending_len` and `processed` are those of `handle_client`, `memcpy` and
`memmove` are index arithmetic on the array, and a `recv` of any size up to
RECV_BUF may return any number of the bytes that are left. `line` is one iteration of
the inner loop. What a line is, and how it has to be answered, is defined a second
time on the stream alone (`Expected`), without buffer or chunks, and compared.

The code refuses a chunk that does not fit although it might end the line, so a line
of more than LINE_MAX - RECV_BUF bytes is accepted or refused depending on the
cut. A valid command (at most 256 bytes of key, 4096 of value) is well below
that bound, so `RefusalJustified` means that no valid client is ever refused.

### CacheAside

A handler is a thread of `handle_connection` that has read its request. `get` and
`set` are two connections to the cache, one after the other; `command_fails` stands
for every CacheError of `_command` and may come at any moment, also when the cache
has executed the command or is about to. A handler that gives up closes its socket;
its command stays on the wire and is read and executed all the same. Several
handlers, and the one or two connections of each, are ordinary clients of
`CacheServer`, whose actions are used as they are.

The cache cannot hold a newline: what is stored is the body of `respond` without it
(`CacheValue`), and `Restore` puts it back. Nobody else stores under CACHE_KEY:
the cache has no authentication, so this is an assumption about its other clients.

### Registration

One server per address, with its two threads. `start` and `interrupt` begin and end
the accept loop; `finally` waits for the registration thread and then sends the
DELETE. A call to the registry is sent, executed and answered in three steps; at the
timeout, and after a crash, it goes to `late`, and the registry may execute it at any
later time or never. `late` keeps the kinds of such calls and not their number: a kind stays
there after an execution, for there may be more of it, until `drop_late`. Threads are on time (`Due`): a wait or a timeout that is over is
noticed before the next tick. That is the one timing assumption, and `StaysMember`
needs one.

The timeout of `urlopen` is one of each socket operation, not of the call: `OpTime` is
waited for the connection and once more for the answer, so that a call may take `CallTime`,
twice as long, and what is left of it when the registry executes it is at most `OpTime`
(`AwaitAnswer`). The request fits into the socket buffer, and the answer, without a body, into
one segment, so no other operation blocks.

`TimingAssumption` says which renewals a lease survives: with `Tolerated` failed
renewals in a row, `(Tolerated + 1) * (Refresh + CallTime) + OpTime < BackendLease`.
In half seconds the code has `Refresh` 2, `OpTime` 1 and `BackendLease` 6: it holds for
`Tolerated = 0` (5 < 6) and not for 1 (9), so a single renewal that uses up both timeouts can
cost a serving backend its place for a moment.

### ContainerRuntime

`pc` has the launcher, init (PID 1) and the command (PID 2), each with the label of
its next step. `supervise(s)` is one text for both supervisors: `reap_child`,
`reap_other` and `reap_none` are what `waitpid(-1, WNOHANG)` may return, `wait_signal` is
`sigwaitinfo`, `forward` the `kill`. Every system call of the setup is a label, and
`fail(p)` may take the place of the next one. `check` stands for the tests at the
beginning of `main`, `prepare` for the steps of the setup that change nothing the model
keeps.

The kernel's part is external and modelled from how the code relies on it: a blocked
signal stays pending, once; a child that ends becomes a zombie and sends SIGCHLD to
its parent, unless the parent ignores SIGCHLD; the end of a parent kills a child that
asked for it; when PID 1 ends, everything in its namespace is killed, and PID 1 can be
waited for only after that. `sigwaitinfo` takes the pending signal with the lowest
number first, as Linux does.

Not in this model: `--help`, a terminal that sends signals to init before `setsid`, and
what mounts, uid maps and capabilities do.

## Runs

`tlc -config X.cfg M` with the module and cfg of `PROJECT.json`. States are
distinct states.

| Run | Instance | Shows |
| --- | --- | --- |
| `lb_static` | 2 clients, 2 static backends, every fault; 1.1 million states | `EveryTicketOnce`, `ImplementsGateway` |
| `lb_registry` | 2 clients, 2 addresses, 3 objects, leases of 1; 3.3 million up to symmetry | `RotationVisitsOnce`, `BadGatewayJustified`, over snapshots whose members expire, leave and return |
| `lb_members` | 1 client, 3 addresses for 2 places, 3 objects, refusing, closing and silent backends, with fairness; 527 000 | `Membership`, `MembersStay`, `EveryRequestEnds` |
| `proxy` | 2 clients, every fault, with fairness; 36 000 | `ImplementsGateway`, `FailureIsReported`, `ErrorJustified`, `EveryRequestEnds` |
| `cache_store` | 2 threads, 3 keys for 2 slots, TTLs 0 to 2; 4 700 up to symmetry | `UniqueKeys`, `ImplementsMap` |
| `cache_server` | 3 connections for 2 slots, with fairness; 58 000 | `SlotsCounted`, `DisconnectFreesSlot`, `EveryConnectionDecided` |
| `line_buffer` | every stream of 7 bytes, LINE_MAX 4, RECV_BUF 2; 565 000 | `LinesAnswered`, `RefusalJustified`, `NothingHeldBack` |
| `cache_aside` | 1 handler with 2 connections, 1 other client, 1 slot, with fairness; 89 000 | `AnswersAgree`, `EveryRequestAnswered`, `SlotsComeBack` |
| `registration` | 2 servers for 1 place, 2 objects, the code's times; 2.4 million up to symmetry | `StaysMember`, `GracefulEndRemoves`, `EndedIsForgotten` |
| `runtime` | 2 signals, 1 exit code, 2 directories, 2 orphans, with fairness; 164 000 | `StatusReported`, `NothingOutlives`, `NoOrphan`, `SignalsKept`, `RootIsExpected`, `LauncherDeathEndsAll`, `EndIsReported`, `SignalsArrive`, `OrphansReaped` |

Bounds. `MaxObjects` bounds how often an address can be registered anew; three
objects for two addresses give a request a snapshot with a removed object next to
its successor. Nothing else is bounded but the number of clients: every connection
of the gateways is used once. Two clients suffice for the interaction through the
counter and the health of backends. For `EveryRequestEnds` one is enough: no step of
a connection waits for another one, and what others change, the counter and the verdicts on
backends, decides which attempts a request makes and not whether they end.
Time constants are small where only their order of expiry matters, since each may
run out before or after each other one, and those of the code (1, 3 and 5 seconds)
in `lb_hung`; `registration` has those of the code in half seconds. One key more than slots fills the store, with one
stale entry or none; one connection more than slots makes the server turn one away.

`line_buffer`: seven bytes are more than LINE_MAX, so the buffer is filled exactly,
overfilled, and emptied and filled again; two bytes per chunk let one chunk end two
lines or split CR LF. `cache_aside`: two connections let a handler's second command
start while its first one, given up, still holds the only slot. There is one handler: what
other handlers do to it is covered by the theorem `CacheIsTransparent` only (with two handlers,
1.4 million states, TLC confirms `AnswersAgree`, but liveness takes too long to check). `registration`: two
objects let an address be registered once more after it was removed or expired, by
its own server or by the other. `runtime`: `MaxKids` bounds the orphans init gets; two make one
SIGCHLD stand for two. Each forwarded signal is sent once: with an unbounded stream
of a lower-numbered signal a higher one could wait for ever. `line_buffer` and `runtime`
do not check for deadlock: a connection, and a container, come to their end.

The compositions' `RegistrationTypeOK` and `AsideTypeOK` hold on the same instances; their
runs do not list them, since they add little to the type invariants of the parts.

Fairness. `LoadBalancer` and `ReverseProxy` assume that time passes and that a
goroutine goes on with its own computation and with the errors that deadlines
produce; nothing is assumed of clients and backends. That is what `SetDeadline` and
`DialTimeout` give. `CacheServer` assumes that `main` goes on once a connection is
queued (its `send` of six bytes to a new connection does not block) and that a
thread whose client left gets out of `recv` and `send`. A client that stays and
neither sends nor reads may hold its slot for ever, as in the code. `CacheAside` assumes that handlers go
on (every call has a timeout), that the accept loop does, and that a cache thread goes
on with a command it has read and with the end of a stream; it assumes nothing of
other clients. `ContainerRuntime` assumes that each process of the runtime goes on,
and that the kernel delivers signals, kills what is to be killed and empties a
namespace whose PID 1 has ended; nothing of the program, its children or others.
`LineBuffer` and `Registration` have no liveness property.

### Where code and documentation disagree

Two runs check what a document says, and TLC finds it violated.

`lb_hung`: `load-balancer/README.md` says that the balancer "returns `502 Bad Gateway` when no
backend can serve the request". But a hung backend uses up the client's own five
seconds, so the 502 cannot be written, nor the answer of a second, healthy backend.

`proxy_close`: `reverse-proxy/README.md` says that the proxy "returns `502 Bad Gateway` for
non-timeout backend failures before response bytes reach the client", and its ADR 002 says the
same. But a backend that closes the connection before its first byte, as one does whose process
dies, gives an `io.EOF`, for which `relay` returns nil: no error is sent, and the client gets
nothing. `FailureIsReported` and its theorem say that no other failure of a backend is silent.

Observations of the same kind, without a run of their own:

- A backend that closes without a byte counts as a success in the balancer too, and the
  client gets nothing. The balancer's README says that a backend that fails before
  response bytes is skipped and another one tried.
- Errors of the client's connection put healthy backends into cooldown
  (`relayWriteError`), and another client may get a 502 for it, although ADR 002 says
  that one dead backend causes none while the other is healthy.
- Requests do not use "the available backends in round-robin order"
  (`load-balancer/README.md`): the counter rotates over all backends, so the successor of
  an unavailable one gets two requests in a row.
- The proxy's 504 is not only for a backend that "does not respond before the
  five-second deadline": a client gets one although its backend answered in time when the
  client's own five seconds are over. They run from the accept, so a slow request is not
  needed: a dial of three seconds and an answer after three more do it for a prompt client.
  `ErrorJustified` says that every other 504 comes from the backend's time running out.
- A DELETE that a server gave up on, executed after its successor at the same address
  has registered, removes the successor until it renews.
- A failed backend "is skipped for one second" (`load-balancer/README.md`), unless
  its address is removed and registered again: the cooldown is kept in the object
  that `register` replaces.
- "Removing an unknown address returns `404 Not Found`" (`load-balancer/README.md`),
  but `remove` does not prune, so an expired address answers 204 until something else
  prunes the pool.
- The proxy (and the balancer) return 400 for incomplete requests, but not for one
  that is still incomplete at the deadline, which ends the writes too.

## Proofs

`tlapm XProofs.tla`. All theorems hold for every value of the constants that
satisfies the named ASSUMEs of the modules; sets of clients, threads, keys and
values may be infinite.

*LoadBalancer.* `TypeCorrect` is inductive as it stands. `TicketsAreUnique` needs
that a connection before `claim` has no ticket (`TicketInv`). `OneAnswer` and
`Refinement` rest on `AnswerInv`: while a request is going on, the client has
received nothing, or bytes of the attempt that goes on, or it can receive nothing
any more. The last alternative is the point: after a partial write
`responseStarted` is unset and the loop goes on, and only the deadline that is
never renewed keeps the next answer from the client. `Refinement` also needs that
the offset stays below the number of objects (`OffsetInv`). `MembershipBounded`
needs that members are allocated objects (`PoolInv`), and counts with the theorems
about finite sets. `MembersLeaveByDelete` is a step property over the same invariant: an
address being listed once, the object that `remove` takes is the only one of that address
(`RemovesItsAddress`).

`RotationIsOnce` and `BadGatewayIsLast` rest on `RotationInv`: the backends with a verdict
are exactly the first `offset` stops of the rotation (`Visited`), one more while
`markFailure` is ahead, and all of them at `badGateway`. The rest is about the slice and the
index. An element's rank in a finite set is injective, and so, as many ranks as
elements, every index has one element (`RankInjective`, `AtIndex`; the library's
theorem on injections between sets of the same size in the place of an induction). `(initialIndex + k) % Size` differs for
different `k` below `Size` (`Remainder`, `WrapAround`, `StopsDiffer`), so n stops are n backends
(`VisitedCount`), and `Size` stops are all. Nothing is assumed of the pool: it changes
while the request holds its snapshot.

*ReverseProxy.* `AnswerInv` says that `responseStarted` is the truth about what the
client has received for as long as `handleConnection` may ask it; `ProxyIsGateway` follows.
`FailuresAreReported` and `ErrorsAreJustified` need `FaultInv`: the client's two deadlines
agree until one is renewed (so a 400 that cannot be written means that the deadline of
the read is over), a backend that was heard of and is read again has had its bytes passed on,
a response that was read and not passed on means that the client's deadline is over or that the
client is gone, and a timeout of a backend that was never heard of is its own.

*CacheStore.* `UniqueKeys` is inductive with the types, by what `lookup` and
`free_slot` find (`LookupFinds`, `FreeSlotFinds`, least elements by well-founded
induction on the naturals). For `StoreIsMap` the array is mapped to the entries
that are used and not expired. Discarding a stale entry does not change that
(`DiscardInvisible`). `free_slot` fails exactly if all slots are live, and then, keys
being unique, STORE_CAP keys are (`LiveCount`, by a bijection between live slots
and live keys).

*CacheServer.* Every step of the server is a step of the store or leaves it alone,
so the server implements the map too (`ServerIsMap`). `SlotsAreCounted` is inductive
once it also says that the holders are a finite set; that `active_clients` never
wraps below zero (`ServerTypeCorrect`) follows from what it counts.

*CacheAside.* Every step of the composition is a step of the cache server, so the map and
the slot count carry over (`AsideIsMap`, `AsideCountsSlots`). `CacheIsTransparent` follows
values from place to place (`HelloInv`): under CACHE_KEY the store holds nothing but the
body (`HelloStored`), so no reply on a handler's connection is another value, nor is one
in its inbox, and only requests for the cached page go by the cache. `SocketInUse` is the part one
does not think of: a handler has a connection only while it waits for a command on it. Without it
the invariant is not inductive: a reply that arrives after the handler has answered would
make it answer again.

*Registration.* `RegistrationRunsBalancer` gives the types and `PoolInv` of the registry.
`RegistrationInv` has four parts for each server and its entry in the pool.
`ThreadsOf`: the registration thread is off when the DELETE is sent, a call of each kind is
under way only where its thread is. `LeaseOf`, for `RegisteredStays`: what is left of the
lease exceeds `Wait`, the longest time until a renewal is executed or one too many has
failed. That is the rest of the call or sleep under way and `Budget`, one sleep and one
call for each failure still tolerated. A failed call spends one unit of the budget and
starts a new sleep, an execution leaves at most `OpTime` of its call; a tick takes one from the lease and one from `Wait`, because time passes
only where no thread is late; an executed PUT sets the lease to `BackendLease`, which
`TimingAssumption` makes longer than `Wait` can be. A PUT executed late only makes
a lease longer, a DELETE executed late ends the registration. `PartedOf`, for `GracefulEndIsFinal`: after
the last DELETE no call is under way or given up. `QuietOf`, for `EndedServersExpire`: a
running lease and the time since the last call are together at most `BackendLease`. The
registry's part is two lemmas, what a PUT and a DELETE do to the entry of their own address and
that they keep all others (`RegisterOne`, `DeleteOne`). `RegistryAssumption` says that there are no
static backends, as `main` insists for a balancer with a registry port.

*LineBuffer.* The inductive invariant (`BufferInv`) says that the buffer holds, from
`processed` to `pending_len`, exactly the bytes of the stream from `consumed` to `taken`,
that a line starts at `consumed`, and that none of those bytes is a newline when
`handle_client` waits for more.
The four theorems follow for every LINE_MAX, RECV_BUF and length of the stream.

*ContainerRuntime.* `Inv` adds to the properties what they rest on: where the processes
are relative to each other (`Places`: init exists once the launcher is past the clone,
SIGCHLD is not ignored from then on, nothing is pending for a process that is gone),
what a status says about its process (`Causes`), what keeps a signal from being lost
(`Carried`: the group exists before init supervises, a supervisor that has taken a
signal is about to forward it) and that init's directory is the expected one from the
second comparison on (`Entered`). Each lemma takes one group of actions through every
conjunct. The theorems hold for all four forwarded signals, any exit codes and any
number of orphans.

Every invariant and every step property that a passing run checks is also a theorem. Only
model-checked is liveness (`EveryRequestEnds`, `DisconnectFreesSlot`, `EveryConnectionDecided`,
`EveryRequestAnswered`, `SlotsComeBack`, `LauncherDeathEndsAll`, `EndIsReported`,
`SignalsArrive`, `OrphansReaped`): fairness and ENABLED are beyond the prover. The inductive
invariants were checked with TLC on the instances of the runs before they were proved.

## Not modelled, and the plan

Next are the safety halves of the liveness properties, as step properties: that a
deadline of the gateways is never put off, and that every attempt brings a request closer to
its end.

Not modelled:

- How the three request readers (`readRequest` twice, `read_request`) treat the same bytes in
  different chunks. The proxy and the HTTP server count every byte they have read, the
  balancer only those up to the end of the header once it has arrived, so a request at
  the limit may pass one and fail another, depending on what comes in one chunk with it. They occur as one step that accepts or rejects.
- The DNS server and the resolver of `client.py`. Neither keeps state between two
  packets or runs concurrently with itself: `makeResponse` and `_parse_dns_address` are
  functions of the bytes of one packet, and a lost datagram is an exception.
- The HTTP client, one blocking call after the other.
- The whole stack as one composition. `Gateway` is what the balancer is to the proxy; its
  relation to a backend's answer is only a run of bytes.

Left out for good: text parsing and formatting (URLs, headers, status lines, DNS
names beyond their classes), option parsing, and what the kernel does for the
runtime (mounts, namespaces, capabilities), which is external to this code.
