---------------------------- MODULE Registration ----------------------------
(***************************************************************************)
(* HTTP servers that register with the load balancer (serve,               *)
(* renew_registration and update_registry of http-server/server.py),       *)
(* composed with the registry of LoadBalancer.  Each address belongs to    *)
(* one server, which may end and be started again.  Its main thread serves *)
(* until it is interrupted, its registration thread renews the lease.      *)
(*                                                                         *)
(* A call to the registry is sent, executed by the registry and answered;  *)
(* the client gives up when it takes too long, and then the registry may   *)
(* still execute it later, or never.                                       *)
(***************************************************************************)
EXTENDS LoadBalancer

CONSTANTS
    Refresh,    \* REGISTRY_REFRESH, in ticks
    OpTime,     \* REGISTRY_TIMEOUT, of each operation of a socket, in ticks
    Tolerated   \* how many failed renewals in a row a lease survives

\* urlopen waits twice: for the connection, then for the answer.
CallTime == 2 * OpTime

ASSUME TimingAssumption ==
    /\ Refresh \in Nat \ {0}
    /\ OpTime \in Nat \ {0}
    /\ Tolerated \in Nat
    /\ (Tolerated + 1) * (Refresh + CallTime) + OpTime < BackendLease

\* The registry listens only when no -backend is given.
ASSUME RegistryAssumption == RegistryMode

Methods == {"PUT", "DELETE"}   \* the registration thread's, the main thread's

Longest == IF Refresh > CallTime THEN Refresh ELSE CallTime

VARIABLES
    server,      \* the main thread: "down", "up", "stopping", "leaving"
    renewal,     \* the registration thread: "off", "call", "calling", "sleep"
    call,        \* each thread's call: "none", "sent", "executed"
    timer,       \* what is left of its time, or of stop.wait
    late,        \* the kinds of given-up calls the registry may still execute
    registered,  \* history: the server serves, and its registration is in force
    missed,      \* history: renewals in a row of it that were not executed
    parted,      \* history: the registry executed this server's DELETE
    quiet        \* history: ticks since the server and its calls have ended

serverVars == <<server, renewal, call, timer, late>>
historyVars == <<registered, missed, parted, quiet>>
allVars == <<vars, serverVars, historyVars>>

RegistrationTypeOK ==
    /\ TypeOK
    /\ server \in [Addresses -> {"down", "up", "stopping", "leaving"}]
    /\ renewal \in [Addresses -> {"off", "call", "calling", "sleep"}]
    /\ call \in [Addresses -> [Methods -> {"none", "sent", "executed"}]]
    /\ timer \in [Addresses -> [Methods -> 0 .. Longest]]
    /\ late \in [Addresses -> SUBSET Methods]
    /\ registered \in [Addresses -> BOOLEAN]
    /\ missed \in [Addresses -> 0 .. Tolerated + 1]
    /\ parted \in [Addresses -> BOOLEAN]
    /\ quiet \in [Addresses -> 0 .. BackendLease]

RegistrationInit ==
    /\ Init
    /\ server = [a \in Addresses |-> "down"]
    /\ renewal = [a \in Addresses |-> "off"]
    /\ call = [a \in Addresses |-> [m \in Methods |-> "none"]]
    /\ timer = [a \in Addresses |-> [m \in Methods |-> 0]]
    /\ late = [a \in Addresses |-> {}]
    /\ registered = [a \in Addresses |-> FALSE]
    /\ missed = [a \in Addresses |-> 0]
    /\ parted = [a \in Addresses |-> FALSE]
    /\ quiet = [a \in Addresses |-> 0]

\* The address is listed, and its lease runs.
Member(a) == \E b \in pool : address[b] = a /\ Live(b)

-----------------------------------------------------------------------------
\* update_registry, which both threads call.

Send(a, m) ==
    /\ call' = [call EXCEPT ![a][m] = "sent"]
    /\ timer' = [timer EXCEPT ![a][m] = CallTime]

\* The process ends: what it has sent may still be executed.
Down(a) ==
    /\ server' = [server EXCEPT ![a] = "down"]
    /\ renewal' = [renewal EXCEPT ![a] = "off"]
    /\ call' = [call EXCEPT ![a] = [m \in Methods |-> "none"]]
    /\ timer' = [timer EXCEPT ![a] = [m \in Methods |-> 0]]
    /\ late' = [late EXCEPT ![a] = @ \cup {m \in Methods : call[a][m] = "sent"}]

\* Mutant: the thread waits for twice as long.
MutantReturn(a, m) ==
    \/ /\ m = "PUT"
       /\ call' = [call EXCEPT ![a][m] = "none"]
       /\ renewal' = [renewal EXCEPT ![a] = "sleep"]
       /\ timer' = [timer EXCEPT ![a][m] = 2 * Refresh]
       /\ late' = [late EXCEPT ![a] = IF call[a][m] = "sent" THEN @ \cup {m} ELSE @]
       /\ UNCHANGED server
    \/ m = "DELETE" /\ Down(a)

\* A call ends, with an answer or with an error, which is only reported: the
\* registration thread goes to stop.wait, the main thread leaves serve.
Return(a, m) ==
    \/ /\ m = "PUT"
       /\ call' = [call EXCEPT ![a][m] = "none"]
       /\ renewal' = [renewal EXCEPT ![a] = "sleep"]
       /\ timer' = [timer EXCEPT ![a][m] = Refresh]
       /\ late' = [late EXCEPT ![a] = IF call[a][m] = "sent" THEN @ \cup {m} ELSE @]
       /\ UNCHANGED server
    \/ m = "DELETE" /\ Down(a)

\* A renewal the registry has not executed in time.
Miss(a, m) ==
    missed' = [missed EXCEPT ![a] =
                 IF m = "PUT" /\ call[a][m] = "sent" /\ server[a] = "up" /\ @ <= Tolerated
                 THEN @ + 1 ELSE @]

answered(a, m) ==
    /\ call[a][m] = "executed"
    /\ Return(a, m)
    /\ UNCHANGED <<vars, historyVars>>

\* An error before the answer, at the latest the timeout.  What has been sent
\* may still be executed.
call_fails(a, m) ==
    /\ call[a][m] # "none"
    /\ Return(a, m)
    /\ Miss(a, m)
    /\ UNCHANGED <<vars, registered, parted, quiet>>

-----------------------------------------------------------------------------
\* renew_registration.

\* The loop ends when stop is set, or sends a PUT.
renew(a) ==
    /\ renewal[a] = "call"
    /\ \/ /\ server[a] = "up"
          /\ renewal' = [renewal EXCEPT ![a] = "calling"]
          /\ Send(a, "PUT")
       \/ /\ server[a] # "up"
          /\ renewal' = [renewal EXCEPT ![a] = "off"]
          /\ UNCHANGED <<call, timer>>
    /\ UNCHANGED <<vars, server, late, historyVars>>

\* stop.wait returns after Refresh, or when stop is set.
wake(a) ==
    /\ renewal[a] = "sleep"
    /\ timer[a]["PUT"] = 0 \/ server[a] # "up"
    /\ renewal' = [renewal EXCEPT ![a] = "call"]
    /\ timer' = [timer EXCEPT ![a]["PUT"] = 0]
    /\ UNCHANGED <<vars, server, call, late, historyVars>>

-----------------------------------------------------------------------------
\* serve.

\* The listener is bound, the registration thread started.
start(a) ==
    /\ server[a] = "down"
    /\ server' = [server EXCEPT ![a] = "up"]
    /\ renewal' = [renewal EXCEPT ![a] = "call"]
    /\ registered' = [registered EXCEPT ![a] = FALSE]
    /\ missed' = [missed EXCEPT ![a] = 0]
    /\ parted' = [parted EXCEPT ![a] = FALSE]
    /\ quiet' = [quiet EXCEPT ![a] = 0]
    /\ UNCHANGED <<vars, call, timer, late>>

\* The server serves no longer, and is promised nothing.
EndService(a) ==
    /\ registered' = [registered EXCEPT ![a] = FALSE]
    /\ missed' = [missed EXCEPT ![a] = 0]

\* The accept loop is interrupted; finally sets stop.
interrupt(a) ==
    /\ server[a] = "up"
    /\ server' = [server EXCEPT ![a] = "stopping"]
    /\ EndService(a)
    /\ UNCHANGED <<vars, renewal, call, timer, late, parted, quiet>>

\* Mutant: the registration thread is not joined.
MutantUnregister(a) ==
    /\ server[a] = "stopping"
    /\ server' = [server EXCEPT ![a] = "leaving"]
    /\ Send(a, "DELETE")
    /\ UNCHANGED <<vars, renewal, late, historyVars>>

\* registration.join() has returned: send the DELETE.
unregister(a) ==
    /\ server[a] = "stopping"
    /\ renewal[a] = "off"
    /\ server' = [server EXCEPT ![a] = "leaving"]
    /\ Send(a, "DELETE")
    /\ UNCHANGED <<vars, renewal, late, historyVars>>

\* The process is killed, at any point.
crash(a) ==
    /\ server[a] # "down"
    /\ Down(a)
    /\ EndService(a)
    /\ UNCHANGED <<vars, parted, quiet>>

-----------------------------------------------------------------------------
\* The registry executes a call.

\* A call that is executed has its connection: only the answer is waited for.
AwaitAnswer(a, m) ==
    timer' = [timer EXCEPT ![a][m] = IF @ > OpTime THEN OpTime ELSE @]

\* DELETE of an address that is not listed answers 404 and changes nothing.
Delete(a) ==
    \/ remove(a)
    \/ removeStatus(a) = 404 /\ UNCHANGED vars

execute(a) ==
    /\ \/ /\ call[a]["PUT"] = "sent"
          /\ register(a)
          /\ call' = [call EXCEPT ![a]["PUT"] = "executed"]
          /\ AwaitAnswer(a, "PUT")
          /\ registered' = [registered EXCEPT ![a] =
                              server[a] = "up" /\ registerStatus(a) = 204]
          /\ missed' = [missed EXCEPT ![a] = 0]
          /\ UNCHANGED parted
       \/ /\ call[a]["DELETE"] = "sent"
          /\ Delete(a)
          /\ call' = [call EXCEPT ![a]["DELETE"] = "executed"]
          /\ AwaitAnswer(a, "DELETE")
          /\ parted' = [parted EXCEPT ![a] = late[a] = {}]
          /\ UNCHANGED <<registered, missed>>
    /\ UNCHANGED <<server, renewal, late, quiet>>

\* A call its sender gave up on.  late keeps its kind, as more such calls may
\* be under way, until drop_late.  A DELETE of a server that ended may so undo
\* the registration of the one that followed it at the same address.
execute_late(a) ==
    /\ \/ /\ "PUT" \in late[a]
          /\ register(a)
          /\ UNCHANGED registered
       \/ /\ "DELETE" \in late[a]
          /\ Delete(a)
          /\ registered' = [registered EXCEPT ![a] = FALSE]
    /\ UNCHANGED <<server, renewal, call, timer, late, missed, parted, quiet>>

\* The calls of a kind are all executed, or lost.
drop_late(a) ==
    /\ \E m \in late[a] : late' = [late EXCEPT ![a] = @ \ {m}]
    /\ UNCHANGED <<vars, server, renewal, call, timer, historyVars>>

\* Threads are on time: what is due happens before time goes on.
Due(a) ==
    \/ renewal[a] = "call"
    \/ renewal[a] = "sleep" /\ timer[a]["PUT"] = 0
    \/ \E m \in Methods : call[a][m] # "none" /\ timer[a][m] = 0

Pass ==
    /\ \A a \in Addresses : ~Due(a)
    /\ Tick
    /\ timer' = [a \in Addresses |-> [m \in Methods |-> Less(timer[a][m])]]
    /\ quiet' = [a \in Addresses |->
                   IF server[a] # "down" \/ late[a] # {} THEN 0
                   ELSE IF quiet[a] < BackendLease THEN quiet[a] + 1 ELSE quiet[a]]
    /\ UNCHANGED <<server, renewal, call, late, registered, missed, parted>>

RegistrationNext ==
    \/ Pass
    \/ list /\ UNCHANGED <<serverVars, historyVars>>
    \/ \E a \in Addresses :
        \/ start(a) \/ interrupt(a) \/ unregister(a) \/ crash(a)
        \/ renew(a) \/ wake(a)
        \/ \E m \in Methods : answered(a, m) \/ call_fails(a, m)
        \/ execute(a) \/ execute_late(a) \/ drop_late(a)

RegistrationSpec == RegistrationInit /\ [][RegistrationNext]_allVars

-----------------------------------------------------------------------------
\* A serving backend that is registered stays listed as long as no more than
\* Tolerated renewals in a row fail, however long each call takes: a lease
\* outlasts the calls and the sleeps between two renewals.
StaysMember ==
    \A a \in Addresses :
        server[a] = "up" /\ registered[a] /\ missed[a] <= Tolerated => Member(a)

\* After a graceful end whose DELETE was executed when no earlier call was
\* under way, the address is gone for good: registration.join keeps a PUT
\* from following the DELETE.
GracefulEndRemoves ==
    \A a \in Addresses : parted[a] /\ server[a] = "down" => ~Member(a)

\* An ended server is forgotten at the latest one lease after the registry
\* is done with its calls, though no one tells the registry of its end.
EndedIsForgotten ==
    \A a \in Addresses : quiet[a] = BackendLease => ~Member(a)
=============================================================================
