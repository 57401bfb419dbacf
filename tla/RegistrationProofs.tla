------------------------- MODULE RegistrationProofs -------------------------
(***************************************************************************)
(* Theorems about Registration, for any number of servers and every lease, *)
(* refresh interval and socket timeout that TimingAssumption allows.       *)
(***************************************************************************)
EXTENDS Registration, LoadBalancerProofs

-----------------------------------------------------------------------------
\* Every step of the composition is a step of the balancer, or leaves it
\* alone: what is proved of the pool holds here.

LEMMA RegistrationStepsBalancer == [RegistrationNext]_allVars => [Next]_vars
<1> SUFFICES ASSUME [RegistrationNext]_allVars PROVE [Next]_vars
  OBVIOUS
<1>1. CASE Pass \/ (list /\ UNCHANGED <<serverVars, historyVars>>) \/ UNCHANGED allVars
  BY <1>1 DEF Pass, allVars, Next, Registry
<1>2. ASSUME NEW a \in Addresses, execute(a) \/ execute_late(a) PROVE [Next]_vars
  BY <1>2 DEF execute, execute_late, Delete, Next, Registry
<1>3. ASSUME NEW a \in Addresses,
             start(a) \/ interrupt(a) \/ unregister(a) \/ crash(a) \/ renew(a) \/ wake(a) \/ drop_late(a)
      PROVE  UNCHANGED vars
  BY <1>3 DEF start, interrupt, unregister, crash, renew, wake, drop_late
<1>4. ASSUME NEW a \in Addresses, NEW m \in Methods, answered(a, m) \/ call_fails(a, m)
      PROVE  UNCHANGED vars
  BY <1>4 DEF answered, call_fails
<1> QED BY <1>1, <1>2, <1>3, <1>4 DEF RegistrationNext

LEMMA RegistrationRunsBalancer == RegistrationSpec => Spec
BY RegistrationStepsBalancer, PTL DEF RegistrationSpec, RegistrationInit, Spec

-----------------------------------------------------------------------------
\* Typing of the servers' state.

ServerTypes ==
    /\ server \in [Addresses -> {"down", "up", "stopping", "leaving"}]
    /\ renewal \in [Addresses -> {"off", "call", "calling", "sleep"}]
    /\ call \in [Addresses -> [Methods -> {"none", "sent", "executed"}]]
    /\ timer \in [Addresses -> [Methods -> 0 .. Longest]]
    /\ late \in [Addresses -> SUBSET Methods]
    /\ registered \in [Addresses -> BOOLEAN]
    /\ missed \in [Addresses -> 0 .. Tolerated + 1]
    /\ parted \in [Addresses -> BOOLEAN]
    /\ quiet \in [Addresses -> 0 .. BackendLease]

LEMMA TimeTypes ==
    /\ Refresh \in Nat \ {0} /\ CallTime \in Nat \ {0} /\ Tolerated \in Nat
    /\ OpTime \in Nat \ {0} /\ OpTime <= CallTime /\ BackendLease \in Nat \ {0}
    /\ Longest \in Nat /\ Refresh \in 0 .. Longest /\ CallTime \in 0 .. Longest /\ 0 \in 0 .. Longest
    /\ 0 \in 0 .. Tolerated + 1 /\ 0 \in 0 .. BackendLease
<1>1. /\ Refresh \in Nat \ {0} /\ OpTime \in Nat \ {0} /\ Tolerated \in Nat
      /\ BackendLease \in Nat \ {0}
  BY TimingAssumption, ConstantsAssumption DEF TimingAssumption, ConstantsAssumption
<1>2. CallTime \in Nat \ {0} /\ OpTime <= CallTime
  BY <1>1 DEF CallTime
<1> QED BY <1>1, <1>2 DEF Longest

\* An update of one of a server's two calls or timers.
LEMMA OneOfTwo ==
    ASSUME NEW S, NEW f \in [Addresses -> [Methods -> S]], NEW a \in Addresses,
           NEW m \in Methods, NEW v \in S
    PROVE  /\ [f EXCEPT ![a][m] = v] \in [Addresses -> [Methods -> S]]
           /\ [f EXCEPT ![a][m] = v][a][m] = v
           /\ \A n \in Methods \ {m} : [f EXCEPT ![a][m] = v][a][n] = f[a][n]
           /\ \A d \in Addresses \ {a} : [f EXCEPT ![a][m] = v][d] = f[d]
<1> DEFINE g == [f EXCEPT ![a][m] = v]
<1>1. g[a] = [f[a] EXCEPT ![m] = v] /\ \A d \in Addresses \ {a} : g[d] = f[d]
  OBVIOUS
<1>2. g[a] \in [Methods -> S] /\ g[a][m] = v /\ \A n \in Methods \ {m} : g[a][n] = f[a][n]
  BY <1>1
<1>3. g \in [Addresses -> [Methods -> S]]
  BY <1>1, <1>2
<1> QED BY <1>1, <1>2, <1>3

LEMMA MethodNames == "PUT" \in Methods /\ "DELETE" \in Methods /\ Methods = {"PUT", "DELETE"}
BY DEF Methods

\* The steps of one server leave the others' state alone.
SameServer(d) ==
    /\ server'[d] = server[d] /\ renewal'[d] = renewal[d] /\ call'[d] = call[d]
    /\ timer'[d] = timer[d] /\ late'[d] = late[d] /\ registered'[d] = registered[d]
    /\ missed'[d] = missed[d] /\ parted'[d] = parted[d] /\ quiet'[d] = quiet[d]

LEMMA DownType ==
    ASSUME ServerTypes, NEW a \in Addresses, Down(a)
    PROVE  /\ server' \in [Addresses -> {"down", "up", "stopping", "leaving"}]
           /\ renewal' \in [Addresses -> {"off", "call", "calling", "sleep"}]
           /\ call' \in [Addresses -> [Methods -> {"none", "sent", "executed"}]]
           /\ timer' \in [Addresses -> [Methods -> 0 .. Longest]]
           /\ late' \in [Addresses -> SUBSET Methods]
           /\ \A d \in Addresses \ {a} :
                /\ server'[d] = server[d] /\ renewal'[d] = renewal[d] /\ call'[d] = call[d]
                /\ timer'[d] = timer[d] /\ late'[d] = late[d]
<1>1. [m \in Methods |-> "none"] \in [Methods -> {"none", "sent", "executed"}]
  OBVIOUS
<1>2. [m \in Methods |-> 0] \in [Methods -> 0 .. Longest]
  BY TimeTypes
<1>3. late[a] \cup {m \in Methods : call[a][m] = "sent"} \in SUBSET Methods
  BY DEF ServerTypes
<1> QED BY <1>1, <1>2, <1>3 DEF ServerTypes, Down

LEMMA ReturnType ==
    ASSUME ServerTypes, NEW a \in Addresses, NEW m \in Methods, Return(a, m)
    PROVE  /\ server' \in [Addresses -> {"down", "up", "stopping", "leaving"}]
           /\ renewal' \in [Addresses -> {"off", "call", "calling", "sleep"}]
           /\ call' \in [Addresses -> [Methods -> {"none", "sent", "executed"}]]
           /\ timer' \in [Addresses -> [Methods -> 0 .. Longest]]
           /\ late' \in [Addresses -> SUBSET Methods]
           /\ \A d \in Addresses \ {a} :
                /\ server'[d] = server[d] /\ renewal'[d] = renewal[d] /\ call'[d] = call[d]
                /\ timer'[d] = timer[d] /\ late'[d] = late[d]
<1>1. CASE Down(a)
  BY <1>1, DownType
<1>2. CASE /\ call' = [call EXCEPT ![a][m] = "none"]
           /\ renewal' = [renewal EXCEPT ![a] = "sleep"]
           /\ timer' = [timer EXCEPT ![a][m] = Refresh]
           /\ late' = [late EXCEPT ![a] = IF call[a][m] = "sent" THEN @ \cup {m} ELSE @]
           /\ UNCHANGED server
  <2>1. /\ call' \in [Addresses -> [Methods -> {"none", "sent", "executed"}]]
        /\ \A d \in Addresses \ {a} : call'[d] = call[d]
    BY <1>2, OneOfTwo DEF ServerTypes
  <2>2. /\ timer' \in [Addresses -> [Methods -> 0 .. Longest]]
        /\ \A d \in Addresses \ {a} : timer'[d] = timer[d]
    BY <1>2, OneOfTwo, TimeTypes DEF ServerTypes
  <2> QED BY <1>2, <2>1, <2>2 DEF ServerTypes
<1> QED BY <1>1, <1>2 DEF Return

LEMMA SendType ==
    ASSUME ServerTypes, NEW a \in Addresses, NEW m \in Methods, Send(a, m)
    PROVE  /\ call' \in [Addresses -> [Methods -> {"none", "sent", "executed"}]]
           /\ timer' \in [Addresses -> [Methods -> 0 .. Longest]]
           /\ call'[a][m] = "sent" /\ timer'[a][m] = CallTime
           /\ \A n \in Methods \ {m} : call'[a][n] = call[a][n] /\ timer'[a][n] = timer[a][n]
           /\ \A d \in Addresses \ {a} : call'[d] = call[d] /\ timer'[d] = timer[d]
BY OneOfTwo, TimeTypes DEF ServerTypes, Send

\* The time that is left of a call, once it is executed.
LEMMA AwaitSteps ==
    ASSUME ServerTypes, NEW a \in Addresses, NEW m \in Methods, AwaitAnswer(a, m)
    PROVE  /\ timer' \in [Addresses -> [Methods -> 0 .. Longest]]
           /\ timer'[a][m] <= OpTime /\ timer'[a][m] <= timer[a][m]
           /\ \A n \in Methods \ {m} : timer'[a][n] = timer[a][n]
           /\ \A d \in Addresses \ {a} : timer'[d] = timer[d]
<1>1. PICK left : left = IF timer[a][m] > OpTime THEN OpTime ELSE timer[a][m]
  OBVIOUS
<1>2. timer[a][m] \in 0 .. Longest
  BY DEF ServerTypes
<1>3. left \in 0 .. Longest /\ left <= OpTime /\ left <= timer[a][m]
  BY <1>1, <1>2, TimeTypes
<1>4. timer' = [timer EXCEPT ![a][m] = left]
  BY <1>1 DEF AwaitAnswer, ServerTypes
<1> QED BY <1>3, <1>4, OneOfTwo DEF ServerTypes

\* The actions of one server and of its calls.
ServerAction(a) ==
    \/ start(a) \/ interrupt(a) \/ unregister(a) \/ crash(a) \/ renew(a) \/ wake(a)
    \/ \E m \in Methods : answered(a, m) \/ call_fails(a, m)
    \/ execute(a) \/ execute_late(a) \/ drop_late(a)

LEMMA ServerActionType ==
    ASSUME ServerTypes, NEW a \in Addresses, ServerAction(a)
    PROVE  ServerTypes' /\ \A d \in Addresses \ {a} : SameServer(d)
<1>1. CASE start(a)
  BY <1>1, TimeTypes DEF start, ServerTypes, SameServer
<1>2. CASE interrupt(a)
  BY <1>2, TimeTypes DEF interrupt, EndService, ServerTypes, SameServer
<1>3. CASE unregister(a)
  <2>1. /\ server' = [server EXCEPT ![a] = "leaving"] /\ Send(a, "DELETE")
        /\ UNCHANGED <<renewal, late, registered, missed, parted, quiet>>
    BY <1>3 DEF unregister, historyVars
  <2> QED BY <2>1, SendType, MethodNames DEF ServerTypes, SameServer
<1>4. CASE crash(a)
  <2>1. Down(a) /\ UNCHANGED <<parted, quiet>>
    BY <1>4 DEF crash
  <2>2. /\ registered' \in [Addresses -> BOOLEAN] /\ missed' \in [Addresses -> 0 .. Tolerated + 1]
        /\ \A d \in Addresses \ {a} : registered'[d] = registered[d] /\ missed'[d] = missed[d]
    BY <1>4, TimeTypes DEF crash, EndService, ServerTypes
  <2> QED BY <2>1, <2>2, DownType DEF ServerTypes, SameServer
<1>5. CASE renew(a)
  <2>1. UNCHANGED <<server, late, registered, missed, parted, quiet>>
    BY <1>5 DEF renew, historyVars
  <2>2. CASE renewal' = [renewal EXCEPT ![a] = "calling"] /\ Send(a, "PUT")
    BY <2>1, <2>2, SendType, MethodNames DEF ServerTypes, SameServer
  <2>3. CASE renewal' = [renewal EXCEPT ![a] = "off"] /\ UNCHANGED <<call, timer>>
    BY <2>1, <2>3 DEF ServerTypes, SameServer
  <2> QED BY <1>5, <2>2, <2>3 DEF renew
<1>6. CASE wake(a)
  <2>1. /\ timer' \in [Addresses -> [Methods -> 0 .. Longest]]
        /\ \A d \in Addresses \ {a} : timer'[d] = timer[d]
    BY <1>6, OneOfTwo, TimeTypes, MethodNames DEF wake, ServerTypes
  <2>2. /\ renewal' = [renewal EXCEPT ![a] = "call"]
        /\ UNCHANGED <<server, call, late, registered, missed, parted, quiet>>
    BY <1>6 DEF wake, historyVars
  <2> QED BY <2>1, <2>2 DEF ServerTypes, SameServer
<1>7. ASSUME NEW m \in Methods, answered(a, m) PROVE ServerTypes' /\ \A d \in Addresses \ {a} : SameServer(d)
  <2>1. Return(a, m) /\ UNCHANGED <<registered, missed, parted, quiet>>
    BY <1>7 DEF answered, historyVars
  <2> QED BY <2>1, ReturnType DEF ServerTypes, SameServer
<1>8. ASSUME NEW m \in Methods, call_fails(a, m) PROVE ServerTypes' /\ \A d \in Addresses \ {a} : SameServer(d)
  <2>1. Return(a, m) /\ Miss(a, m) /\ UNCHANGED <<registered, parted, quiet>>
    BY <1>8 DEF call_fails
  <2>2. /\ missed' \in [Addresses -> 0 .. Tolerated + 1]
        /\ \A d \in Addresses \ {a} : missed'[d] = missed[d]
    <3>1. missed[a] <= Tolerated => missed[a] + 1 \in 0 .. Tolerated + 1
      BY TimeTypes DEF ServerTypes
    <3> QED BY <2>1, <3>1 DEF Miss, ServerTypes
  <2> QED BY <2>1, <2>2, ReturnType DEF ServerTypes, SameServer
<1>9. CASE execute(a)
  <2>1. UNCHANGED <<server, renewal, late, quiet>>
    BY <1>9 DEF execute
  <2>2. PICK m \in Methods : call' = [call EXCEPT ![a][m] = "executed"] /\ AwaitAnswer(a, m)
    BY <1>9, MethodNames DEF execute
  <2>8. /\ timer' \in [Addresses -> [Methods -> 0 .. Longest]]
        /\ \A d \in Addresses \ {a} : timer'[d] = timer[d]
    BY <2>2, AwaitSteps
  <2>3. /\ call' \in [Addresses -> [Methods -> {"none", "sent", "executed"}]]
        /\ \A d \in Addresses \ {a} : call'[d] = call[d]
    BY <2>2, OneOfTwo DEF ServerTypes
  <2>4. /\ (\E v \in BOOLEAN : registered' = [registered EXCEPT ![a] = v]) \/ UNCHANGED registered
        /\ missed' = [missed EXCEPT ![a] = 0] \/ UNCHANGED missed
        /\ (\E v \in BOOLEAN : parted' = [parted EXCEPT ![a] = v]) \/ UNCHANGED parted
    BY <1>9 DEF execute
  <2>5. /\ registered' \in [Addresses -> BOOLEAN]
        /\ \A d \in Addresses \ {a} : registered'[d] = registered[d]
    BY <2>4 DEF ServerTypes
  <2>6. /\ missed' \in [Addresses -> 0 .. Tolerated + 1]
        /\ \A d \in Addresses \ {a} : missed'[d] = missed[d]
    BY <2>4, TimeTypes DEF ServerTypes
  <2>7. /\ parted' \in [Addresses -> BOOLEAN]
        /\ \A d \in Addresses \ {a} : parted'[d] = parted[d]
    BY <2>4 DEF ServerTypes
  <2> QED BY <2>1, <2>3, <2>5, <2>6, <2>7, <2>8 DEF ServerTypes, SameServer
<1>10. CASE execute_late(a)
  <2>1. UNCHANGED <<server, renewal, call, timer, late, missed, parted, quiet>>
    BY <1>10 DEF execute_late
  <2>2. UNCHANGED registered \/ registered' = [registered EXCEPT ![a] = FALSE]
    BY <1>10 DEF execute_late
  <2>3. /\ registered' \in [Addresses -> BOOLEAN]
        /\ \A d \in Addresses \ {a} : registered'[d] = registered[d]
    BY <2>2 DEF ServerTypes
  <2> QED BY <2>1, <2>3 DEF ServerTypes, SameServer
<1>11. CASE drop_late(a)
  <2>1. /\ \E m \in late[a] : late' = [late EXCEPT ![a] = @ \ {m}]
        /\ UNCHANGED <<server, renewal, call, timer, registered, missed, parted, quiet>>
    BY <1>11 DEF drop_late, historyVars
  <2> QED BY <2>1 DEF ServerTypes, SameServer
<1> QED BY <1>1, <1>2, <1>3, <1>4, <1>5, <1>6, <1>7, <1>8, <1>9, <1>10, <1>11 DEF ServerAction

LEMMA PassType == ServerTypes /\ Pass => ServerTypes'
<1> SUFFICES ASSUME ServerTypes, Pass PROVE ServerTypes'
  OBVIOUS
<1>1. \A a \in Addresses, m \in Methods : Less(timer[a][m]) \in 0 .. Longest
  BY TimeTypes DEF ServerTypes, Less
<1>2. timer' \in [Addresses -> [Methods -> 0 .. Longest]]
  BY <1>1 DEF Pass
<1>3. quiet' \in [Addresses -> 0 .. BackendLease]
  <2>1. \A a \in Addresses : quiet[a] < BackendLease => quiet[a] + 1 \in 0 .. BackendLease
    BY TimeTypes DEF ServerTypes
  <2> QED BY <2>1, TimeTypes DEF Pass, ServerTypes
<1> QED BY <1>2, <1>3 DEF Pass, ServerTypes

-----------------------------------------------------------------------------
\* The inductive invariant, for each server and its entry in the registry.

\* The longest a lease has to last for a server that has missed m renewals
\* in a row, beyond the call or the sleep in progress.
Budget(m) == (Tolerated - m) * (Refresh + CallTime)

\* How long it may take until a renewal is executed, or one more than the
\* tolerated number has failed.
Wait(a) ==
    Budget(missed[a]) +
    IF renewal[a] = "calling"
    THEN timer[a]["PUT"] + (IF call[a]["PUT"] = "sent" THEN 0 ELSE Refresh + CallTime)
    ELSE CallTime + (IF renewal[a] = "sleep" THEN timer[a]["PUT"] ELSE 0)

\* The two threads of a server, and their calls.
ThreadsOf(a) ==
    /\ server[a] = "down" => renewal[a] = "off"
    /\ server[a] = "up" => renewal[a] # "off"
    /\ server[a] = "leaving" => renewal[a] = "off"
    /\ renewal[a] = "calling" <=> call[a]["PUT"] # "none"
    /\ renewal[a] = "calling" => timer[a]["PUT"] <= CallTime
    /\ call[a]["DELETE"] # "none" => server[a] = "leaving"

\* What is left of the lease outlasts that time.
LeaseOf(a) ==
    server[a] = "up" /\ registered[a] /\ missed[a] <= Tolerated =>
        \E b \in pool : address[b] = a /\ leaseLeft[b] > Wait(a)

\* Once the last DELETE is executed, no call is under way that would list
\* the address again.
PartedOf(a) ==
    parted[a] =>
        /\ server[a] \in {"leaving", "down"}
        /\ call[a]["DELETE"] # "sent" /\ late[a] = {}
        /\ Removable(a) = {}

\* A lease that no one renews is as much shorter as it has been quiet.
QuietOf(a) ==
    /\ quiet[a] > 0 => server[a] = "down" /\ late[a] = {}
    /\ \A b \in Removable(a) :
        /\ leaseLeft[b] \in 0 .. BackendLease
        /\ leaseLeft[b] > 0 => leaseLeft[b] + quiet[a] <= BackendLease

RegistrationOf(a) == ThreadsOf(a) /\ LeaseOf(a) /\ PartedOf(a) /\ QuietOf(a)

RegistrationInv ==
    \A a \in Addresses : RegistrationOf(a)

-----------------------------------------------------------------------------
\* How the waiting time shrinks.

LEMMA BudgetSteps ==
    /\ \A m \in 0 .. Tolerated : Budget(m) \in Nat
    /\ \A m \in Nat : m + 1 <= Tolerated => Budget(m) = Budget(m + 1) + Refresh + CallTime
    /\ Budget(0) + Refresh + CallTime + OpTime < BackendLease
<1> DEFINE P == Refresh + CallTime
<1>1. P \in Nat /\ Tolerated \in Nat /\ CallTime \in Nat /\ OpTime \in Nat /\ Refresh \in Nat
  BY TimeTypes
<1>2. (Tolerated + 1) * P + OpTime < BackendLease
  BY TimingAssumption DEF TimingAssumption
<1>3. \A m : Budget(m) = (Tolerated - m) * P
  BY DEF Budget
<1>4. P = Refresh + CallTime
  OBVIOUS
<1> HIDE DEF P
<1>5. \A m \in 0 .. Tolerated : Tolerated - m \in Nat
  BY <1>1
<1>6. \A j, k \in Nat : j * k \in Nat /\ (j + 1) * k = j * k + k
  OBVIOUS
<1>7. \A m \in 0 .. Tolerated : Budget(m) \in Nat
  BY <1>1, <1>3, <1>5, <1>6
<1>8. ASSUME NEW m \in Nat, m + 1 <= Tolerated
      PROVE  Budget(m) = Budget(m + 1) + Refresh + CallTime
  <2>1. PICK j \in Nat : j = Tolerated - (m + 1) /\ Tolerated - m = j + 1
    <3>1. Tolerated - (m + 1) \in Nat /\ Tolerated - m = (Tolerated - (m + 1)) + 1
      BY <1>1, <1>8
    <3> QED BY <3>1
  <2>2. Budget(m + 1) = j * P /\ Budget(m) = (j + 1) * P
    BY <1>3, <2>1
  <2>3. (j + 1) * P = j * P + P /\ j * P \in Nat
    BY <1>1, <1>6
  <2> QED BY <1>1, <1>4, <2>2, <2>3
<1>9. Budget(0) + Refresh + CallTime + OpTime < BackendLease
  <2>1. Budget(0) = Tolerated * P
    BY <1>1, <1>3
  <2>2. (Tolerated + 1) * P = Tolerated * P + P /\ Tolerated * P \in Nat
    BY <1>1, <1>6
  <2> QED BY <1>1, <1>2, <1>4, <2>1, <2>2, TimeTypes
<1> QED BY <1>7, <1>8, <1>9

LEMMA WaitType ==
    ASSUME ServerTypes, NEW a \in Addresses, missed[a] <= Tolerated
    PROVE  Wait(a) \in Nat
<1>1. missed[a] \in 0 .. Tolerated /\ timer[a]["PUT"] \in Nat
  BY TimeTypes, MethodNames DEF ServerTypes
<1>2. Budget(missed[a]) \in Nat
  BY <1>1, BudgetSteps
<1> QED BY <1>1, <1>2, TimeTypes DEF Wait

LEMMA WaitNext ==
    ASSUME NEW a
    PROVE  Wait(a)' = Budget(missed'[a]) +
                (IF renewal'[a] = "calling"
                 THEN timer'[a]["PUT"] + (IF call'[a]["PUT"] = "sent" THEN 0 ELSE Refresh + CallTime)
                 ELSE CallTime + (IF renewal'[a] = "sleep" THEN timer'[a]["PUT"] ELSE 0))
BY DEF Wait, Budget

-----------------------------------------------------------------------------
\* What the registry does to the entry of an address.

\* The entry stays as it is, except that it may be pruned once expired.
Keeps(d) ==
    /\ \A b \in pool : address[b] = d /\ Live(b) =>
            b \in pool' /\ address'[b] = d /\ leaseLeft'[b] = leaseLeft[b]
    /\ \A b \in pool' : address'[b] = d =>
            b \in pool /\ address[b] = d /\ leaseLeft'[b] = leaseLeft[b]

LEMMA UnchangedKeeps == ASSUME UNCHANGED vars, NEW d PROVE Keeps(d)
BY DEF vars, poolVars, Keeps

LEMMA ListKeeps == ASSUME list, NEW d PROVE Keeps(d)
BY DEF list, pruneExpired, Keeps

\* A PUT of an address.
LEMMA RegisterOne ==
    ASSUME TypeOK, PoolInv, NEW a \in Addresses, register(a)
    PROVE  /\ \A d \in Addresses \ {a} : Keeps(d)
           /\ \A b \in pool' : address'[b] = a => leaseLeft'[b] = BackendLease
           /\ registerStatus(a) = 204 => \E b \in pool' : address'[b] = a
           /\ (\E b \in pool : address[b] = a /\ Live(b)) => registerStatus(a) = 204
<1>0. (\E b \in pool : address[b] = a /\ Live(b)) => registerStatus(a) = 204
  BY DEF registerStatus, Registered, pruneExpired
<1>1. CASE /\ Registered(a) # {}
           /\ pool' = pruneExpired
           /\ leaseLeft' = [b \in Backends |->
                              IF b \in Registered(a) THEN BackendLease ELSE leaseLeft[b]]
           /\ UNCHANGED <<allocated, address, retryIn>>
  BY <1>0, <1>1 DEF Keeps, Registered, pruneExpired, TypeOK
<1>2. CASE /\ Registered(a) = {}
           /\ registerStatus(a) = 204
           /\ allocated < MaxObjects
           /\ allocated' = allocated + 1
           /\ pool' = pruneExpired \cup {allocated'}
           /\ address' = [address EXCEPT ![allocated'] = a]
           /\ retryIn' = [retryIn EXCEPT ![allocated'] = 0]
           /\ leaseLeft' = [leaseLeft EXCEPT ![allocated'] = BackendLease]
  <2>1. allocated' \in Backends /\ allocated' \notin pool
    BY <1>2, ConstantTypes DEF PoolInv, TypeOK, Backends
  <2>2. address'[allocated'] = a /\ leaseLeft'[allocated'] = BackendLease
    BY <1>2, <2>1 DEF TypeOK
  <2>3. \A b \in pool : address'[b] = address[b] /\ leaseLeft'[b] = leaseLeft[b]
    BY <1>2, <2>1 DEF TypeOK
  <2>4. \A d \in Addresses \ {a} : Keeps(d)
    BY <1>2, <2>2, <2>3 DEF Keeps, pruneExpired
  <2>5. \A b \in pool' : address'[b] = a => b = allocated'
    BY <1>2, <2>3 DEF Registered, pruneExpired
  <2>6. allocated' \in pool'
    BY <1>2
  <2> QED BY <1>0, <2>2, <2>4, <2>5, <2>6
<1>3. CASE /\ registerStatus(a) = 409
           /\ pool' = pruneExpired
           /\ UNCHANGED <<allocated, address, retryIn, leaseLeft>>
  <2>1. Registered(a) = {} /\ registerStatus(a) # 204
    BY <1>3 DEF registerStatus
  <2> QED BY <1>0, <1>3, <2>1 DEF Keeps, Registered, pruneExpired
<1> QED BY <1>1, <1>2, <1>3 DEF register

\* A DELETE of an address.
LEMMA DeleteOne ==
    ASSUME TypeOK, PoolInv, NEW a \in Addresses, Delete(a)
    PROVE  Removable(a)' = {} /\ \A d \in Addresses \ {a} : Keeps(d)
<1>1. CASE removeStatus(a) = 404 /\ UNCHANGED vars
  BY <1>1, UnchangedKeeps DEF removeStatus, Removable, vars, poolVars
<1>2. CASE remove(a)
  <2>1. Removable(a) # {} /\ AddressesDistinct
    BY <1>2 DEF remove, removeStatus, PoolInv, Membership
  <2>2. \A b \in pool \ pool' : address[b] = a
    BY <1>2, RemovesItsAddress
  <2>3. pool' = pool \ {At(Removable(a), 0)} /\ UNCHANGED <<address, leaseLeft>>
    BY <1>2 DEF remove
  <2>4. At(Removable(a), 0) \in Removable(a)
    <3>1. Removable(a) \in SUBSET Int /\ IsFiniteSet(Removable(a))
      <4>1. Removable(a) \in SUBSET pool
        BY DEF Removable
      <4>2. IsFiniteSet(Removable(a))
        BY <4>1, PoolFinite
      <4>3. \A b \in Backends : b \in Int
        BY DEF Backends
      <4>4. pool \in SUBSET Backends
        BY DEF TypeOK
      <4> QED BY <4>1, <4>2, <4>3, <4>4
    <3>2. Cardinality(Removable(a)) \in Nat /\ Cardinality(Removable(a)) # 0
      BY <2>1, <3>1, FS_CardinalityType, FS_EmptySet
    <3>3. 0 \in 0 .. Cardinality(Removable(a)) - 1
      BY <3>2
    <3> QED BY <3>1, <3>3, AtIndex
  <2>5. \A b \in pool' : address'[b] # a
    BY <2>1, <2>3, <2>4 DEF AddressesDistinct, Removable
  <2> QED BY <2>2, <2>3, <2>5 DEF Removable, Keeps
<1> QED BY <1>1, <1>2 DEF Delete

-----------------------------------------------------------------------------
\* Each part of the invariant, over a step that keeps the entry.

\* The server relies on its lease.
Relies(a) == server[a] = "up" /\ registered[a] /\ missed[a] <= Tolerated

LEMMA WaitNextType ==
    ASSUME ServerTypes', NEW a \in Addresses, missed'[a] <= Tolerated
    PROVE  Wait(a)' \in Nat
<1>1. missed'[a] \in 0 .. Tolerated /\ timer'[a]["PUT"] \in Nat
  BY TimeTypes, MethodNames DEF ServerTypes
<1>2. Budget(missed'[a]) \in Nat
  BY <1>1, BudgetSteps
<1> QED BY <1>1, <1>2, TimeTypes, WaitNext

LEMMA LeaseKept ==
    ASSUME TypeOK, ServerTypes, ServerTypes', NEW a \in Addresses, LeaseOf(a), Keeps(a),
           Relies(a)' => Relies(a) /\ Wait(a)' <= Wait(a)
    PROVE  LeaseOf(a)'
<1> SUFFICES ASSUME Relies(a)'
             PROVE  \E b \in pool' : address'[b] = a /\ leaseLeft'[b] > Wait(a)'
  BY DEF LeaseOf, Relies
<1>1. Wait(a) \in Nat /\ Wait(a)' \in Nat
  BY WaitType, WaitNextType DEF Relies
<1>2. PICK b \in pool : address[b] = a /\ leaseLeft[b] > Wait(a)
  BY DEF LeaseOf, Relies
<1>3. leaseLeft[b] \in Int /\ Live(b)
  BY <1>1, <1>2, TimeTypes DEF TypeOK, Forever, Live
<1>4. b \in pool' /\ address'[b] = a /\ leaseLeft'[b] = leaseLeft[b]
  BY <1>2, <1>3 DEF Keeps
<1> QED BY <1>1, <1>2, <1>3, <1>4

LEMMA PartedKept ==
    ASSUME NEW a \in Addresses, PartedOf(a), Keeps(a),
           parted'[a] => /\ parted[a]
                         /\ server'[a] \in {"leaving", "down"}
                         /\ call'[a]["DELETE"] # "sent" /\ late'[a] = {}
    PROVE  PartedOf(a)'
<1>1. Removable(a) = {} => Removable(a)' = {}
  BY DEF Keeps, Removable
<1> QED BY <1>1 DEF PartedOf

LEMMA QuietKept ==
    ASSUME ServerTypes, NEW a \in Addresses, QuietOf(a), Keeps(a),
           quiet'[a] = 0 \/ (quiet'[a] = quiet[a] /\ server'[a] = "down" /\ late'[a] = {})
    PROVE  QuietOf(a)'
<1>1. quiet[a] \in Nat /\ BackendLease \in Nat
  BY TimeTypes DEF ServerTypes
<1>2. \A b \in Removable(a)' : b \in Removable(a) /\ leaseLeft'[b] = leaseLeft[b]
  BY DEF Keeps, Removable
<1>3. \A b \in Removable(a)' :
        /\ leaseLeft'[b] \in 0 .. BackendLease
        /\ leaseLeft'[b] > 0 => leaseLeft'[b] + quiet'[a] <= BackendLease
  BY <1>1, <1>2 DEF QuietOf
<1>4. quiet'[a] > 0 => server'[a] = "down" /\ late'[a] = {}
  OBVIOUS
<1> QED BY <1>3, <1>4 DEF QuietOf

\* A step that leaves the server's state alone.
LEMMA ServerKept ==
    ASSUME TypeOK, ServerTypes, ServerTypes', NEW a \in Addresses, RegistrationOf(a),
           SameServer(a), Keeps(a)
    PROVE  RegistrationOf(a)'
<1>1. ThreadsOf(a)'
  BY DEF RegistrationOf, ThreadsOf, SameServer
<1>2. LeaseOf(a)'
  <2>1. Wait(a)' = Wait(a)
    BY WaitNext DEF Wait, SameServer
  <2>2. Relies(a)' => Relies(a)
    BY DEF Relies, SameServer
  <2>3. Relies(a) => Wait(a) \in Nat
    BY WaitType DEF Relies
  <2>4. LeaseOf(a)
    BY DEF RegistrationOf
  <2> QED BY <2>1, <2>2, <2>3, <2>4, LeaseKept
<1>3. PartedOf(a)'
  BY PartedKept DEF RegistrationOf, SameServer, PartedOf
<1>4. QuietOf(a)'
  <2>1. QuietOf(a)
    BY DEF RegistrationOf
  <2>2. quiet[a] \in Nat
    BY TimeTypes DEF ServerTypes
  <2>3. quiet[a] = 0 \/ (server[a] = "down" /\ late[a] = {})
    BY <2>1, <2>2 DEF QuietOf
  <2> QED BY <2>1, <2>3, QuietKept DEF SameServer
<1> QED BY <1>1, <1>2, <1>3, <1>4 DEF RegistrationOf

\* A step of the server that does not change the pool.
LEMMA ServerSteps ==
    ASSUME TypeOK, ServerTypes, ServerTypes', NEW a \in Addresses, RegistrationOf(a),
           UNCHANGED vars,
           ThreadsOf(a)',
           Relies(a)' => Relies(a) /\ Wait(a)' <= Wait(a),
           parted'[a] => /\ parted[a]
                         /\ server'[a] \in {"leaving", "down"}
                         /\ call'[a]["DELETE"] # "sent" /\ late'[a] = {},
           quiet'[a] = 0 \/ (quiet'[a] = quiet[a] /\ server'[a] = "down" /\ late'[a] = {})
    PROVE  RegistrationOf(a)'
<1>1. Keeps(a)
  BY UnchangedKeeps
<1>2. LeaseOf(a) /\ PartedOf(a) /\ QuietOf(a)
  BY DEF RegistrationOf
<1>3. LeaseOf(a)'
  BY <1>1, <1>2, LeaseKept
<1>4. PartedOf(a)'
  BY <1>1, <1>2, PartedKept
<1>5. QuietOf(a)'
  BY <1>1, <1>2, QuietKept
<1> QED BY <1>3, <1>4, <1>5 DEF RegistrationOf

\* Where no one is quiet, and no one has parted.
LEMMA Involved ==
    ASSUME ServerTypes, NEW a \in Addresses, RegistrationOf(a)
    PROVE  /\ server[a] # "down" => quiet[a] = 0
           /\ late[a] # {} => quiet[a] = 0 /\ ~parted[a]
           /\ server[a] \notin {"leaving", "down"} => ~parted[a]
           /\ renewal[a] # "off" => server[a] \notin {"leaving", "down"}
           /\ call[a]["PUT"] # "none" => server[a] \notin {"leaving", "down"}
           /\ call[a]["DELETE"] = "sent" => ~parted[a]
<1>1. quiet[a] \in Nat
  BY TimeTypes DEF ServerTypes
<1>2. quiet[a] = 0 \/ (server[a] = "down" /\ late[a] = {})
  BY <1>1 DEF RegistrationOf, QuietOf
<1>3. /\ server[a] # "down" => quiet[a] = 0
      /\ late[a] # {} => quiet[a] = 0
  BY <1>2
<1>4. /\ late[a] # {} => ~parted[a]
      /\ server[a] \notin {"leaving", "down"} => ~parted[a]
      /\ call[a]["DELETE"] = "sent" => ~parted[a]
  BY DEF RegistrationOf, PartedOf
<1>5. /\ renewal[a] # "off" => server[a] \notin {"leaving", "down"}
      /\ call[a]["PUT"] # "none" => server[a] \notin {"leaving", "down"}
  BY DEF RegistrationOf, ThreadsOf
<1> QED BY <1>3, <1>4, <1>5

-----------------------------------------------------------------------------
\* The steps of a server.

\* The process ends.
LEMMA DownSteps ==
    ASSUME TypeOK, ServerTypes, ServerTypes', NEW a \in Addresses, RegistrationOf(a),
           UNCHANGED <<vars, parted, quiet>>, server[a] # "down", Down(a)
    PROVE  RegistrationOf(a)'
<1>1. /\ server'[a] = "down" /\ renewal'[a] = "off"
      /\ call'[a] = [m \in Methods |-> "none"]
      /\ late'[a] = late[a] \cup {m \in Methods : call[a][m] = "sent"}
  BY DEF Down, ServerTypes
<1>2. call'[a]["PUT"] = "none" /\ call'[a]["DELETE"] = "none"
  BY <1>1, MethodNames
<1>3. ThreadsOf(a)'
  BY <1>1, <1>2 DEF ThreadsOf
<1>4. parted[a] => late'[a] = {}
  <2>1. parted[a] => late[a] = {} /\ call[a]["DELETE"] # "sent" /\ call[a]["PUT"] = "none"
    BY Involved DEF RegistrationOf, PartedOf
  <2> QED BY <1>1, <2>1, MethodNames
<1>5. quiet'[a] = 0
  BY Involved
<1>6. ~Relies(a)'
  BY <1>1 DEF Relies
<1>7. call'[a]["DELETE"] # "sent"
  BY <1>2
<1> QED BY <1>1, <1>3, <1>4, <1>5, <1>6, <1>7, ServerSteps

\* A call returns: a renewal that was not executed counts as missed, and what
\* the budget holds for it is spent.
LEMMA ReturnSteps ==
    ASSUME TypeOK, ServerTypes, ServerTypes', NEW a \in Addresses, RegistrationOf(a),
           NEW m \in Methods, call[a][m] # "none", Return(a, m),
           UNCHANGED <<vars, registered, parted, quiet>>,
           \/ call[a][m] = "executed" /\ UNCHANGED missed
           \/ Miss(a, m)
    PROVE  RegistrationOf(a)'
<1>1. CASE m = "DELETE" /\ Down(a)
  <2>1. server[a] = "leaving"
    BY <1>1 DEF RegistrationOf, ThreadsOf
  <2> QED BY <1>1, <2>1, DownSteps
<1>2. CASE /\ m = "PUT"
           /\ call' = [call EXCEPT ![a][m] = "none"]
           /\ renewal' = [renewal EXCEPT ![a] = "sleep"]
           /\ timer' = [timer EXCEPT ![a][m] = Refresh]
           /\ late' = [late EXCEPT ![a] = IF call[a][m] = "sent" THEN @ \cup {m} ELSE @]
           /\ UNCHANGED server
  <2>0. "DELETE" \in Methods \ {m}
    BY <1>2, MethodNames
  <2>1. call'[a]["PUT"] = "none" /\ call'[a]["DELETE"] = call[a]["DELETE"]
    BY <1>2, <2>0, OneOfTwo DEF ServerTypes
  <2>2. timer'[a]["PUT"] = Refresh
    BY <1>2, OneOfTwo, TimeTypes DEF ServerTypes
  <2>3. renewal'[a] = "sleep" /\ server'[a] = server[a]
    BY <1>2 DEF ServerTypes
  <2>4. renewal[a] = "calling" /\ server[a] \notin {"leaving", "down"}
    BY <1>2, Involved DEF RegistrationOf, ThreadsOf
  <2>5. ThreadsOf(a)'
    BY <2>1, <2>3, <2>4 DEF RegistrationOf, ThreadsOf
  <2>6. ~parted'[a] /\ quiet'[a] = 0
    BY <2>4, Involved
  <2>7. Relies(a)' => Relies(a) /\ Wait(a)' <= Wait(a)
    <3> SUFFICES ASSUME Relies(a)' PROVE Relies(a) /\ Wait(a)' <= Wait(a)
      OBVIOUS
    <3>0. /\ missed[a] \in Nat /\ missed'[a] <= Tolerated /\ timer[a]["PUT"] \in Nat
          /\ Refresh \in Nat /\ CallTime \in Nat /\ Tolerated \in Nat
      BY TimeTypes, MethodNames DEF Relies, ServerTypes
    <3>1. Wait(a)' = Budget(missed'[a]) + (CallTime + Refresh)
      BY <2>2, <2>3, WaitNext
    <3>2. CASE call[a]["PUT"] = "sent"
      <4>1. missed'[a] = IF missed[a] <= Tolerated THEN missed[a] + 1 ELSE missed[a]
        BY <1>2, <2>3, <3>2 DEF Miss, Relies, ServerTypes
      <4>2. missed'[a] = missed[a] + 1 /\ missed[a] + 1 <= Tolerated
        BY <3>0, <4>1
      <4>3. Wait(a) = Budget(missed[a]) + (timer[a]["PUT"] + 0)
        BY <2>4, <3>2 DEF Wait
      <4>4. Budget(missed[a]) = Budget(missed[a] + 1) + Refresh + CallTime
        BY <3>0, <4>2, BudgetSteps
      <4>5. Budget(missed[a] + 1) \in Nat
        BY <3>0, <4>2, BudgetSteps
      <4>6. Relies(a)
        BY <2>3, <3>0, <4>2 DEF Relies
      <4> QED BY <3>0, <3>1, <4>2, <4>3, <4>4, <4>5, <4>6
    <3>3. CASE call[a]["PUT"] # "sent"
      <4>1. missed'[a] = missed[a]
        BY <1>2, <3>3 DEF Miss, ServerTypes
      <4>2. Wait(a) = Budget(missed[a]) + (timer[a]["PUT"] + (Refresh + CallTime))
        BY <2>4, <3>3 DEF Wait
      <4>3. Budget(missed[a]) \in Nat
        BY <3>0, <4>1, BudgetSteps
      <4>4. Relies(a)
        BY <2>3, <4>1 DEF Relies
      <4> QED BY <3>0, <3>1, <4>1, <4>2, <4>3, <4>4
    <3> QED BY <3>2, <3>3
  <2> QED BY <2>5, <2>6, <2>7, ServerSteps
<1> QED BY <1>1, <1>2 DEF Return

LEMMA RenewSteps ==
    ASSUME TypeOK, ServerTypes, ServerTypes', NEW a \in Addresses, RegistrationOf(a), renew(a)
    PROVE  RegistrationOf(a)'
<1>1. /\ renewal[a] = "call" /\ UNCHANGED <<vars, server, late, registered, missed, parted, quiet>>
  BY DEF renew, historyVars
<1>2. ~parted'[a] /\ quiet'[a] = 0 /\ server[a] \notin {"leaving", "down"}
  BY <1>1, Involved
<1>3. CASE server[a] = "up" /\ renewal' = [renewal EXCEPT ![a] = "calling"] /\ Send(a, "PUT")
  <2>0. "PUT" \in Methods /\ "DELETE" \in Methods \ {"PUT"}
    BY MethodNames
  <2>1. /\ call'[a]["PUT"] = "sent" /\ timer'[a]["PUT"] = CallTime
        /\ call'[a]["DELETE"] = call[a]["DELETE"]
    BY <1>3, <2>0, SendType
  <2>2. renewal'[a] = "calling"
    BY <1>3 DEF ServerTypes
  <2>3. ThreadsOf(a)'
    BY <1>1, <1>3, <2>1, <2>2, TimeTypes DEF RegistrationOf, ThreadsOf
  <2>4. Relies(a)' => Relies(a) /\ Wait(a)' <= Wait(a)
    <3>1. Wait(a)' = Budget(missed[a]) + (CallTime + 0)
      BY <1>1, <2>1, <2>2, WaitNext
    <3>2. Wait(a) = Budget(missed[a]) + (CallTime + 0)
      BY <1>1 DEF Wait
    <3>3. Relies(a)' => Relies(a)
      BY <1>1 DEF Relies
    <3>4. Relies(a) => Wait(a) \in Nat
      BY WaitType DEF Relies
    <3> QED BY <3>1, <3>2, <3>3, <3>4
  <2> QED BY <1>1, <1>2, <2>3, <2>4, ServerSteps
<1>4. CASE server[a] # "up" /\ renewal' = [renewal EXCEPT ![a] = "off"] /\ UNCHANGED <<call, timer>>
  <2>1. renewal'[a] = "off"
    BY <1>4 DEF ServerTypes
  <2>2. ThreadsOf(a)'
    BY <1>1, <1>4, <2>1 DEF RegistrationOf, ThreadsOf
  <2>3. ~Relies(a)'
    BY <1>1, <1>4 DEF Relies
  <2> QED BY <1>1, <1>2, <2>2, <2>3, ServerSteps
<1> QED BY <1>3, <1>4 DEF renew

LEMMA WakeSteps ==
    ASSUME TypeOK, ServerTypes, ServerTypes', NEW a \in Addresses, RegistrationOf(a), wake(a)
    PROVE  RegistrationOf(a)'
<1>1. /\ renewal[a] = "sleep"
      /\ UNCHANGED <<vars, server, call, late, registered, missed, parted, quiet>>
  BY DEF wake, historyVars
<1>2. ~parted'[a] /\ quiet'[a] = 0 /\ server[a] \notin {"leaving", "down"}
  BY <1>1, Involved
<1>3. renewal'[a] = "call" /\ timer'[a]["PUT"] = 0
  BY OneOfTwo, TimeTypes, MethodNames DEF wake, ServerTypes
<1>4. ThreadsOf(a)'
  BY <1>1, <1>2, <1>3 DEF RegistrationOf, ThreadsOf
<1>5. Relies(a)' => Relies(a) /\ Wait(a)' <= Wait(a)
  <2>1. Wait(a)' = Budget(missed[a]) + (CallTime + 0)
    BY <1>1, <1>3, WaitNext
  <2>2. Wait(a) = Budget(missed[a]) + (CallTime + timer[a]["PUT"])
    BY <1>1 DEF Wait
  <2>3. Relies(a)' => Relies(a)
    BY <1>1 DEF Relies
  <2>4. Relies(a) => Budget(missed[a]) \in Nat
    BY TimeTypes, BudgetSteps DEF Relies, ServerTypes
  <2>5. timer[a]["PUT"] \in Nat /\ CallTime \in Nat
    BY TimeTypes, MethodNames DEF ServerTypes
  <2> QED BY <2>1, <2>2, <2>3, <2>4, <2>5
<1> QED BY <1>1, <1>2, <1>4, <1>5, ServerSteps

\* serve: the start, the interrupt and the DELETE.
LEMMA ServeSteps ==
    ASSUME TypeOK, ServerTypes, ServerTypes', NEW a \in Addresses, RegistrationOf(a),
           start(a) \/ interrupt(a) \/ unregister(a) \/ crash(a)
    PROVE  RegistrationOf(a)'
<1>1. CASE start(a)
  <2>1. /\ server[a] = "down" /\ server'[a] = "up" /\ renewal'[a] = "call"
        /\ missed'[a] = 0 /\ quiet'[a] = 0 /\ UNCHANGED <<vars, call, timer, late>>
    BY <1>1 DEF start, ServerTypes
  <2>2. ~registered'[a] /\ ~parted'[a]
    BY <1>1 DEF start, ServerTypes
  <2>3. ThreadsOf(a)'
    BY <2>1 DEF RegistrationOf, ThreadsOf
  <2> QED BY <2>1, <2>2, <2>3, ServerSteps DEF Relies
<1>2. CASE interrupt(a)
  <2>1. /\ server[a] = "up" /\ server'[a] = "stopping"
        /\ UNCHANGED <<vars, renewal, call, timer, late, parted, quiet>>
    BY <1>2 DEF interrupt, ServerTypes
  <2>2. ~parted'[a] /\ quiet'[a] = 0
    BY <2>1, Involved
  <2>3. ThreadsOf(a)'
    BY <2>1 DEF RegistrationOf, ThreadsOf
  <2> QED BY <2>1, <2>2, <2>3, ServerSteps DEF Relies
<1>3. CASE unregister(a)
  <2>1. /\ server[a] = "stopping" /\ server'[a] = "leaving" /\ renewal[a] = "off"
        /\ Send(a, "DELETE") /\ UNCHANGED <<vars, renewal, late, parted, quiet>>
    BY <1>3 DEF unregister, historyVars, ServerTypes
  <2>2. ~parted'[a] /\ quiet'[a] = 0
    BY <2>1, Involved
  <2>3. "DELETE" \in Methods /\ "PUT" \in Methods \ {"DELETE"}
    BY MethodNames
  <2>4. call'[a]["PUT"] = call[a]["PUT"]
    BY <2>1, <2>3, SendType
  <2>5. ThreadsOf(a)'
    BY <2>1, <2>4 DEF RegistrationOf, ThreadsOf
  <2> QED BY <2>1, <2>2, <2>5, ServerSteps DEF Relies
<1>4. CASE crash(a)
  BY <1>4, DownSteps DEF crash
<1> QED BY <1>1, <1>2, <1>3, <1>4

-----------------------------------------------------------------------------
\* The registry executes a call.

LEMMA ExecuteSteps ==
    ASSUME TypeOK, ServerTypes, ServerTypes', PoolInv, NEW a \in Addresses,
           RegistrationOf(a), execute(a)
    PROVE  RegistrationOf(a)'
<1>1. UNCHANGED <<server, renewal, late, quiet>>
  BY DEF execute
<1>2. CASE /\ call[a]["PUT"] = "sent"
           /\ register(a)
           /\ call' = [call EXCEPT ![a]["PUT"] = "executed"]
           /\ AwaitAnswer(a, "PUT")
           /\ registered' = [registered EXCEPT ![a] =
                               server[a] = "up" /\ registerStatus(a) = 204]
           /\ missed' = [missed EXCEPT ![a] = 0]
           /\ UNCHANGED parted
  <2>0. "PUT" \in Methods /\ "DELETE" \in Methods \ {"PUT"}
    BY MethodNames
  <2>1. call'[a]["PUT"] = "executed" /\ call'[a]["DELETE"] = call[a]["DELETE"]
    BY <1>2, <2>0, OneOfTwo DEF ServerTypes
  <2>2. missed'[a] = 0 /\ renewal[a] = "calling"
    BY <1>2 DEF ServerTypes, RegistrationOf, ThreadsOf
  <2>3. ~parted'[a] /\ quiet'[a] = 0
    BY <1>1, <1>2, Involved
  <2>9. timer'[a]["PUT"] \in Nat /\ timer'[a]["PUT"] <= OpTime
    BY <1>2, <2>0, AwaitSteps, TimeTypes DEF ServerTypes
  <2>4. ThreadsOf(a)'
    BY <1>1, <1>2, <2>1, <2>9, TimeTypes DEF RegistrationOf, ThreadsOf
  <2>5. \A b \in pool' : address'[b] = a => leaseLeft'[b] = BackendLease
    BY <1>2, RegisterOne
  <2>6. LeaseOf(a)'
    <3> SUFFICES ASSUME registered'[a]
                 PROVE  \E b \in pool' : address'[b] = a /\ leaseLeft'[b] > Wait(a)'
      BY DEF LeaseOf
    <3>1. registerStatus(a) = 204
      BY <1>2 DEF ServerTypes
    <3>2. PICK b \in pool' : address'[b] = a
      BY <1>2, <3>1, RegisterOne
    <3>3. Wait(a)' = Budget(0) + (timer'[a]["PUT"] + (Refresh + CallTime))
      BY <1>1, <2>1, <2>2, WaitNext
    <3>5. Budget(0) \in Nat /\ Budget(0) + Refresh + CallTime + OpTime < BackendLease
      BY BudgetSteps, TimeTypes
    <3>6. BackendLease > Wait(a)'
      BY <2>9, <3>3, <3>5, TimeTypes
    <3> QED BY <2>5, <3>2, <3>6
  <2>7. PartedOf(a)'
    BY <2>3 DEF PartedOf
  <2>8. QuietOf(a)'
    BY <2>3, <2>5, TimeTypes DEF QuietOf, Removable
  <2> QED BY <2>4, <2>6, <2>7, <2>8 DEF RegistrationOf
<1>3. CASE /\ call[a]["DELETE"] = "sent"
           /\ Delete(a)
           /\ call' = [call EXCEPT ![a]["DELETE"] = "executed"]
           /\ AwaitAnswer(a, "DELETE")
           /\ parted' = [parted EXCEPT ![a] = late[a] = {}]
           /\ UNCHANGED <<registered, missed>>
  <2>0. "DELETE" \in Methods /\ "PUT" \in Methods \ {"DELETE"}
    BY MethodNames
  <2>1. call'[a]["DELETE"] = "executed" /\ call'[a]["PUT"] = call[a]["PUT"]
    BY <1>3, <2>0, OneOfTwo DEF ServerTypes
  <2>2. server[a] = "leaving"
    BY <1>3 DEF RegistrationOf, ThreadsOf
  <2>3. quiet'[a] = 0
    BY <1>1, <2>2, Involved
  <2>4. ThreadsOf(a)'
    <3>1. timer'[a]["PUT"] = timer[a]["PUT"]
      BY <1>3, <2>0, AwaitSteps
    <3> QED BY <1>1, <2>1, <2>2, <3>1 DEF RegistrationOf, ThreadsOf
  <2>5. LeaseOf(a)'
    BY <1>1, <2>2 DEF LeaseOf
  <2>6. Removable(a)' = {}
    BY <1>3, DeleteOne
  <2>7. parted'[a] => late'[a] = {}
    BY <1>1, <1>3 DEF ServerTypes
  <2>8. PartedOf(a)'
    BY <1>1, <2>1, <2>2, <2>6, <2>7 DEF PartedOf
  <2>9. QuietOf(a)'
    BY <2>3, <2>6 DEF QuietOf
  <2> QED BY <2>4, <2>5, <2>8, <2>9 DEF RegistrationOf
<1> QED BY <1>2, <1>3 DEF execute

\* A call that its sender gave up: a PUT makes the lease longer, a DELETE ends
\* the registration.
LEMMA LateSteps ==
    ASSUME TypeOK, TypeOK', ServerTypes, ServerTypes', PoolInv, NEW a \in Addresses,
           RegistrationOf(a), execute_late(a) \/ drop_late(a)
    PROVE  RegistrationOf(a)'
<1>1. UNCHANGED <<server, renewal, call, timer, missed, parted, quiet>> /\ late[a] # {}
  BY DEF execute_late, drop_late, historyVars
<1>2. ~parted'[a] /\ quiet'[a] = 0
  BY <1>1, Involved
<1>3. ThreadsOf(a)'
  BY <1>1 DEF RegistrationOf, ThreadsOf
<1>4. Wait(a)' = Wait(a)
  BY <1>1, WaitNext DEF Wait
<1>5. PartedOf(a)'
  BY <1>2 DEF PartedOf
<1>6. CASE UNCHANGED <<vars, registered>>
  <2>1. Relies(a)' => Relies(a)
    BY <1>1, <1>6 DEF Relies
  <2>2. Relies(a) => Wait(a) \in Nat
    BY WaitType DEF Relies
  <2>3. Relies(a)' => Relies(a) /\ Wait(a)' <= Wait(a)
    BY <1>4, <2>1, <2>2
  <2> QED BY <1>2, <1>3, <1>6, <2>3, ServerSteps
<1>7. CASE register(a) /\ UNCHANGED registered
  <2>1. \A b \in pool' : address'[b] = a => leaseLeft'[b] = BackendLease
    BY <1>7, RegisterOne
  <2>2. LeaseOf(a)'
    <3> SUFFICES ASSUME Relies(a)'
                 PROVE  \E b \in pool' : address'[b] = a /\ leaseLeft'[b] > Wait(a)'
      BY DEF LeaseOf, Relies
    <3>1. Relies(a)
      BY <1>1, <1>7 DEF Relies
    <3>2. Wait(a) \in Nat
      BY <3>1, WaitType DEF Relies
    <3>3. PICK b \in pool : address[b] = a /\ leaseLeft[b] > Wait(a)
      BY <3>1 DEF RegistrationOf, LeaseOf, Relies
    <3>4. Live(b) /\ leaseLeft[b] <= BackendLease /\ leaseLeft[b] \in Int
      BY <3>2, <3>3, TimeTypes DEF TypeOK, Forever, Live
    <3>5. PICK e \in pool' : address'[e] = a
      BY <1>7, <3>3, <3>4, RegisterOne
    <3>6. BackendLease > Wait(a)'
      BY <1>4, <3>2, <3>3, <3>4, TimeTypes
    <3> QED BY <2>1, <3>5, <3>6
  <2>3. QuietOf(a)'
    BY <1>2, <2>1, TimeTypes DEF QuietOf, Removable
  <2> QED BY <1>3, <1>5, <2>2, <2>3 DEF RegistrationOf
<1>8. CASE Delete(a) /\ registered' = [registered EXCEPT ![a] = FALSE]
  <2>1. Removable(a)' = {}
    BY <1>8, DeleteOne
  <2>2. ~registered'[a]
    BY <1>8 DEF ServerTypes
  <2>3. LeaseOf(a)'
    BY <2>2 DEF LeaseOf
  <2>4. QuietOf(a)'
    BY <1>2, <2>1 DEF QuietOf
  <2> QED BY <1>3, <1>5, <2>3, <2>4 DEF RegistrationOf
<1> QED BY <1>6, <1>7, <1>8 DEF execute_late, drop_late, historyVars

\* Time passes only where no thread is late: the lease and the time until the
\* next renewal shrink by the same.
LEMMA PassSteps ==
    ASSUME TypeOK, ServerTypes, ServerTypes', NEW a \in Addresses, RegistrationOf(a), Pass
    PROVE  RegistrationOf(a)'
<1>1. /\ UNCHANGED <<server, renewal, call, late, registered, missed, parted>>
      /\ UNCHANGED <<pool, address>> /\ ~Due(a)
  BY DEF Pass, Tick
<1>2. timer'[a]["PUT"] = Less(timer[a]["PUT"]) /\ timer[a]["PUT"] \in Nat
  BY TimeTypes, MethodNames DEF Pass, ServerTypes
<1>3. \A b \in Backends : leaseLeft'[b] = Less(leaseLeft[b])
  BY DEF Pass, Tick
<1>4. ThreadsOf(a)'
  <2>1. timer[a]["PUT"] <= CallTime => timer'[a]["PUT"] <= CallTime
    BY <1>2, TimeTypes DEF Less
  <2> QED BY <1>1, <2>1 DEF RegistrationOf, ThreadsOf
<1>5. LeaseOf(a)'
  <2> SUFFICES ASSUME Relies(a)'
               PROVE  \E b \in pool' : address'[b] = a /\ leaseLeft'[b] > Wait(a)'
    BY DEF LeaseOf, Relies
  <2>1. Relies(a)
    BY <1>1 DEF Relies
  <2>2. Wait(a) \in Nat /\ Budget(missed[a]) \in Nat
    BY <2>1, WaitType, BudgetSteps, TimeTypes DEF Relies, ServerTypes
  <2>3. renewal[a] \in {"calling", "sleep"} /\ timer[a]["PUT"] > 0
    BY <1>1, <1>2, <2>1, MethodNames DEF Relies, RegistrationOf, ThreadsOf, Due, ServerTypes
  <2>4. timer'[a]["PUT"] = timer[a]["PUT"] - 1
    BY <1>2, <2>3 DEF Less
  <2>5. Wait(a)' = Wait(a) - 1
    <3>1. CASE renewal[a] = "calling" /\ call[a]["PUT"] = "sent"
      <4>1. /\ Wait(a) = Budget(missed[a]) + (timer[a]["PUT"] + 0)
            /\ Wait(a)' = Budget(missed[a]) + (timer'[a]["PUT"] + 0)
        BY <1>1, <3>1, WaitNext DEF Wait
      <4> QED BY <1>2, <2>2, <2>4, <4>1
    <3>2. CASE renewal[a] = "calling" /\ call[a]["PUT"] # "sent"
      <4>1. /\ Wait(a) = Budget(missed[a]) + (timer[a]["PUT"] + (Refresh + CallTime))
            /\ Wait(a)' = Budget(missed[a]) + (timer'[a]["PUT"] + (Refresh + CallTime))
        BY <1>1, <3>2, WaitNext DEF Wait
      <4> QED BY <1>2, <2>2, <2>4, <4>1, TimeTypes
    <3>3. CASE renewal[a] = "sleep"
      <4>1. /\ Wait(a) = Budget(missed[a]) + (CallTime + timer[a]["PUT"])
            /\ Wait(a)' = Budget(missed[a]) + (CallTime + timer'[a]["PUT"])
        BY <1>1, <3>3, WaitNext DEF Wait
      <4> QED BY <1>2, <2>2, <2>4, <4>1, TimeTypes
    <3> QED BY <2>3, <3>1, <3>2, <3>3
  <2>6. PICK b \in pool : address[b] = a /\ leaseLeft[b] > Wait(a)
    BY <2>1 DEF RegistrationOf, LeaseOf, Relies
  <2>7. leaseLeft[b] \in Int /\ leaseLeft'[b] = Less(leaseLeft[b])
    BY <1>3, TimeTypes DEF TypeOK, Forever
  <2>8. leaseLeft'[b] = leaseLeft[b] - 1
    BY <2>2, <2>6, <2>7 DEF Less
  <2>9. leaseLeft'[b] > Wait(a)'
    BY <2>2, <2>5, <2>6, <2>7, <2>8
  <2> QED BY <1>1, <2>6, <2>9
<1>6. PartedOf(a)'
  BY <1>1 DEF RegistrationOf, PartedOf, Removable
<1>7. QuietOf(a)'
  <2>1. quiet'[a] = IF server[a] # "down" \/ late[a] # {} THEN 0
                    ELSE IF quiet[a] < BackendLease THEN quiet[a] + 1 ELSE quiet[a]
    BY DEF Pass
  <2>2. quiet[a] \in 0 .. BackendLease /\ BackendLease \in Nat
    BY TimeTypes DEF ServerTypes
  <2>3. quiet'[a] > 0 => server'[a] = "down" /\ late'[a] = {}
    BY <1>1, <2>1
  <2>4. ASSUME NEW b \in Removable(a)'
        PROVE  /\ leaseLeft'[b] \in 0 .. BackendLease
               /\ leaseLeft'[b] > 0 => leaseLeft'[b] + quiet'[a] <= BackendLease
    <3>1. b \in Removable(a) /\ b \in Backends
      BY <1>1, <2>4 DEF Removable, TypeOK
    <3>2. /\ leaseLeft[b] \in 0 .. BackendLease
          /\ leaseLeft[b] > 0 => leaseLeft[b] + quiet[a] <= BackendLease
      BY <3>1 DEF RegistrationOf, QuietOf
    <3>3. leaseLeft'[b] = Less(leaseLeft[b])
      BY <1>3, <3>1
    <3>4. quiet'[a] \in 0 .. quiet[a] + 1
      BY <2>1, <2>2
    <3> QED BY <2>2, <3>2, <3>3, <3>4 DEF Less
  <2> QED BY <2>3, <2>4 DEF QuietOf
<1> QED BY <1>4, <1>5, <1>6, <1>7 DEF RegistrationOf

-----------------------------------------------------------------------------
\* Every step of the composition.

\* What the others' steps leave of a server's entry.
LEMMA EntriesOfOthers ==
    ASSUME TypeOK, PoolInv, NEW a \in Addresses, ServerAction(a), NEW d \in Addresses \ {a}
    PROVE  Keeps(d)
<1>1. CASE execute(a) \/ execute_late(a)
  <2>1. register(a) \/ Delete(a)
    BY <1>1 DEF execute, execute_late
  <2> QED BY <2>1, RegisterOne, DeleteOne
<1>2. CASE start(a) \/ interrupt(a) \/ unregister(a) \/ crash(a) \/ renew(a) \/ wake(a) \/ drop_late(a)
  <2>1. UNCHANGED vars
    BY <1>2 DEF start, interrupt, unregister, crash, renew, wake, drop_late
  <2> QED BY <2>1, UnchangedKeeps
<1>3. CASE \E m \in Methods : answered(a, m) \/ call_fails(a, m)
  <2>1. UNCHANGED vars
    BY <1>3 DEF answered, call_fails
  <2> QED BY <2>1, UnchangedKeeps
<1> QED BY <1>1, <1>2, <1>3 DEF ServerAction

LEMMA ServerActionSteps ==
    ASSUME TypeOK, TypeOK', ServerTypes, ServerTypes', PoolInv, NEW a \in Addresses,
           RegistrationOf(a), ServerAction(a)
    PROVE  RegistrationOf(a)'
<1>1. CASE start(a) \/ interrupt(a) \/ unregister(a) \/ crash(a)
  BY <1>1, ServeSteps
<1>2. CASE renew(a)
  BY <1>2, RenewSteps
<1>3. CASE wake(a)
  BY <1>3, WakeSteps
<1>4. ASSUME NEW m \in Methods, answered(a, m) PROVE RegistrationOf(a)'
  BY <1>4, ReturnSteps DEF answered, historyVars
<1>5. ASSUME NEW m \in Methods, call_fails(a, m) PROVE RegistrationOf(a)'
  BY <1>5, ReturnSteps DEF call_fails
<1>6. CASE execute(a)
  BY <1>6, ExecuteSteps
<1>7. CASE execute_late(a) \/ drop_late(a)
  BY <1>7, LateSteps
<1> QED BY <1>1, <1>2, <1>3, <1>4, <1>5, <1>6, <1>7 DEF ServerAction

LEMMA RegistrationStep ==
    ASSUME TypeOK, TypeOK', PoolInv, ServerTypes, RegistrationInv, [RegistrationNext]_allVars
    PROVE  ServerTypes' /\ RegistrationInv'
<1>1. CASE Pass
  <2>1. ServerTypes'
    BY <1>1, PassType
  <2> QED BY <1>1, <2>1, PassSteps DEF RegistrationInv
<1>2. CASE (list \/ UNCHANGED vars) /\ UNCHANGED <<serverVars, historyVars>>
  <2>1. ServerTypes' /\ \A d \in Addresses : SameServer(d)
    BY <1>2 DEF ServerTypes, SameServer, serverVars, historyVars
  <2>2. \A d \in Addresses : Keeps(d)
    BY <1>2, ListKeeps, UnchangedKeeps
  <2> QED BY <2>1, <2>2, ServerKept DEF RegistrationInv
<1>3. ASSUME NEW a \in Addresses, ServerAction(a) PROVE ServerTypes' /\ RegistrationInv'
  <2>1. ServerTypes' /\ \A d \in Addresses \ {a} : SameServer(d)
    BY <1>3, ServerActionType
  <2>2. RegistrationOf(a)'
    BY <1>3, <2>1, ServerActionSteps DEF RegistrationInv
  <2>3. \A d \in Addresses \ {a} : RegistrationOf(d)'
    BY <1>3, <2>1, EntriesOfOthers, ServerKept DEF RegistrationInv
  <2> QED BY <2>1, <2>2, <2>3 DEF RegistrationInv
<1>4. CASE UNCHANGED allVars
  BY <1>2, <1>4 DEF allVars
<1> QED BY <1>1, <1>2, <1>3, <1>4 DEF RegistrationNext, ServerAction

LEMMA RegistrationStarts == RegistrationInit => ServerTypes /\ RegistrationInv
<1> SUFFICES ASSUME RegistrationInit PROVE ServerTypes /\ RegistrationInv
  OBVIOUS
<1>1. ServerTypes
  BY TimeTypes DEF RegistrationInit, ServerTypes
<1>2. pool = {}
  <2>1. StaticBackends = << >>
    BY RegistryAssumption DEF RegistryAssumption, RegistryMode
  <2>2. Len(StaticBackends) = 0
    BY <2>1
  <2> QED BY <2>2 DEF RegistrationInit, Init
<1>3. ASSUME NEW a \in Addresses PROVE RegistrationOf(a)
  <2>1. /\ server[a] = "down" /\ renewal[a] = "off" /\ quiet[a] = 0
        /\ call[a]["PUT"] = "none" /\ call[a]["DELETE"] = "none"
    BY MethodNames DEF RegistrationInit
  <2>2. ~parted[a]
    BY DEF RegistrationInit
  <2>3. Removable(a) = {}
    BY <1>2 DEF Removable
  <2> QED BY <2>1, <2>2, <2>3 DEF RegistrationOf, ThreadsOf, LeaseOf, PartedOf, QuietOf
<1> QED BY <1>1, <1>3 DEF RegistrationInv

LEMMA RegistrationInvariant ==
    RegistrationSpec => [](TypeOK /\ PoolInv /\ ServerTypes /\ RegistrationInv)
<1>1. RegistrationSpec => [](TypeOK /\ PoolInv)
  BY RegistrationRunsBalancer, TypeCorrect, PoolInvariant, PTL
<1> QED BY <1>1, RegistrationStarts, RegistrationStep, PTL DEF RegistrationSpec

-----------------------------------------------------------------------------
\* Servers, their calls and the registry stay in their types.
THEOREM RegistrationTypeCorrect == RegistrationSpec => []RegistrationTypeOK
<1>1. TypeOK /\ ServerTypes => RegistrationTypeOK
  BY DEF RegistrationTypeOK, ServerTypes
<1> QED BY <1>1, RegistrationInvariant, PTL

\* A server that renews its lease as renew_registration does stays listed
\* through Tolerated failures in a row, for every timing the assumption
\* allows, however the calls of all servers interleave and whatever given-up
\* calls are executed late.
THEOREM RegisteredStays == RegistrationSpec => []StaysMember
<1>1. ASSUME TypeOK, ServerTypes, RegistrationInv PROVE StaysMember
  <2> SUFFICES ASSUME NEW a \in Addresses, Relies(a) PROVE Member(a)
    BY DEF StaysMember, Relies
  <2>1. Wait(a) \in Nat
    BY <1>1, WaitType DEF Relies
  <2>2. PICK b \in pool : address[b] = a /\ leaseLeft[b] > Wait(a)
    BY <1>1 DEF RegistrationInv, RegistrationOf, LeaseOf, Relies
  <2>3. leaseLeft[b] \in Int
    BY <1>1, TimeTypes DEF TypeOK, Forever
  <2> QED BY <2>1, <2>2, <2>3 DEF Member, Live
<1> QED BY <1>1, RegistrationInvariant, PTL

\* Once the DELETE that ends serve is executed with no earlier call under way,
\* nothing lists the address again until the server is started again.
THEOREM GracefulEndIsFinal == RegistrationSpec => []GracefulEndRemoves
<1>1. RegistrationInv => GracefulEndRemoves
  BY DEF RegistrationInv, RegistrationOf, PartedOf, GracefulEndRemoves, Member, Removable
<1> QED BY <1>1, RegistrationInvariant, PTL

\* A server that ended without a DELETE is no member one lease after its last
\* call was executed.
THEOREM EndedServersExpire == RegistrationSpec => []EndedIsForgotten
<1>1. ASSUME RegistrationInv PROVE EndedIsForgotten
  <2> SUFFICES ASSUME NEW a \in Addresses, quiet[a] = BackendLease, NEW b \in pool,
                      address[b] = a
               PROVE  leaseLeft[b] = 0
    BY DEF EndedIsForgotten, Member, Live
  <2>1. /\ leaseLeft[b] \in 0 .. BackendLease
        /\ leaseLeft[b] > 0 => leaseLeft[b] + quiet[a] <= BackendLease
    BY <1>1 DEF RegistrationInv, RegistrationOf, QuietOf, Removable
  <2> QED BY <2>1, TimeTypes
<1> QED BY <1>1, RegistrationInvariant, PTL
=============================================================================
