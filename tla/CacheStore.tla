----------------------------- MODULE CacheStore -----------------------------
(***************************************************************************)
(* The store of in-mem-cache/server.c: the array of entries behind         *)
(* store_mutex, and handle_line, which client threads run concurrently.    *)
(* Between lock and unlock a thread is alone with the array and reads the  *)
(* clock once, so what it does there is one step.  The reply is sent after *)
(* the unlock, by a step of its own: other threads may run in between.     *)
(*                                                                         *)
(* An expiry time is kept as what is left of it, in ticks; Tick lets time  *)
(* pass.  The bytes of lines, keys, values and numbers are abstracted: a   *)
(* line that fails one of handle_line's checks is a malformed command.     *)
(***************************************************************************)
EXTENDS Integers, FiniteSets

CONSTANTS
    Threads,      \* client threads
    Keys, Values,
    TTLs,         \* what parse_ttl may return, in ticks
    TTL_MAX,
    STORE_CAP,
    NoKey,        \* the content of a slot that was never used
    Missing, None \* see CacheSpec

ASSUME StoreAssumption ==
    /\ STORE_CAP \in Nat \ {0}
    /\ TTL_MAX \in Nat
    /\ TTLs \subseteq 0 .. TTL_MAX
    /\ NoKey \notin Keys
    /\ Missing \notin [value: Values \cup {NoKey}, left: Int]
    /\ None \notin {<<"OK">>, <<"NOT_FOUND">>, <<"ERROR", "full">>, <<"ERROR", "line">>}
                   \cup ({"VALUE"} \X (Values \cup {NoKey}))

Slots == 1 .. STORE_CAP

Forever == -1   \* has_expiry = 0

NoSlot == 0     \* the index -1 of the code

Entry == [used: BOOLEAN, key: Keys \cup {NoKey}, value: Values \cup {NoKey},
          left: {Forever} \cup 0 .. TTL_MAX]

VARIABLES
    store,   \* the array
    reply    \* what handle_line is about to send for each thread

vars == <<store, reply>>

\* Both kinds of ERROR are the same bytes; the reason is kept for CacheSpec.
Replies == {None, <<"OK">>, <<"NOT_FOUND">>, <<"ERROR", "full">>, <<"ERROR", "line">>}
             \cup ({"VALUE"} \X (Values \cup {NoKey}))

TypeOK ==
    /\ store \in [Slots -> Entry]
    /\ reply \in [Threads -> Replies]

Init ==
    /\ store = [i \in Slots |->
                  [used |-> FALSE, key |-> NoKey, value |-> NoKey, left |-> Forever]]
    /\ reply = [t \in Threads |-> None]

-----------------------------------------------------------------------------
\* The loops over the array stop at the first index that qualifies.
First(S) == IF S = {} THEN NoSlot ELSE CHOOSE i \in S : \A j \in S : i <= j

\* has_expiry && now >= expires_at_ms
Expired(i) == store[i].left = 0

Holding(k) == First({i \in Slots : store[i].used /\ store[i].key = k})

\* The index lookup returns.
lookup(k) ==
    IF Holding(k) # NoSlot /\ Expired(Holding(k)) THEN NoSlot ELSE Holding(k)

\* The array it leaves: a stale entry is discarded when it is found.
Discarded(k) ==
    IF Holding(k) # NoSlot /\ Expired(Holding(k))
    THEN [store EXCEPT ![Holding(k)].used = FALSE]
    ELSE store

\* Mutant: slots of expired entries are not reclaimed.
MutantFreeSlot(k) == First({i \in Slots : ~Discarded(k)[i].used})

\* The index free_slot returns, in the array lookup left behind.
free_slot(k) == First({i \in Slots : ~Discarded(k)[i].used \/ Expired(i)})

\* The end of handle_line for a thread that is not answering a command yet.
Answer(t, r) ==
    /\ reply[t] = None
    /\ reply' = [reply EXCEPT ![t] = r]

-----------------------------------------------------------------------------
\* handle_line.

GET(t, k) ==
    /\ store' = Discarded(k)
    /\ Answer(t, IF lookup(k) = NoSlot THEN <<"NOT_FOUND">>
                                       ELSE <<"VALUE", store[lookup(k)].value>>)

DELETE(t, k) ==
    \/ /\ lookup(k) = NoSlot
       /\ store' = Discarded(k)
       /\ Answer(t, <<"NOT_FOUND">>)
    \/ /\ lookup(k) # NoSlot
       /\ store' = [store EXCEPT ![lookup(k)].used = FALSE]
       /\ Answer(t, <<"OK">>)

\* Mutant: a free slot is preferred to the key's own.
MutantTarget(k) == IF free_slot(k) # NoSlot THEN free_slot(k) ELSE lookup(k)

\* Where SET writes: over the key's entry, or into a slot that is free.
Target(k) == IF lookup(k) # NoSlot THEN lookup(k) ELSE free_slot(k)

\* Mutant: a SET prolongs the time to live the key still has.
MutantSET(t, k, v, ttl) ==
    /\ Target(k) # NoSlot
    /\ store' = [Discarded(k) EXCEPT ![Target(k)] =
                   [used |-> TRUE, key |-> k, value |-> v,
                    left |-> IF ttl = 0 THEN Forever
                             ELSE IF lookup(k) # NoSlot THEN store[lookup(k)].left + ttl ELSE ttl]]
    /\ Answer(t, <<"OK">>)

SET(t, k, v, ttl) ==
    \/ /\ Target(k) # NoSlot
       /\ store' = [Discarded(k) EXCEPT ![Target(k)] =
                      [used |-> TRUE, key |-> k, value |-> v,
                       left |-> IF ttl = 0 THEN Forever ELSE ttl]]
       /\ Answer(t, <<"OK">>)
    \/ /\ Target(k) = NoSlot
       /\ store' = Discarded(k)
       /\ Answer(t, <<"ERROR", "full">>)

\* An unknown command, an invalid key or TTL, an empty or too long value, an
\* empty line or a line with a NUL byte: ERROR, before the mutex is taken.
malformed(t) ==
    /\ Answer(t, <<"ERROR", "line">>)
    /\ UNCHANGED store

\* send_reply, outside the mutex; whether it succeeds is the server's matter.
send_reply(t) ==
    /\ reply[t] # None
    /\ reply' = [reply EXCEPT ![t] = None]
    /\ UNCHANGED store

handle_line(t) ==
    \/ malformed(t)
    \/ \E k \in Keys : GET(t, k) \/ DELETE(t, k)
    \/ \E k \in Keys, v \in Values, ttl \in TTLs : SET(t, k, v, ttl)

Tick ==
    /\ store' = [i \in Slots |-> [store[i] EXCEPT !.left = IF @ > 0 THEN @ - 1 ELSE @]]
    /\ UNCHANGED reply

Next ==
    \/ Tick
    \/ \E t \in Threads : handle_line(t) \/ send_reply(t)

Spec == Init /\ [][Next]_vars

-----------------------------------------------------------------------------
\* What the store guarantees.

\* No key ever occupies two slots, live or stale: SET looks for the key's
\* own slot before it takes a free one, and the first free slot may come
\* before the key's old one.
UniqueKeys ==
    \A i, j \in Slots :
        store[i].used /\ store[j].used /\ store[i].key = store[j].key => i = j

\* What the array means: the entries that are used and not expired.
LiveSlots(k) == {i \in Slots : store[i].used /\ store[i].key = k /\ ~Expired(i)}

Contents ==
    [k \in Keys |->
        IF LiveSlots(k) = {} THEN Missing
        ELSE LET i == CHOOSE i \in LiveSlots(k) : TRUE
             IN  [value |-> store[i].value, left |-> store[i].left]]

M == INSTANCE CacheSpec WITH Capacity <- STORE_CAP, contents <- Contents

\* handle_line on the array is the map of CacheSpec: lazy expiry is not
\* observable, an entry never outlives its time to live, and a SET fails
\* only while STORE_CAP other keys are live.
ImplementsMap == M!Spec
=============================================================================
