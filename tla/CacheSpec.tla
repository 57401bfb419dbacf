----------------------------- MODULE CacheSpec -----------------------------
(***************************************************************************)
(* What the cache of in-mem-cache promises its clients: a map from keys to *)
(* values in which an entry disappears the moment its time to live is      *)
(* over, with room for Capacity live keys.  There are no slots, no stale   *)
(* entries and no lazy expiry here.  Every command takes effect in one     *)
(* step, at which its reply is determined.  The wire has one ERROR; here   *)
(* it carries its reason, so that only a full map may refuse a SET.        *)
(***************************************************************************)
EXTENDS Integers, FiniteSets

CONSTANTS
    Threads,    \* the connections, each with one command at a time
    Keys, Values,
    TTLs,       \* times to live a SET may give, in ticks; 0 means no expiry
    Capacity,   \* how many live keys there may be
    Missing,    \* the entry of a key that is not in the map
    None        \* the reply of a thread that waits for a command

Forever == -1

Entries == [value: Values, left: {Forever} \cup (TTLs \ {0})]

VARIABLES
    contents,   \* the map
    reply       \* the reply each thread owes its client

vars == <<contents, reply>>

Live == {k \in Keys : contents[k] # Missing}

Init ==
    /\ contents = [k \in Keys |-> Missing]
    /\ reply = [t \in Threads |-> None]

Answer(t, r) ==
    /\ reply[t] = None
    /\ reply' = [reply EXCEPT ![t] = r]

Get(t, k) ==
    /\ Answer(t, IF k \in Live THEN <<"VALUE", contents[k].value>> ELSE <<"NOT_FOUND">>)
    /\ UNCHANGED contents

Delete(t, k) ==
    /\ Answer(t, IF k \in Live THEN <<"OK">> ELSE <<"NOT_FOUND">>)
    /\ contents' = [contents EXCEPT ![k] = Missing]

Set(t, k, v, ttl) ==
    \/ /\ k \in Live \/ Cardinality(Live) < Capacity
       /\ contents' = [contents EXCEPT ![k] =
                         [value |-> v, left |-> IF ttl = 0 THEN Forever ELSE ttl]]
       /\ Answer(t, <<"OK">>)
    \/ /\ k \notin Live /\ Cardinality(Live) >= Capacity
       /\ Answer(t, <<"ERROR", "full">>)
       /\ UNCHANGED contents

\* A command that is not understood changes nothing.
Malformed(t) ==
    /\ Answer(t, <<"ERROR", "line">>)
    /\ UNCHANGED contents

Send(t) ==
    /\ reply[t] # None
    /\ reply' = [reply EXCEPT ![t] = None]
    /\ UNCHANGED contents

Aged(e) ==
    IF e = Missing \/ e.left = Forever THEN e
    ELSE IF e.left = 1 THEN Missing ELSE [e EXCEPT !.left = @ - 1]

Tick ==
    /\ contents' = [k \in Keys |-> Aged(contents[k])]
    /\ UNCHANGED reply

Next ==
    \/ Tick
    \/ \E t \in Threads :
        \/ Malformed(t) \/ Send(t)
        \/ \E k \in Keys : Get(t, k) \/ Delete(t, k)
        \/ \E k \in Keys, v \in Values, ttl \in TTLs : Set(t, k, v, ttl)

Spec == Init /\ [][Next]_vars
=============================================================================
