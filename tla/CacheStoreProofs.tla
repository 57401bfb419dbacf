-------------------------- MODULE CacheStoreProofs --------------------------
(***************************************************************************)
(* Theorems about CacheStore, for every number of slots, threads, keys and *)
(* values.                                                                 *)
(***************************************************************************)
EXTENDS CacheStore, FiniteSetTheorems, WellFoundedInduction, TLAPS

-----------------------------------------------------------------------------
\* First returns the least element.
LEMMA FirstLeast ==
    ASSUME NEW S, S \subseteq Slots
    PROVE  /\ S = {} => First(S) = NoSlot
           /\ S # {} => First(S) \in S /\ First(S) # NoSlot
<1>1. CASE S = {}
  BY <1>1 DEF First
<1>2. CASE S # {}
  <2>1. S \subseteq Nat /\ 0 \notin S
    BY StoreAssumption DEF StoreAssumption, Slots
  <2>2. PICK i \in S : \A j \in S : ~(<<j, i>> \in OpToRel(<, Nat))
    BY <1>2, <2>1, NatLessThanWellFounded, WFMin
  <2>3. \A j \in S : i <= j
    <3> SUFFICES ASSUME NEW j \in S, j < i PROVE FALSE
      BY <2>1
    <3>1. <<j, i>> \in Nat \X Nat /\ <<j, i>>[1] < <<j, i>>[2]
      BY <2>1
    <3>2. <<j, i>> \in OpToRel(<, Nat)
      BY <3>1 DEF OpToRel
    <3> QED BY <2>2, <3>2
  <2>4. First(S) \in S
    BY <1>2, <2>3 DEF First
  <2> QED BY <1>2, <2>1, <2>4 DEF NoSlot
<1> QED BY <1>1, <1>2

\* Holding finds a used slot of the key, if there is one.
LEMMA HoldingFinds ==
    ASSUME NEW k
    PROVE  /\ Holding(k) # NoSlot =>
                Holding(k) \in Slots /\ store[Holding(k)].used /\ store[Holding(k)].key = k
           /\ Holding(k) = NoSlot => \A i \in Slots : ~(store[i].used /\ store[i].key = k)
<1> DEFINE S == {i \in Slots : store[i].used /\ store[i].key = k}
<1>1. S \subseteq Slots /\ Holding(k) = First(S)
  BY DEF Holding
<1>2. (S = {} => First(S) = NoSlot) /\ (S # {} => First(S) \in S /\ First(S) # NoSlot)
  <2> HIDE DEF S
  <2> QED BY <1>1, FirstLeast
<1> QED BY <1>1, <1>2

LEMMA FreeSlotFinds ==
    ASSUME NEW k
    PROVE  /\ free_slot(k) # NoSlot =>
                free_slot(k) \in Slots /\ (~Discarded(k)[free_slot(k)].used \/ Expired(free_slot(k)))
           /\ free_slot(k) = NoSlot => \A i \in Slots : Discarded(k)[i].used /\ ~Expired(i)
<1> DEFINE S == {i \in Slots : ~Discarded(k)[i].used \/ Expired(i)}
<1>1. S \subseteq Slots /\ free_slot(k) = First(S)
  BY DEF free_slot
<1>2. (S = {} => First(S) = NoSlot) /\ (S # {} => First(S) \in S /\ First(S) # NoSlot)
  <2> HIDE DEF S
  <2> QED BY <1>1, FirstLeast
<1> QED BY <1>1, <1>2

\* lookup discards a stale entry of its key and leaves the rest alone.
LEMMA DiscardedSlots ==
    ASSUME TypeOK, NEW k
    PROVE  /\ Discarded(k) \in [Slots -> Entry]
           /\ \A i \in Slots :
                /\ Discarded(k)[i].key = store[i].key
                /\ Discarded(k)[i].value = store[i].value
                /\ Discarded(k)[i].left = store[i].left
                /\ Discarded(k)[i].used <=> (store[i].used /\ ~(i = Holding(k) /\ Expired(i)))
<1>1. CASE Holding(k) # NoSlot /\ Expired(Holding(k))
  <2>1. Discarded(k) = [store EXCEPT ![Holding(k)].used = FALSE]
    BY <1>1 DEF Discarded
  <2>2. Holding(k) \in Slots
    BY <1>1, HoldingFinds
  <2>3. Discarded(k) \in [Slots -> Entry]
    BY <2>1, <2>2 DEF TypeOK, Entry
  <2>4. \A i \in Slots \ {Holding(k)} : Discarded(k)[i] = store[i]
    BY <2>1 DEF TypeOK
  <2>5. Discarded(k)[Holding(k)] = [store[Holding(k)] EXCEPT !.used = FALSE]
    BY <2>1, <2>2 DEF TypeOK
  <2>6. /\ ~Discarded(k)[Holding(k)].used
        /\ Discarded(k)[Holding(k)].key = store[Holding(k)].key
        /\ Discarded(k)[Holding(k)].value = store[Holding(k)].value
        /\ Discarded(k)[Holding(k)].left = store[Holding(k)].left
    BY <2>2, <2>5 DEF TypeOK, Entry
  <2> QED BY <1>1, <2>3, <2>4, <2>6
<1>2. CASE ~(Holding(k) # NoSlot /\ Expired(Holding(k)))
  <2>1. Discarded(k) = store
    BY <1>2 DEF Discarded
  <2>2. NoSlot \notin Slots
    BY DEF NoSlot, Slots
  <2> QED BY <1>2, <2>1, <2>2 DEF TypeOK, Entry
<1> QED BY <1>1, <1>2

\* What lookup says about the slots of its key.
LEMMA LookupFinds ==
    ASSUME TypeOK, UniqueKeys, NEW k
    PROVE  /\ lookup(k) # NoSlot =>
                /\ lookup(k) \in Slots /\ lookup(k) = Holding(k)
                /\ store[lookup(k)].used /\ store[lookup(k)].key = k /\ ~Expired(lookup(k))
                /\ Discarded(k) = store
           /\ lookup(k) = NoSlot =>
                \A i \in Slots : /\ ~(Discarded(k)[i].used /\ store[i].key = k)
                                 /\ store[i].used /\ store[i].key = k => Expired(i)
<1>1. CASE Holding(k) # NoSlot /\ ~Expired(Holding(k))
  BY <1>1, HoldingFinds DEF lookup, Discarded
<1>2. CASE Holding(k) = NoSlot
  BY <1>2, HoldingFinds, DiscardedSlots DEF lookup
<1>3. CASE Holding(k) # NoSlot /\ Expired(Holding(k))
  <2>1. lookup(k) = NoSlot
    BY <1>3 DEF lookup
  <2>2. \A i \in Slots : store[i].used /\ store[i].key = k => i = Holding(k)
    BY <1>3, HoldingFinds DEF UniqueKeys
  <2> QED BY <1>3, <2>1, <2>2, DiscardedSlots
<1> QED BY <1>1, <1>2, <1>3

-----------------------------------------------------------------------------
\* Typing and uniqueness of keys, together: an update is well-typed whatever
\* the index, but that it keeps keys unique rests on where it goes.

LEMMA AnswerType ==
    ASSUME TypeOK, NEW t \in Threads, NEW r \in Replies, Answer(t, r)
    PROVE  reply' \in [Threads -> Replies]
BY DEF TypeOK, Answer

LEMMA StoreInit == Init => TypeOK /\ UniqueKeys
BY StoreAssumption DEF StoreAssumption, Init, TypeOK, UniqueKeys, Entry, Replies, Forever

\* Keys stay unique when slots only become unused.
LEMMA UsedShrinks ==
    ASSUME UniqueKeys,
           \A i \in Slots : store'[i].used => store[i].used /\ store'[i].key = store[i].key
    PROVE  UniqueKeys'
BY DEF UniqueKeys

LEMMA StoreStep == TypeOK /\ UniqueKeys /\ [Next]_vars => TypeOK' /\ UniqueKeys'
<1> SUFFICES ASSUME TypeOK, UniqueKeys, [Next]_vars PROVE TypeOK' /\ UniqueKeys'
  OBVIOUS
<1>1. CASE Tick
  <2>1. \A i \in Slots : /\ store'[i] \in Entry /\ store'[i].used = store[i].used
                         /\ store'[i].key = store[i].key
    BY <1>1, StoreAssumption DEF Tick, TypeOK, Entry, Forever, StoreAssumption
  <2>2. store' \in [Slots -> Entry] /\ UNCHANGED reply
    BY <1>1, <2>1 DEF Tick
  <2> QED BY <2>1, <2>2, UsedShrinks DEF TypeOK
<1>2. ASSUME NEW t \in Threads, NEW k \in Keys, GET(t, k) PROVE TypeOK' /\ UniqueKeys'
  <2>1. CASE lookup(k) = NoSlot
    <3>1. Answer(t, <<"NOT_FOUND">>) /\ store' = Discarded(k)
      BY <1>2, <2>1 DEF GET
    <3>2. reply' \in [Threads -> Replies]
      BY <3>1, AnswerType DEF Replies
    <3> QED BY <3>1, <3>2, DiscardedSlots, UsedShrinks DEF TypeOK
  <2>2. CASE lookup(k) # NoSlot
    <3>1. Answer(t, <<"VALUE", store[lookup(k)].value>>) /\ store' = Discarded(k)
      BY <1>2, <2>2 DEF GET
    <3>2. <<"VALUE", store[lookup(k)].value>> \in Replies
      BY <2>2, LookupFinds DEF TypeOK, Entry, Replies
    <3>3. reply' \in [Threads -> Replies]
      BY <3>1, <3>2, AnswerType
    <3> QED BY <3>1, <3>3, DiscardedSlots, UsedShrinks DEF TypeOK
  <2> QED BY <2>1, <2>2
<1>3. ASSUME NEW t \in Threads, NEW k \in Keys, DELETE(t, k) PROVE TypeOK' /\ UniqueKeys'
  <2>1. reply' \in [Threads -> Replies]
    BY <1>3, AnswerType DEF DELETE, Replies
  <2>2. CASE store' = Discarded(k)
    BY <2>1, <2>2, DiscardedSlots, UsedShrinks DEF TypeOK
  <2>3. CASE lookup(k) # NoSlot /\ store' = [store EXCEPT ![lookup(k)].used = FALSE]
    <3>1. lookup(k) \in Slots
      BY <2>3, LookupFinds
    <3>2. store' \in [Slots -> Entry]
      BY <2>3, <3>1 DEF TypeOK, Entry
    <3>3. \A i \in Slots : store'[i].used => store[i].used /\ store'[i].key = store[i].key
      BY <2>3, <3>1 DEF TypeOK, Entry
    <3> QED BY <2>1, <3>2, <3>3, UsedShrinks DEF TypeOK
  <2> QED BY <1>3, <2>2, <2>3 DEF DELETE
<1>4. ASSUME NEW t \in Threads, NEW k \in Keys, NEW v \in Values, NEW ttl \in TTLs,
             SET(t, k, v, ttl)
      PROVE  TypeOK' /\ UniqueKeys'
  <2>1. reply' \in [Threads -> Replies]
    BY <1>4, AnswerType DEF SET, Replies
  <2>2. CASE store' = Discarded(k)
    BY <2>1, <2>2, DiscardedSlots, UsedShrinks DEF TypeOK
  <2> DEFINE e == [used |-> TRUE, key |-> k, value |-> v,
                   left |-> IF ttl = 0 THEN Forever ELSE ttl]
  <2>3. CASE Target(k) # NoSlot /\ store' = [Discarded(k) EXCEPT ![Target(k)] = e]
    <3>1. e \in Entry /\ e.key = k
      <4>1. (IF ttl = 0 THEN Forever ELSE ttl) \in {Forever} \cup 0 .. TTL_MAX
        BY StoreAssumption DEF StoreAssumption
      <4> QED BY <4>1 DEF Entry
    <3>2. Target(k) \in Slots
      BY <2>3, LookupFinds, FreeSlotFinds DEF Target
    <3> HIDE DEF e
    <3>3. store' \in [Slots -> Entry] /\ store'[Target(k)] = e
          /\ \A i \in Slots \ {Target(k)} : store'[i] = Discarded(k)[i]
      BY <2>3, <3>1, <3>2, DiscardedSlots
    <3>4. \A i \in Slots \ {Target(k)} : ~(store'[i].used /\ store'[i].key = k)
      <4>1. CASE lookup(k) = NoSlot
        BY <3>3, <4>1, LookupFinds, DiscardedSlots
      <4>2. CASE lookup(k) # NoSlot
        BY <3>3, <4>2, LookupFinds DEF Target, UniqueKeys
      <4> QED BY <4>1, <4>2
    <3>5. \A i \in Slots \ {Target(k)} : store'[i].used => store[i].used /\ store'[i].key = store[i].key
      BY <3>3, DiscardedSlots
    <3>6. UniqueKeys'
      BY <3>1, <3>3, <3>4, <3>5 DEF UniqueKeys
    <3> QED BY <2>1, <3>3, <3>6 DEF TypeOK
  <2> QED BY <1>4, <2>2, <2>3 DEF SET
<1>5. ASSUME NEW t \in Threads, malformed(t) \/ send_reply(t) PROVE TypeOK' /\ UniqueKeys'
  <2>1. UNCHANGED store
    BY <1>5 DEF malformed, send_reply
  <2>2. reply' \in [Threads -> Replies]
    BY <1>5, AnswerType DEF malformed, send_reply, TypeOK, Replies
  <2> QED BY <2>1, <2>2 DEF TypeOK, UniqueKeys
<1>6. CASE UNCHANGED vars
  BY <1>6 DEF vars, TypeOK, UniqueKeys
<1> QED BY <1>1, <1>2, <1>3, <1>4, <1>5, <1>6 DEF Next, handle_line

LEMMA StoreInvariant == Spec => [](TypeOK /\ UniqueKeys)
BY StoreInit, StoreStep, PTL DEF Spec

\* The store and the replies always have their types.
THEOREM StoreTypeCorrect == Spec => []TypeOK
BY StoreInvariant, PTL

\* No key ever has two slots, for any capacity and any number of threads.
THEOREM KeysAreUnique == Spec => []UniqueKeys
BY StoreInvariant, PTL

-----------------------------------------------------------------------------
\* The array implements the map.

UsedHaveKeys == \A i \in Slots : store[i].used => store[i].key \in Keys

LEMMA UsedHaveKeysStep == TypeOK /\ UniqueKeys /\ UsedHaveKeys /\ [Next]_vars => UsedHaveKeys'
<1> SUFFICES ASSUME TypeOK, UniqueKeys, UsedHaveKeys, [Next]_vars PROVE UsedHaveKeys'
  OBVIOUS
<1>1. ASSUME \A i \in Slots : store'[i].used => store[i].used /\ store'[i].key = store[i].key
      PROVE  UsedHaveKeys'
  BY <1>1 DEF UsedHaveKeys
<1>2. CASE Tick
  BY <1>1, <1>2 DEF Tick, TypeOK, Entry
<1>3. ASSUME NEW k \in Keys, store' = Discarded(k) PROVE UsedHaveKeys'
  BY <1>1, <1>3, DiscardedSlots
<1>4. ASSUME NEW k \in Keys, store' = [store EXCEPT ![lookup(k)].used = FALSE] PROVE UsedHaveKeys'
  <2>1. \A i \in Slots : store'[i].used => store[i].used /\ store'[i].key = store[i].key
    BY <1>4 DEF TypeOK, Entry
  <2> QED BY <1>1, <2>1
<1>5. ASSUME NEW t \in Threads, NEW k \in Keys, NEW v \in Values, NEW ttl \in TTLs,
             SET(t, k, v, ttl), store' # Discarded(k)
      PROVE  UsedHaveKeys'
  <2> DEFINE e == [used |-> TRUE, key |-> k, value |-> v,
                   left |-> IF ttl = 0 THEN Forever ELSE ttl]
  <2>1. store' = [Discarded(k) EXCEPT ![Target(k)] = e]
    BY <1>5 DEF SET
  <2>2. e.key = k
    OBVIOUS
  <2> HIDE DEF e
  <2>3. \A i \in Slots : store'[i] = IF i = Target(k) THEN e ELSE Discarded(k)[i]
    BY <2>1, DiscardedSlots
  <2> QED BY <2>2, <2>3, DiscardedSlots DEF UsedHaveKeys
<1>6. CASE UNCHANGED store
  BY <1>6 DEF UsedHaveKeys
<1>7. ASSUME NEW t \in Threads, handle_line(t) PROVE UsedHaveKeys'
  BY <1>3, <1>4, <1>5, <1>6, <1>7 DEF handle_line, GET, DELETE, SET, malformed
<1> QED BY <1>2, <1>6, <1>7 DEF Next, send_reply, vars

LEMMA MapInvariant == Spec => [](TypeOK /\ UniqueKeys /\ UsedHaveKeys)
<1>1. Init => UsedHaveKeys
  BY DEF Init, UsedHaveKeys
<1> QED BY <1>1, UsedHaveKeysStep, StoreInvariant, PTL DEF Spec

\* What the map has for a key, before and after a step.
ContentsRead(k) ==
    /\ LiveSlots(k) = {} => Contents[k] = Missing
    /\ \A i \in LiveSlots(k) :
         Contents[k] = [value |-> store[i].value, left |-> store[i].left]

LEMMA ContentsBefore == ASSUME UniqueKeys, NEW k \in Keys PROVE ContentsRead(k)
BY DEF ContentsRead, Contents, LiveSlots, UniqueKeys

LEMMA ContentsAfter == ASSUME UniqueKeys', NEW k \in Keys PROVE ContentsRead(k)'
BY DEF ContentsRead, Contents, LiveSlots, UniqueKeys, Expired

\* A key whose live slot is not touched keeps its entry.
LEMMA ContentsKept ==
    ASSUME UniqueKeys, UniqueKeys', NEW k \in Keys,
           \A i \in Slots :
             /\ i \in LiveSlots(k)' <=> i \in LiveSlots(k)
             /\ i \in LiveSlots(k) =>
                  store'[i].value = store[i].value /\ store'[i].left = store[i].left
    PROVE  Contents'[k] = Contents[k]
<1>1. ContentsRead(k) /\ ContentsRead(k)'
  BY ContentsBefore, ContentsAfter
<1>2. LiveSlots(k) \subseteq Slots /\ LiveSlots(k)' \subseteq Slots
  BY DEF LiveSlots
<1>3. CASE LiveSlots(k) = {}
  <2>1. LiveSlots(k)' = {}
    BY <1>2, <1>3
  <2> QED BY <1>1, <1>3, <2>1 DEF ContentsRead
<1>4. CASE LiveSlots(k) # {}
  <2>1. PICK i \in LiveSlots(k) : i \in LiveSlots(k)'
    BY <1>2, <1>4
  <2>2. Contents[k] = [value |-> store[i].value, left |-> store[i].left]
    BY <1>1, <2>1 DEF ContentsRead
  <2>3. Contents'[k] = [value |-> store'[i].value, left |-> store'[i].left]
    BY <1>1, <2>1 DEF ContentsRead
  <2> QED BY <1>2, <2>1, <2>2, <2>3
<1> QED BY <1>3, <1>4

\* A key is live in the map when it has a live slot.
LEMMA LiveKeys ==
    ASSUME TypeOK, UniqueKeys, NEW k \in Keys
    PROVE  k \in M!Live <=> LiveSlots(k) # {}
<1>1. ContentsRead(k)
  BY ContentsBefore
<1>2. ASSUME NEW i \in LiveSlots(k) PROVE Contents[k] # Missing
  <2>1. store[i].value \in Values \cup {NoKey} /\ store[i].left \in Int
    <3>1. store[i] \in Entry
      BY <1>2 DEF LiveSlots, TypeOK
    <3>2. store[i].value \in Values \cup {NoKey} /\ store[i].left \in {Forever} \cup 0 .. TTL_MAX
      BY <3>1 DEF Entry
    <3> QED BY <3>2, StoreAssumption DEF Forever, StoreAssumption
  <2>2. Contents[k] = [value |-> store[i].value, left |-> store[i].left]
    BY <1>1, <1>2 DEF ContentsRead
  <2>3. Contents[k] \in [value: Values \cup {NoKey}, left: Int]
    BY <2>1, <2>2
  <2> QED BY <2>3, StoreAssumption DEF StoreAssumption
<1> QED BY <1>1, <1>2 DEF ContentsRead, M!Live

\* There are as many live keys as live slots.
LEMMA LiveCount ==
    ASSUME TypeOK, UniqueKeys, UsedHaveKeys
    PROVE  /\ Cardinality(M!Live) \in Nat
           /\ Cardinality(M!Live) <= STORE_CAP
           /\ Cardinality(M!Live) = STORE_CAP <=> \A i \in Slots : store[i].used /\ ~Expired(i)
<1> DEFINE S == {i \in Slots : store[i].used /\ ~Expired(i)}
           f == [i \in S |-> store[i].key]
<1>1. \A i \in S : store[i].key \in M!Live
  <2> SUFFICES ASSUME NEW i \in S PROVE store[i].key \in M!Live
    OBVIOUS
  <2>1. store[i].key \in Keys /\ i \in LiveSlots(store[i].key)
    BY DEF UsedHaveKeys, LiveSlots
  <2> QED BY <2>1, LiveKeys
<1>2. f \in Surjection(S, M!Live)
  <2>1. ASSUME NEW k \in M!Live PROVE \E i \in S : store[i].key = k
    <3>1. k \in Keys
      BY DEF M!Live
    <3>2. LiveSlots(k) # {}
      BY <3>1, LiveKeys
    <3> QED BY <3>2 DEF LiveSlots
  <2> QED BY <1>1, <2>1 DEF Surjection
<1>3. f \in Injection(S, M!Live)
  BY <1>1 DEF Injection, IsInjective, UniqueKeys
<1>4. IsFiniteSet(Slots) /\ Cardinality(Slots) = STORE_CAP
  <2>1. Cardinality(Slots) = IF 1 > STORE_CAP THEN 0 ELSE STORE_CAP - 1 + 1
    BY FS_Interval, StoreAssumption DEF Slots, StoreAssumption
  <2> QED BY <2>1, FS_Interval, StoreAssumption DEF Slots, StoreAssumption
<1>5. IsFiniteSet(S) /\ Cardinality(S) <= STORE_CAP /\ (Cardinality(S) = STORE_CAP => S = Slots)
  <2>1. S \in SUBSET Slots
    OBVIOUS
  <2> HIDE DEF S
  <2> QED BY <1>4, <2>1, FS_Subset
<1>6. Cardinality(M!Live) = Cardinality(S) /\ IsFiniteSet(M!Live)
  <2> HIDE DEF S, f
  <2> QED BY <1>2, <1>3, <1>5, FS_Surjection
<1>7. Cardinality(M!Live) \in Nat
  BY <1>6, FS_CardinalityType
<1>8. (\A i \in Slots : store[i].used /\ ~Expired(i)) <=> S = Slots
  OBVIOUS
<1> HIDE DEF S, f
<1> QED BY <1>4, <1>5, <1>6, <1>7, <1>8

\* Discarding a stale entry does not change the map.
LEMMA DiscardInvisible ==
    ASSUME TypeOK, UniqueKeys, UniqueKeys', NEW k, store' = Discarded(k)
    PROVE  UNCHANGED Contents
<1>1. ASSUME NEW j \in Keys PROVE Contents'[j] = Contents[j]
  <2>1. \A i \in Slots :
          /\ i \in LiveSlots(j)' <=> i \in LiveSlots(j)
          /\ store'[i].value = store[i].value /\ store'[i].left = store[i].left
    BY DiscardedSlots DEF LiveSlots, Expired
  <2> QED BY <2>1, ContentsKept
<1> QED BY <1>1 DEF Contents

\* lookup finds exactly the keys of the map.
LEMMA LookupIsLive ==
    ASSUME TypeOK, UniqueKeys, NEW k \in Keys
    PROVE  /\ lookup(k) # NoSlot <=> k \in M!Live
           /\ lookup(k) # NoSlot => lookup(k) \in LiveSlots(k)
BY LookupFinds, LiveKeys DEF LiveSlots

\* The instance of CacheSpec counts as this module does.
LEMMA SameCount == ASSUME NEW S PROVE M!Cardinality(S) = Cardinality(S)
BY DEF Cardinality, M!Cardinality

LEMMA MapInit == Init => M!Init
<1> SUFFICES ASSUME Init PROVE M!Init
  OBVIOUS
<1>1. \A k \in Keys : LiveSlots(k) = {}
  BY DEF Init, LiveSlots
<1> QED BY <1>1 DEF Init, M!Init, Contents

LEMMA MapStep ==
    /\ TypeOK /\ UniqueKeys /\ UsedHaveKeys
    /\ TypeOK' /\ UniqueKeys'
    /\ [Next]_vars
    => [M!Next]_(M!vars)
<1> SUFFICES ASSUME TypeOK, UniqueKeys, UsedHaveKeys, TypeOK', UniqueKeys', [Next]_vars
             PROVE  [M!Next]_(M!vars)
  OBVIOUS
<1>1. CASE Tick
  <2>1. \A i \in Slots : /\ store'[i].used = store[i].used /\ store'[i].key = store[i].key
                         /\ store'[i].value = store[i].value
                         /\ store'[i].left = IF store[i].left > 0 THEN store[i].left - 1
                                                                 ELSE store[i].left
    BY <1>1 DEF Tick, TypeOK, Entry
  <2>2. ASSUME NEW k \in Keys PROVE Contents'[k] = M!Aged(Contents[k])
    <3>0. ContentsRead(k) /\ ContentsRead(k)'
      BY ContentsBefore, ContentsAfter
    <3>1. CASE LiveSlots(k) = {}
      <4>1. LiveSlots(k)' = {}
        <5>1. ASSUME NEW i \in Slots, store[i].left = 0 PROVE store'[i].left = 0
          BY <2>1, <5>1
        <5> QED BY <2>1, <3>1, <5>1 DEF LiveSlots, Expired
      <4> QED BY <3>0, <3>1, <4>1 DEF ContentsRead, M!Aged
    <3>2. CASE LiveSlots(k) # {}
      <4>1. PICK i \in LiveSlots(k) : TRUE
        BY <3>2
      <4>2. i \in Slots /\ store[i].used /\ store[i].key = k /\ store[i].left # 0
            /\ store[i].left \in {Forever} \cup 0 .. TTL_MAX
        BY <4>1 DEF LiveSlots, Expired, TypeOK, Entry
      <4>3. Contents[k] = [value |-> store[i].value, left |-> store[i].left]
        BY <3>0, <4>1 DEF ContentsRead
      <4>4. Contents[k] # Missing
        BY <4>1, LiveKeys DEF M!Live
      <4>5. CASE store[i].left = Forever
        <5>1. store'[i].left = Forever /\ i \in LiveSlots(k)'
          BY <2>1, <4>2, <4>5 DEF Forever, LiveSlots, Expired
        <5>2. Contents'[k] = [value |-> store'[i].value, left |-> store'[i].left]
          BY <3>0, <5>1 DEF ContentsRead
        <5>3. Contents'[k] = Contents[k] /\ Contents[k].left = M!Forever
          BY <2>1, <4>2, <4>3, <4>5, <5>1, <5>2 DEF Forever, M!Forever
        <5> QED BY <4>4, <5>3 DEF M!Aged
      <4>6. CASE store[i].left = 1
        <5>1. store'[i].left = 0
          BY <2>1, <4>2, <4>6
        <5>2. \A j \in Slots : store[j].used /\ store[j].key = k => j = i
          BY <4>2 DEF UniqueKeys
        <5>3. LiveSlots(k)' = {}
          BY <2>1, <5>1, <5>2 DEF LiveSlots, Expired
        <5>4. Contents'[k] = Missing
          BY <3>0, <5>3 DEF ContentsRead
        <5>5. Contents[k].left = 1
          BY <4>3, <4>6
        <5> QED BY <4>4, <5>4, <5>5 DEF M!Aged, M!Forever
      <4>7. CASE store[i].left > 1
        <5>1. store'[i].left = store[i].left - 1 /\ store'[i].left # 0 /\ store[i].left # M!Forever
          BY <2>1, <4>2, <4>7, StoreAssumption DEF M!Forever, Forever, StoreAssumption
        <5>2. i \in LiveSlots(k)'
          BY <2>1, <4>2, <5>1 DEF LiveSlots, Expired
        <5>3. Contents'[k] = [value |-> store'[i].value, left |-> store'[i].left]
          BY <3>0, <5>2 DEF ContentsRead
        <5>4. Contents'[k] = [Contents[k] EXCEPT !.left = @ - 1]
          BY <2>1, <4>2, <4>3, <5>1, <5>3
        <5>5. Contents[k].left # M!Forever /\ Contents[k].left # 1
          BY <4>2, <4>3, <4>7, <5>1, StoreAssumption DEF Forever, StoreAssumption
        <5> QED BY <4>4, <5>4, <5>5 DEF M!Aged
      <4> QED BY <4>2, <4>5, <4>6, <4>7, StoreAssumption DEF StoreAssumption
    <3> QED BY <3>1, <3>2
  <2>3. M!Tick
    BY <1>1, <2>2 DEF Tick, M!Tick, Contents
  <2> QED BY <2>3 DEF M!Next
<1>2. ASSUME NEW t \in Threads, NEW k \in Keys, GET(t, k) PROVE [M!Next]_(M!vars)
  <2>1. UNCHANGED Contents
    BY <1>2, DiscardInvisible DEF GET
  <2>2. CASE lookup(k) = NoSlot
    BY <1>2, <2>1, <2>2, LookupIsLive DEF GET, Answer, M!Next, M!Get, M!Answer
  <2>3. CASE lookup(k) # NoSlot
    <3>1. Contents[k].value = store[lookup(k)].value
      <4>1. lookup(k) \in LiveSlots(k) /\ ContentsRead(k)
        BY <2>3, LookupIsLive, ContentsBefore
      <4>2. Contents[k] = [value |-> store[lookup(k)].value, left |-> store[lookup(k)].left]
        BY <4>1 DEF ContentsRead
      <4> QED BY <4>2
    <3>2. M!Get(t, k)
      BY <1>2, <2>1, <2>3, <3>1, LookupIsLive DEF GET, Answer, M!Get, M!Answer
    <3> QED BY <3>2 DEF M!Next
  <2> QED BY <2>2, <2>3
<1>3. ASSUME NEW t \in Threads, NEW k \in Keys, DELETE(t, k) PROVE [M!Next]_(M!vars)
  <2>1. CASE lookup(k) = NoSlot
    <3>1. UNCHANGED Contents /\ k \notin M!Live
      BY <1>3, <2>1, DiscardInvisible, LookupIsLive DEF DELETE
    <3>2. Contents' = [Contents EXCEPT ![k] = Missing]
      BY <3>1 DEF M!Live, Contents
    <3>3. M!Delete(t, k)
      BY <1>3, <2>1, <3>1, <3>2 DEF DELETE, Answer, M!Delete, M!Answer
    <3> QED BY <3>3 DEF M!Next
  <2>2. CASE lookup(k) # NoSlot
    <3>1. store' = [store EXCEPT ![lookup(k)].used = FALSE] /\ lookup(k) \in LiveSlots(k)
          /\ k \in M!Live
      BY <1>3, <2>2, LookupIsLive DEF DELETE
    <3>2. /\ \A i \in Slots \ {lookup(k)} : store'[i] = store[i]
          /\ ~store'[lookup(k)].used
      BY <3>1 DEF TypeOK, Entry, LiveSlots
    <3>3. ASSUME NEW j \in Keys \ {k} PROVE Contents'[j] = Contents[j]
      <4>1. lookup(k) \notin LiveSlots(j)
        BY <3>1 DEF LiveSlots
      <4>2. \A i \in Slots :
              /\ i \in LiveSlots(j)' <=> i \in LiveSlots(j)
              /\ i \in LiveSlots(j) =>
                   store'[i].value = store[i].value /\ store'[i].left = store[i].left
        BY <3>2, <4>1 DEF LiveSlots, Expired
      <4> QED BY <4>2, ContentsKept
    <3>4. LiveSlots(k)' = {}
      BY <3>1, <3>2 DEF LiveSlots, UniqueKeys
    <3>5. Contents'[k] = Missing
      BY <3>4, ContentsAfter DEF ContentsRead
    <3>6. Contents' = [Contents EXCEPT ![k] = Missing]
      BY <3>3, <3>5 DEF Contents
    <3>7. M!Delete(t, k)
      BY <1>3, <2>2, <3>1, <3>6 DEF DELETE, Answer, M!Delete, M!Answer
    <3> QED BY <3>7 DEF M!Next
  <2> QED BY <2>1, <2>2
<1>4. ASSUME NEW t \in Threads, NEW k \in Keys, NEW v \in Values, NEW ttl \in TTLs,
             SET(t, k, v, ttl)
      PROVE  [M!Next]_(M!vars)
  <2>1. CASE Target(k) = NoSlot
    <3>1. store' = Discarded(k) /\ Answer(t, <<"ERROR", "full">>)
      BY <1>4, <2>1 DEF SET
    <3>2. lookup(k) = NoSlot /\ free_slot(k) = NoSlot
      BY <2>1 DEF Target
    <3>3. UNCHANGED Contents /\ k \notin M!Live
      BY <3>1, <3>2, DiscardInvisible, LookupIsLive
    <3>4. \A i \in Slots : store[i].used /\ ~Expired(i)
      BY <3>2, FreeSlotFinds, DiscardedSlots
    <3>5. Cardinality(M!Live) >= STORE_CAP
      BY <3>4, LiveCount, StoreAssumption DEF StoreAssumption
    <3>6. M!Set(t, k, v, ttl)
      BY <3>1, <3>3, <3>5, SameCount DEF Answer, M!Set, M!Answer
    <3> QED BY <3>6 DEF M!Next
  <2>2. CASE Target(k) # NoSlot
    <3> DEFINE e == [used |-> TRUE, key |-> k, value |-> v,
                     left |-> IF ttl = 0 THEN Forever ELSE ttl]
               b == [value |-> v, left |-> IF ttl = 0 THEN M!Forever ELSE ttl]
    <3>1. store' = [Discarded(k) EXCEPT ![Target(k)] = e] /\ Answer(t, <<"OK">>)
      BY <1>4, <2>2 DEF SET
    <3>2. /\ e.used /\ e.key = k /\ e.left # 0
          /\ [value |-> e.value, left |-> e.left] = b
      BY StoreAssumption DEF Forever, M!Forever, StoreAssumption
    <3> HIDE DEF e, b
    <3>3. /\ Target(k) \in Slots
          /\ lookup(k) = NoSlot => ~Discarded(k)[Target(k)].used \/ Expired(Target(k))
      BY <2>2, LookupFinds, FreeSlotFinds DEF Target
    <3>4. store'[Target(k)] = e /\ \A i \in Slots \ {Target(k)} : store'[i] = Discarded(k)[i]
      BY <3>1, <3>3, DiscardedSlots
    <3>5. Target(k) \in LiveSlots(k)'
      BY <3>2, <3>3, <3>4 DEF LiveSlots, Expired
    <3>6. Contents'[k] = b
      BY <3>2, <3>4, <3>5, ContentsAfter DEF ContentsRead
    <3>7. ASSUME NEW j \in Keys \ {k} PROVE Contents'[j] = Contents[j]
      <4>1. Target(k) \notin LiveSlots(j)
        <5>1. CASE lookup(k) = NoSlot
          BY <3>3, <5>1, DiscardedSlots DEF LiveSlots
        <5>2. CASE lookup(k) # NoSlot
          BY <5>2, LookupFinds DEF LiveSlots, Target
        <5> QED BY <5>1, <5>2
      <4>2. Target(k) \notin LiveSlots(j)'
        BY <3>2, <3>4 DEF LiveSlots
      <4>3. \A i \in Slots \ {Target(k)} :
              /\ i \in LiveSlots(j)' <=> i \in LiveSlots(j)
              /\ store'[i].value = store[i].value /\ store'[i].left = store[i].left
        BY <3>4, DiscardedSlots DEF LiveSlots, Expired
      <4>4. \A i \in Slots :
              /\ i \in LiveSlots(j)' <=> i \in LiveSlots(j)
              /\ i \in LiveSlots(j) =>
                   store'[i].value = store[i].value /\ store'[i].left = store[i].left
        BY <4>1, <4>2, <4>3
      <4> QED BY <4>4, ContentsKept
    <3>8. Contents' = [Contents EXCEPT ![k] = b]
      BY <3>6, <3>7 DEF Contents
    <3>9. k \in M!Live \/ Cardinality(M!Live) < STORE_CAP
      <4>1. CASE lookup(k) # NoSlot
        BY <4>1, LookupIsLive
      <4>2. CASE lookup(k) = NoSlot
        <5>1. ~(store[Target(k)].used /\ ~Expired(Target(k)))
          BY <3>3, <4>2, DiscardedSlots
        <5>2. Cardinality(M!Live) # STORE_CAP
          BY <3>3, <5>1, LiveCount
        <5> QED BY <5>2, LiveCount, StoreAssumption DEF StoreAssumption
      <4> QED BY <4>1, <4>2
    <3>10. M!Set(t, k, v, ttl)
      BY <3>1, <3>8, <3>9, SameCount DEF Answer, M!Set, M!Answer, b
    <3> QED BY <3>10 DEF M!Next
  <2> QED BY <2>1, <2>2
<1>5. ASSUME NEW t \in Threads, malformed(t) \/ send_reply(t) PROVE [M!Next]_(M!vars)
  <2>1. UNCHANGED Contents
    BY <1>5 DEF malformed, send_reply, Contents, LiveSlots, Expired
  <2>2. M!Malformed(t) \/ M!Send(t)
    BY <1>5, <2>1 DEF malformed, send_reply, Answer, M!Malformed, M!Send, M!Answer
  <2> QED BY <2>2 DEF M!Next
<1>6. CASE UNCHANGED vars
  BY <1>6 DEF vars, M!vars, Contents, LiveSlots, Expired
<1> QED BY <1>1, <1>2, <1>3, <1>4, <1>5, <1>6 DEF Next, handle_line

\* The array of slots with lazy expiry is a map with exact expiry and room
\* for STORE_CAP live keys.
THEOREM StoreIsMap == Spec => ImplementsMap
BY MapInit, MapStep, MapInvariant, PTL DEF Spec, ImplementsMap, M!Spec
=============================================================================
