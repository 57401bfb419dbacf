------------------------- MODULE CacheServerProofs -------------------------
(***************************************************************************)
(* Theorems about CacheServer, for every number of connections and every   *)
(* CLIENT_LIMIT.  The set of connections need not be finite: at any time   *)
(* finitely many of them hold a slot.                                      *)
(***************************************************************************)
EXTENDS CacheServer, CacheStoreProofs

-----------------------------------------------------------------------------
\* Every step of the server is a step of the store, or leaves it alone.
LEMMA ServerStepsStore == [ServerNext]_serverVars => [Next]_vars
<1> SUFFICES ASSUME [ServerNext]_serverVars PROVE [Next]_vars
  OBVIOUS
<1>1. CASE Tick /\ UNCHANGED connVars
  BY <1>1 DEF Next
<1>2. ASSUME NEW c \in Threads, connect(c) \/ disconnect(c) PROVE UNCHANGED vars
  BY <1>2 DEF connect, disconnect
<1>3. ASSUME NEW c \in Threads, main(c) PROVE UNCHANGED vars
  BY <1>3 DEF main, accept, reserve_client_slot, reject, start_thread, start_fails, close_unstarted
<1>4. ASSUME NEW c \in Threads, client_thread(c) PROVE [Next]_vars
  <2>1. CASE command(c)
    BY <2>1 DEF command, Next
  <2>2. CASE reply_sent(c) \/ reply_lost(c)
    BY <2>2 DEF reply_sent, reply_lost, Next
  <2>3. CASE recv_ends(c) \/ oversized(c) \/ close(c) \/ release_client_slot(c)
    BY <2>3 DEF recv_ends, oversized, close, release_client_slot
  <2> QED BY <1>4, <2>1, <2>2, <2>3 DEF client_thread
<1>5. CASE UNCHANGED serverVars
  BY <1>5 DEF serverVars
<1> QED BY <1>1, <1>2, <1>3, <1>4, <1>5 DEF ServerNext

LEMMA ServerRunsStore == ServerSpec => Spec
BY ServerStepsStore, PTL DEF ServerSpec, ServerInit, Spec

\* The threads and the accept loop together are still the map of CacheSpec.
THEOREM ServerIsMap == ServerSpec => ImplementsMap
BY ServerRunsStore, StoreIsMap

-----------------------------------------------------------------------------
\* Under what the count of slots is inductive.
CountInv ==
    /\ backlog \in Seq(Threads)
    /\ conn \in [Threads -> ConnStates]
    /\ gone \in [Threads -> BOOLEAN]
    /\ IsFiniteSet(Holders)
    /\ active_clients = Cardinality(Holders)
    /\ active_clients <= CLIENT_LIMIT

\* The states of Holders, as a predicate of one state name.
Counted(s) == s \in {"reserved", "serving", "closing", "closed"}

\* A connection that moves between states on the same side of the count.
LEMMA HoldersSame ==
    ASSUME NEW c \in Threads, NEW from, NEW to, conn \in [Threads -> ConnStates],
           to \in ConnStates, Move(c, from, to), Counted(from) <=> Counted(to)
    PROVE  Holders' = Holders /\ conn' \in [Threads -> ConnStates]
BY DEF Move, Holders, Counted

LEMMA HoldersGrow ==
    ASSUME NEW c \in Threads, NEW from, NEW to, conn \in [Threads -> ConnStates],
           to \in ConnStates, Move(c, from, to), ~Counted(from), Counted(to)
    PROVE  /\ Holders' = Holders \cup {c} /\ c \notin Holders
           /\ conn' \in [Threads -> ConnStates]
BY DEF Move, Holders, Counted

LEMMA HoldersShrink ==
    ASSUME NEW c \in Threads, NEW from, NEW to, conn \in [Threads -> ConnStates],
           to \in ConnStates, Move(c, from, to), Counted(from), ~Counted(to)
    PROVE  /\ Holders' = Holders \ {c} /\ c \in Holders
           /\ conn' \in [Threads -> ConnStates]
BY DEF Move, Holders, Counted

\* What the three lemmas give, whatever else the step does.
LEMMA CountKept ==
    ASSUME CountInv, NEW c \in Threads, NEW from, NEW to, to \in ConnStates,
           Move(c, from, to), Counted(from) <=> Counted(to), UNCHANGED active_clients,
           backlog' \in Seq(Threads), gone' \in [Threads -> BOOLEAN]
    PROVE  CountInv'
BY HoldersSame DEF CountInv

LEMMA CountReleased ==
    ASSUME CountInv, NEW c \in Threads, NEW from, NEW to, to \in ConnStates,
           Move(c, from, to), Counted(from), ~Counted(to),
           active_clients' = active_clients - 1, UNCHANGED <<backlog, gone>>
    PROVE  CountInv'
<1>1. Holders' = Holders \ {c} /\ c \in Holders /\ conn' \in [Threads -> ConnStates]
  BY HoldersShrink DEF CountInv
<1>2. Cardinality(Holders) \in Nat
  BY FS_CardinalityType DEF CountInv
<1>3. IsFiniteSet(Holders') /\ Cardinality(Holders') = Cardinality(Holders) - 1
  BY <1>1, FS_RemoveElement DEF CountInv
<1> QED BY <1>1, <1>2, <1>3, LimitAssumption DEF CountInv, LimitAssumption

LEMMA CountInit == ServerInit => CountInv
<1> SUFFICES ASSUME ServerInit PROVE CountInv
  OBVIOUS
<1>1. Holders = {}
  BY DEF ServerInit, Holders
<1> QED BY <1>1, FS_EmptySet, LimitAssumption
        DEF ServerInit, CountInv, ConnStates, LimitAssumption

LEMMA CountStep == CountInv /\ [ServerNext]_serverVars => CountInv'
<1> SUFFICES ASSUME CountInv, [ServerNext]_serverVars PROVE CountInv'
  OBVIOUS
<1> USE DEF ConnStates, MainStates, Counted
<1>1. ASSUME UNCHANGED connVars PROVE CountInv'
  BY <1>1 DEF connVars, CountInv, Holders
<1>2. ASSUME NEW c \in Threads, connect(c) PROVE CountInv'
  <2>1. Move(c, "idle", "queued") /\ UNCHANGED active_clients
    BY <1>2 DEF connect
  <2>2. backlog' \in Seq(Threads) /\ gone' \in [Threads -> BOOLEAN]
    BY <1>2 DEF connect, CountInv
  <2> QED BY <2>1, <2>2, CountKept
<1>3. ASSUME NEW c \in Threads, disconnect(c) PROVE CountInv'
  <2>1. gone' \in [Threads -> BOOLEAN] /\ UNCHANGED <<backlog, conn, active_clients>>
    BY <1>3 DEF disconnect, CountInv
  <2> QED BY <2>1 DEF CountInv, Holders
<1>4. ASSUME NEW c \in Threads, main(c) PROVE CountInv'
  <2>1. CASE accept(c)
    <3>1. Move(c, "queued", "accepted") /\ UNCHANGED <<gone, active_clients>>
          /\ backlog' \in Seq(Threads)
      BY <2>1 DEF accept, CountInv
    <3> QED BY <3>1, CountKept DEF CountInv
  <2>2. CASE reserve_client_slot(c)
    <3>1. CASE active_clients < CLIENT_LIMIT /\ Move(c, "accepted", "reserved")
               /\ active_clients' = active_clients + 1
      <4>1. /\ Holders' = Holders \cup {c} /\ c \notin Holders
            /\ conn' \in [Threads -> ConnStates]
        BY <3>1, HoldersGrow DEF CountInv
      <4>2. Cardinality(Holders) \in Nat
        BY FS_CardinalityType DEF CountInv
      <4>3. IsFiniteSet(Holders') /\ Cardinality(Holders') = Cardinality(Holders) + 1
        BY <4>1, FS_AddElement DEF CountInv
      <4> QED BY <2>2, <3>1, <4>1, <4>2, <4>3, LimitAssumption
              DEF CountInv, reserve_client_slot, LimitAssumption
    <3>2. CASE Move(c, "accepted", "rejecting") /\ UNCHANGED active_clients
      BY <2>2, <3>2, CountKept DEF CountInv, reserve_client_slot
    <3> QED BY <2>2, <3>1, <3>2 DEF reserve_client_slot
  <2>3. CASE reject(c)
    BY <2>3, CountKept DEF CountInv, reject
  <2>4. CASE start_thread(c)
    BY <2>4, CountKept DEF CountInv, start_thread
  <2>5. CASE start_fails(c)
    BY <2>5, CountReleased DEF start_fails
  <2>6. CASE close_unstarted(c)
    BY <2>6, CountKept DEF CountInv, close_unstarted
  <2> QED BY <1>4, <2>1, <2>2, <2>3, <2>4, <2>5, <2>6 DEF main
<1>5. ASSUME NEW c \in Threads, client_thread(c) PROVE CountInv'
  <2>1. CASE command(c) \/ reply_sent(c)
    BY <1>1, <2>1 DEF command, reply_sent
  <2>2. CASE reply_lost(c)
    BY <2>2, CountKept DEF CountInv, reply_lost
  <2>3. CASE recv_ends(c)
    BY <2>3, CountKept DEF CountInv, recv_ends
  <2>4. CASE oversized(c)
    BY <2>4, CountKept DEF CountInv, oversized
  <2>5. CASE close(c)
    BY <2>5, CountKept DEF CountInv, close
  <2>6. CASE release_client_slot(c)
    BY <2>6, CountReleased DEF release_client_slot
  <2> QED BY <1>5, <2>1, <2>2, <2>3, <2>4, <2>5, <2>6 DEF client_thread
<1>6. CASE UNCHANGED serverVars
  BY <1>1, <1>6 DEF serverVars
<1> QED BY <1>1, <1>2, <1>3, <1>4, <1>5, <1>6 DEF ServerNext

LEMMA CountInvariant == ServerSpec => []CountInv
BY CountInit, CountStep, PTL DEF ServerSpec

\* active_clients counts exactly the connections that hold a slot and never
\* exceeds CLIENT_LIMIT.
THEOREM SlotsAreCounted == ServerSpec => []SlotsCounted
<1>1. CountInv => SlotsCounted
  BY DEF CountInv, SlotsCounted
<1> QED BY <1>1, CountInvariant, PTL

\* The server's state always has its type; that active_clients is a natural
\* number up to the limit follows from what it counts.
THEOREM ServerTypeCorrect == ServerSpec => []ServerTypeOK
<1>1. TypeOK /\ CountInv => ServerTypeOK
  <2> SUFFICES ASSUME TypeOK, CountInv PROVE ServerTypeOK
    OBVIOUS
  <2>1. Cardinality(Holders) \in Nat
    BY FS_CardinalityType DEF CountInv
  <2> QED BY <2>1, LimitAssumption DEF CountInv, ServerTypeOK, LimitAssumption
<1> QED BY <1>1, CountInvariant, ServerRunsStore, StoreTypeCorrect, PTL
=============================================================================
