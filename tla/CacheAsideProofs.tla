-------------------------- MODULE CacheAsideProofs --------------------------
(***************************************************************************)
(* Theorems about CacheAside, for any number of handlers, connections and  *)
(* other clients of the cache, and any capacity and client limit of it.    *)
(***************************************************************************)
EXTENDS CacheAside, CacheServerProofs

\* What is stored of the answer to GET /hello.
LEMMA HelloValue == CacheValue(respond("hello")) = HelloText
BY DEF CacheValue, respond, Body

-----------------------------------------------------------------------------
\* The composition runs the cache as CacheServer has it.

LEMMA AsideStepsServer == [AsideNext]_allVars => [ServerNext]_serverVars
<1> SUFFICES ASSUME [AsideNext]_allVars PROVE [ServerNext]_serverVars
  OBVIOUS
<1>1. CASE Tick /\ UNCHANGED <<connVars, asideVars>>
  BY <1>1 DEF ServerNext
<1>2. ASSUME NEW h \in Handlers, handler(h) PROVE [ServerNext]_serverVars
  <2>1. ASSUME NEW c \in Threads \ Others, send_command(h, c) PROVE ServerNext
    BY <2>1 DEF send_command, ServerNext
  <2>2. CASE command_fails(h) \/ command_returns(h) \/ origin(h) \/ finish(h)
    BY <2>2 DEF command_fails, command_returns, origin, finish
  <2> QED BY <1>2, <2>1, <2>2 DEF handler
<1>3. ASSUME NEW h \in Handlers, NEW r \in Requests, handle_connection(h, r)
      PROVE  UNCHANGED serverVars
  BY <1>3 DEF handle_connection
<1>4. ASSUME NEW c \in Threads \ Others, execute(c) PROVE ServerNext
  <2>1. handle_line(c)
    BY <1>4, HelloValue, AsideAssumption DEF execute, handle_line, AsideAssumption
  <2>2. command(c)
    BY <1>4, <2>1 DEF execute, command
  <2> QED BY <2>2 DEF ServerNext, client_thread
<1>5. ASSUME NEW c \in Threads \ Others,
             reply_arrives(c) \/ turned_away(c) \/ unstarted(c) \/ hang_up(c)
      PROVE  ServerNext
  BY <1>5 DEF reply_arrives, turned_away, unstarted, hang_up, ServerNext, client_thread, main
<1>6. ASSUME NEW c \in Threads \ Others, serve(c) PROVE ServerNext
  BY <1>6 DEF serve, ServerNext, client_thread, main
<1>7. ASSUME NEW c \in Others, other_client(c) PROVE ServerNext
  <2>0. c \in Threads
    BY AsideAssumption DEF AsideAssumption
  <2>1. CASE /\ conn[c] = "serving" /\ ~gone[c]
             /\ \E k \in Keys \ {CACHE_KEY} :
                  DELETE(c, k) \/ \E v \in Values \ {HelloText}, ttl \in TTLs : SET(c, k, v, ttl)
             /\ UNCHANGED connVars
    <3>1. handle_line(c)
      BY <2>1 DEF handle_line
    <3>2. command(c)
      BY <2>1, <3>1 DEF command
    <3> QED BY <2>0, <3>2 DEF ServerNext, client_thread
  <2> QED BY <1>7, <2>0, <2>1 DEF other_client, ServerNext, client_thread
<1>8. CASE UNCHANGED allVars
  BY <1>8 DEF allVars
<1> QED BY <1>1, <1>2, <1>3, <1>4, <1>5, <1>6, <1>7, <1>8 DEF AsideNext

LEMMA AsideRunsServer == AsideSpec => ServerSpec
BY AsideStepsServer, PTL DEF AsideSpec, AsideInit, ServerSpec

\* Whatever the handlers do, and whenever they give up, active_clients of
\* the cache counts the connections that hold a slot.
THEOREM AsideCountsSlots == AsideSpec => []SlotsCounted
BY AsideRunsServer, SlotsAreCounted

\* With handlers that leave their commands behind, the cache is still a map.
THEOREM AsideIsMap == AsideSpec => ImplementsMap
BY AsideRunsServer, ServerIsMap

-----------------------------------------------------------------------------
\* What the handlers answer.

\* The lines a handler may read: its commands are about CACHE_KEY only, so
\* a value is the one a handler has stored.
HelloReplies ==
    {None, <<"OK">>, <<"NOT_FOUND">>, <<"ERROR", "full">>, <<"ERROR", "line">>,
     <<"VALUE", HelloText>>}

\* The key of the cached response never has another value, in whatever slot
\* and however stale,
HelloStored ==
    \A i \in Slots : store[i].used /\ store[i].key = CACHE_KEY => store[i].value = HelloText

\* nor is another value on its way to a handler;
HelloSent == \A c \in Threads \ Others : reply[c] \in HelloReplies

HelloGot == \A h \in Handlers : inbox[h] \in HelloReplies

\* only GET /hello goes by the cache.
HelloAsked == \A h \in Handlers : http[h] \in Commands => request[h] = "hello"

\* A handler has a connection only while it waits for a command on it.
SocketInUse == \A h \in Handlers : socket[h] # NoSocket => http[h] \in Commands

HelloInv ==
    /\ HelloStored /\ HelloSent /\ HelloGot
    /\ HelloAsked /\ SocketInUse /\ AnswersAgree

AsideTypes ==
    /\ http \in [Handlers -> Steps]
    /\ request \in [Handlers -> Requests]
    /\ socket \in [Handlers -> (Threads \ Others) \cup {NoSocket}]
    /\ inbox \in [Handlers -> Replies]
    /\ wire \in [Threads \ Others -> Commands \cup {"none"}]
    /\ answer \in [Handlers -> Bodies \cup {NoBody}]

AsideInv == AsideTypes /\ HelloInv

\* The store: what is found under CACHE_KEY.

LEMMA StoreKept ==
    ASSUME HelloStored,
           \A i \in Slots : store'[i].used => /\ store[i].used /\ store'[i].key = store[i].key
                                              /\ store'[i].value = store[i].value
    PROVE  HelloStored'
BY DEF HelloStored

LEMMA DiscardKeeps ==
    ASSUME TypeOK, HelloStored, NEW k, store' = Discarded(k)
    PROVE  HelloStored'
BY DiscardedSlots, StoreKept

LEMMA DeleteKeeps ==
    ASSUME TypeOK, UniqueKeys, HelloStored, NEW t, NEW k, DELETE(t, k)
    PROVE  HelloStored'
<1>1. CASE lookup(k) # NoSlot /\ store' = [store EXCEPT ![lookup(k)].used = FALSE]
  <2>1. lookup(k) \in Slots
    BY <1>1, LookupFinds
  <2>2. \A i \in Slots : store'[i].used => /\ store[i].used /\ store'[i].key = store[i].key
                                           /\ store'[i].value = store[i].value
    BY <1>1, <2>1 DEF TypeOK, Entry
  <2> QED BY <2>2, StoreKept
<1> QED BY <1>1, DiscardKeeps DEF DELETE

\* A SET of another key, or of the response itself.
LEMMA SetKeeps ==
    ASSUME TypeOK, UniqueKeys, HelloStored, NEW t, NEW k, NEW v, NEW ttl, SET(t, k, v, ttl),
           k = CACHE_KEY => v = HelloText
    PROVE  HelloStored'
<1> DEFINE e == [used |-> TRUE, key |-> k, value |-> v, left |-> IF ttl = 0 THEN Forever ELSE ttl]
<1>1. CASE Target(k) # NoSlot /\ store' = [Discarded(k) EXCEPT ![Target(k)] = e]
  <2>1. Target(k) \in Slots
    BY <1>1, LookupFinds, FreeSlotFinds DEF Target
  <2>2. e.key = k /\ e.value = v
    OBVIOUS
  <2> HIDE DEF e
  <2>3. store'[Target(k)] = e /\ \A i \in Slots \ {Target(k)} : store'[i] = Discarded(k)[i]
    BY <1>1, <2>1, DiscardedSlots
  <2>4. \A i \in Slots \ {Target(k)} :
          store'[i].used => /\ store[i].used /\ store'[i].key = store[i].key
                            /\ store'[i].value = store[i].value
    BY <2>3, DiscardedSlots
  <2> QED BY <2>1, <2>2, <2>3, <2>4 DEF HelloStored
<1> QED BY <1>1, DiscardKeeps DEF SET

\* The replies to the two commands of a handler.
LEMMA GetReply ==
    ASSUME TypeOK, UniqueKeys, HelloStored, NEW t, GET(t, CACHE_KEY)
    PROVE  \E r \in HelloReplies : Answer(t, r)
<1>1. CASE lookup(CACHE_KEY) = NoSlot
  BY <1>1 DEF GET, HelloReplies
<1>2. CASE lookup(CACHE_KEY) # NoSlot
  <2>1. store[lookup(CACHE_KEY)].value = HelloText
    BY <1>2, LookupFinds DEF HelloStored
  <2>2. Answer(t, <<"VALUE", HelloText>>)
    BY <1>2, <2>1 DEF GET
  <2> QED BY <2>2 DEF HelloReplies
<1> QED BY <1>1, <1>2

LEMMA SetReply ==
    ASSUME NEW t, NEW k, NEW v, NEW ttl, SET(t, k, v, ttl)
    PROVE  \E r \in HelloReplies : Answer(t, r)
BY DEF SET, HelloReplies

LEMMA ReplyTypes ==
    /\ HelloReplies \subseteq Replies
    /\ None \in HelloReplies /\ <<"ERROR", "line">> \in HelloReplies
    /\ \A r \in HelloReplies \ {None} : r[1] = "VALUE" => r[2] = HelloText
<1>1. HelloReplies \subseteq Replies
  BY AsideAssumption DEF AsideAssumption, HelloReplies, Replies
<1>2. None \in HelloReplies /\ <<"ERROR", "line">> \in HelloReplies
  BY DEF HelloReplies
<1>3. \A r \in HelloReplies \ {None} : r[1] = "VALUE" => r[2] = HelloText
  BY DEF HelloReplies
<1> QED BY <1>1, <1>2, <1>3

\* The handlers' own steps leave the cache alone, or only connect to it.
LEMMA HandlerStep ==
    ASSUME AsideInv, NEW h \in Handlers,
           handler(h) \/ \E r \in Requests : handle_connection(h, r)
    PROVE  AsideInv'
<1> USE DEF Steps, Commands
<1>0. ASSUME UNCHANGED <<store, reply>> PROVE HelloStored' /\ HelloSent'
  BY <1>0 DEF AsideInv, HelloInv, HelloStored, HelloSent
<1>1. ASSUME NEW r \in Requests, handle_connection(h, r) PROVE AsideInv'
  <2>1. UNCHANGED <<store, reply, socket, inbox, wire, answer>>
    BY <1>1 DEF handle_connection, serverVars, vars
  <2>2. /\ http[h] = "idle"
        /\ request' = [request EXCEPT ![h] = r]
        /\ http' = [http EXCEPT ![h] = IF r = "hello" THEN "get" ELSE "respond"]
    BY <1>1 DEF handle_connection
  <2>3. AsideTypes'
    BY <2>1, <2>2 DEF AsideInv, AsideTypes
  <2>4. HelloGot'
    BY <2>1 DEF AsideInv, HelloInv, HelloGot
  <2>5. HelloAsked' /\ SocketInUse' /\ AnswersAgree'
    BY <2>1, <2>2 DEF AsideInv, AsideTypes, HelloInv, HelloAsked, SocketInUse, AnswersAgree, respond, Body
  <2> QED BY <1>0, <2>1, <2>3, <2>4, <2>5 DEF AsideInv, HelloInv
<1>2. ASSUME NEW c \in Threads \ Others, send_command(h, c) PROVE AsideInv'
  <2>1. UNCHANGED <<store, reply, http, request, answer>>
    BY <1>2 DEF send_command, connect, vars
  <2>2. /\ http[h] \in Commands
        /\ wire' = [wire EXCEPT ![c] = http[h]]
        /\ socket' = [socket EXCEPT ![h] = c]
        /\ inbox' = [inbox EXCEPT ![h] = None]
    BY <1>2 DEF send_command
  <2>3. AsideTypes'
    BY <2>1, <2>2, ReplyTypes DEF AsideInv, AsideTypes
  <2>4. HelloGot'
    BY <2>2, ReplyTypes DEF AsideInv, AsideTypes, HelloInv, HelloGot
  <2>5. HelloAsked' /\ SocketInUse' /\ AnswersAgree'
    BY <2>1, <2>2 DEF AsideInv, AsideTypes, HelloInv, HelloAsked, SocketInUse, AnswersAgree, respond
  <2> QED BY <1>0, <2>1, <2>3, <2>4, <2>5 DEF AsideInv, HelloInv
<1>3. CASE command_fails(h)
  <2>1. UNCHANGED <<store, reply, request, wire, answer>>
    BY <1>3 DEF command_fails, serverVars, vars
  <2>2. /\ http' = [http EXCEPT ![h] = "respond"]
        /\ socket' = [socket EXCEPT ![h] = NoSocket]
        /\ inbox' = [inbox EXCEPT ![h] = None]
    BY <1>3 DEF command_fails
  <2>3. AsideTypes'
    BY <2>1, <2>2, ReplyTypes DEF AsideInv, AsideTypes
  <2>4. HelloGot'
    BY <2>2, ReplyTypes DEF AsideInv, AsideTypes, HelloInv, HelloGot
  <2>5. HelloAsked' /\ SocketInUse' /\ AnswersAgree'
    BY <2>1, <2>2 DEF AsideInv, AsideTypes, HelloInv, HelloAsked, SocketInUse, AnswersAgree, respond, Body
  <2> QED BY <1>0, <2>1, <2>3, <2>4, <2>5 DEF AsideInv, HelloInv
<1>4. CASE command_returns(h)
  <2>1. UNCHANGED <<store, reply, request, wire>> /\ inbox[h] # None
    BY <1>4 DEF command_returns, serverVars, vars
  <2>2. /\ socket' = [socket EXCEPT ![h] = NoSocket]
        /\ inbox' = [inbox EXCEPT ![h] = None]
    BY <1>4 DEF command_returns
  <2>3. HelloGot'
    BY <2>2, ReplyTypes DEF AsideInv, AsideTypes, HelloInv, HelloGot
  <2>4. CASE /\ http[h] = "get" /\ inbox[h][1] = "VALUE"
             /\ http' = [http EXCEPT ![h] = "answered"]
             /\ answer' = [answer EXCEPT ![h] = Restore(inbox[h][2])]
    <3>1. inbox[h][2] = HelloText
      BY <2>1, <2>4, ReplyTypes DEF AsideInv, HelloInv, HelloGot
    <3>2. request[h] = "hello"
      BY <2>4 DEF AsideInv, HelloInv, HelloAsked
    <3>3. Restore(inbox[h][2]) = respond(request[h])
      BY <3>1, <3>2 DEF Restore, respond
    <3>4. respond(request[h]) \in Bodies
      BY <3>2, AsideAssumption DEF AsideAssumption, respond, Bodies, Body
    <3>5. AsideTypes'
      BY <2>1, <2>2, <2>4, <3>3, <3>4, ReplyTypes DEF AsideInv, AsideTypes
    <3>6. HelloAsked' /\ SocketInUse' /\ AnswersAgree'
      BY <2>1, <2>2, <2>4, <3>3 DEF AsideInv, AsideTypes, HelloInv, HelloAsked, SocketInUse, AnswersAgree, respond
    <3> QED BY <1>0, <2>1, <2>3, <3>5, <3>6 DEF AsideInv, HelloInv
  <2>5. ASSUME NEW step \in {"set", "respond"}, http' = [http EXCEPT ![h] = step],
               UNCHANGED answer, http[h] \in Commands
        PROVE  AsideInv'
    <3>1. AsideTypes'
      BY <2>1, <2>2, <2>5, ReplyTypes DEF AsideInv, AsideTypes
    <3>2. HelloAsked' /\ SocketInUse' /\ AnswersAgree'
      BY <2>1, <2>2, <2>5 DEF AsideInv, AsideTypes, HelloInv, HelloAsked, SocketInUse, AnswersAgree, respond
    <3> QED BY <1>0, <2>1, <2>3, <3>1, <3>2 DEF AsideInv, HelloInv
  <2>6. http[h] \in Commands
    BY <1>4 DEF command_returns, AsideInv, HelloInv, SocketInUse
  <2> QED BY <1>4, <2>4, <2>5, <2>6 DEF command_returns
<1>5. CASE origin(h)
  <2>1. UNCHANGED <<store, reply, request, socket, inbox, wire>>
    BY <1>5 DEF origin, serverVars, vars
  <2>2. /\ http[h] = "respond"
        /\ http' = [http EXCEPT ![h] = "answered"]
        /\ answer' = [answer EXCEPT ![h] = respond(request[h])]
    BY <1>5 DEF origin
  <2>3. respond(request[h]) \in Bodies
    BY AsideAssumption DEF AsideAssumption, respond, Bodies, Body
  <2>4. AsideTypes'
    BY <2>1, <2>2, <2>3 DEF AsideInv, AsideTypes
  <2>5. HelloGot'
    BY <2>1 DEF AsideInv, HelloInv, HelloGot
  <2>6. HelloAsked' /\ SocketInUse' /\ AnswersAgree'
    BY <2>1, <2>2 DEF AsideInv, AsideTypes, HelloInv, HelloAsked, SocketInUse, AnswersAgree, respond
  <2> QED BY <1>0, <2>1, <2>4, <2>5, <2>6 DEF AsideInv, HelloInv
<1>6. CASE finish(h)
  <2>1. UNCHANGED <<store, reply, request, socket, inbox, wire>>
    BY <1>6 DEF finish, serverVars, vars
  <2>2. /\ http[h] = "answered"
        /\ http' = [http EXCEPT ![h] = "idle"]
        /\ answer' = [answer EXCEPT ![h] = NoBody]
    BY <1>6 DEF finish
  <2>3. AsideTypes'
    BY <2>1, <2>2 DEF AsideInv, AsideTypes
  <2>4. HelloGot'
    BY <2>1 DEF AsideInv, HelloInv, HelloGot
  <2>5. HelloAsked' /\ SocketInUse' /\ AnswersAgree'
    BY <2>1, <2>2 DEF AsideInv, AsideTypes, HelloInv, HelloAsked, SocketInUse, AnswersAgree, respond
  <2> QED BY <1>0, <2>1, <2>3, <2>4, <2>5 DEF AsideInv, HelloInv
<1> QED BY <1>1, <1>2, <1>3, <1>4, <1>5, <1>6 DEF handler

\* A step of the cache is good for the handlers if the store stays good,
\* and the lines on their way to them do.
LEMMA CacheSideStep ==
    ASSUME AsideInv, HelloStored', HelloSent', UNCHANGED <<http, request, socket, answer>>,
           wire' \in [Threads \ Others -> Commands \cup {"none"}],
           inbox' \in [Handlers -> HelloReplies]
    PROVE  AsideInv'
<1>1. AsideTypes'
  BY ReplyTypes DEF AsideInv, AsideTypes
<1>2. HelloGot' /\ HelloAsked' /\ SocketInUse' /\ AnswersAgree'
  BY DEF AsideInv, HelloInv, HelloGot, HelloAsked, SocketInUse, AnswersAgree, respond
<1> QED BY <1>1, <1>2 DEF AsideInv, HelloInv

\* A thread gets a reply to send, or has sent it: what other clients are sent
\* does not matter to the handlers.
LEMMA ReplyStep ==
    ASSUME TypeOK, HelloSent, NEW c \in Threads, NEW r \in Replies,
           c \in Threads \ Others => r \in HelloReplies,
           reply' = [reply EXCEPT ![c] = r]
    PROVE  HelloSent'
BY DEF HelloSent, TypeOK

LEMMA AsideStep ==
    TypeOK /\ UniqueKeys /\ AsideInv /\ [AsideNext]_allVars => AsideInv'
<1> SUFFICES ASSUME TypeOK, UniqueKeys, AsideInv, [AsideNext]_allVars PROVE AsideInv'
  OBVIOUS
<1>0. /\ HelloStored /\ HelloSent
      /\ wire \in [Threads \ Others -> Commands \cup {"none"}]
      /\ inbox \in [Handlers -> HelloReplies]
  BY DEF AsideInv, AsideTypes, HelloInv, HelloGot
<1>1. ASSUME UNCHANGED asideVars, HelloStored', HelloSent' PROVE AsideInv'
  BY <1>0, <1>1, CacheSideStep DEF asideVars
<1>2. ASSUME UNCHANGED vars PROVE HelloStored' /\ HelloSent'
  BY <1>0, <1>2 DEF vars, HelloStored, HelloSent
<1>3. ASSUME NEW c \in Threads, send_reply(c) PROVE HelloStored' /\ HelloSent'
  <2>1. UNCHANGED store /\ reply' = [reply EXCEPT ![c] = None]
    BY <1>3 DEF send_reply
  <2>2. None \in Replies
    BY DEF Replies
  <2> QED BY <1>0, <2>1, <2>2, ReplyStep, ReplyTypes DEF HelloStored
<1>4. CASE Tick /\ UNCHANGED <<connVars, asideVars>>
  <2>1. \A i \in Slots : /\ store'[i].used = store[i].used /\ store'[i].key = store[i].key
                         /\ store'[i].value = store[i].value
    BY <1>4 DEF Tick, TypeOK, Entry
  <2>2. HelloStored' /\ HelloSent'
    BY <1>0, <1>4, <2>1 DEF Tick, HelloStored, HelloSent
  <2> QED BY <1>1, <1>4, <2>2
<1>5. ASSUME NEW c \in Threads \ Others, execute(c) PROVE AsideInv'
  <2>1. /\ wire' = [wire EXCEPT ![c] = "none"]
        /\ UNCHANGED <<http, request, socket, inbox, answer>>
        /\ GET(c, CACHE_KEY) \/ SET(c, CACHE_KEY, HelloText, CACHE_TTL)
    BY <1>5, HelloValue DEF execute
  <2>2. HelloStored'
    BY <1>0, <2>1, DiscardKeeps, SetKeeps DEF GET
  <2>3. PICK r \in HelloReplies : Answer(c, r)
    BY <1>0, <2>1, GetReply, SetReply
  <2>4. HelloSent'
    BY <1>0, <2>3, ReplyStep, ReplyTypes DEF Answer
  <2>5. wire' \in [Threads \ Others -> Commands \cup {"none"}]
    BY <1>0, <2>1
  <2> QED BY <1>0, <2>1, <2>2, <2>4, <2>5, CacheSideStep
<1>6. ASSUME NEW c \in Threads \ Others, NEW line \in HelloReplies, Deliver(c, line)
      PROVE  inbox' \in [Handlers -> HelloReplies]
  BY <1>0, <1>6 DEF Deliver
<1>7. ASSUME NEW c \in Threads \ Others, reply_arrives(c) PROVE AsideInv'
  <2>1. /\ send_reply(c) /\ Deliver(c, reply[c])
        /\ UNCHANGED <<http, request, socket, wire, answer>>
    BY <1>7 DEF reply_arrives, reply_sent
  <2>2. reply[c] \in HelloReplies
    BY <1>0 DEF HelloSent
  <2> QED BY <1>0, <1>3, <1>6, <2>1, <2>2, CacheSideStep
<1>8. ASSUME NEW c \in Threads \ Others, turned_away(c) PROVE AsideInv'
  <2>1. /\ UNCHANGED vars /\ Deliver(c, <<"ERROR", "line">>)
        /\ wire' = [wire EXCEPT ![c] = "none"]
        /\ UNCHANGED <<http, request, socket, answer>>
    BY <1>8 DEF turned_away, reject
  <2> QED BY <1>0, <1>2, <1>6, <2>1, ReplyTypes, CacheSideStep
<1>9. ASSUME NEW c \in Threads \ Others, unstarted(c) PROVE AsideInv'
  <2>1. /\ UNCHANGED vars /\ wire' = [wire EXCEPT ![c] = "none"]
        /\ UNCHANGED <<http, request, socket, inbox, answer>>
    BY <1>9 DEF unstarted, close_unstarted
  <2> QED BY <1>0, <1>2, <2>1, CacheSideStep
<1>10. ASSUME NEW c \in Threads, connect(c) \/ disconnect(c) \/ main(c) PROVE UNCHANGED vars
  BY <1>10 DEF connect, disconnect, main, accept, reserve_client_slot, reject, start_thread,
               start_fails, close_unstarted
<1>11. ASSUME NEW c \in Threads,
              \/ reply_sent(c) \/ reply_lost(c) \/ recv_ends(c) \/ close(c)
              \/ release_client_slot(c)
       PROVE  UNCHANGED vars \/ send_reply(c)
  BY <1>11 DEF reply_sent, reply_lost, recv_ends, close, release_client_slot
<1>12. ASSUME NEW c \in Threads \ Others, hang_up(c) \/ serve(c) PROVE AsideInv'
  <2>1. UNCHANGED asideVars /\ (UNCHANGED vars \/ send_reply(c))
    BY <1>10, <1>11, <1>12 DEF hang_up, serve, main
  <2> QED BY <1>1, <1>2, <1>3, <2>1
<1>13. ASSUME NEW c \in Others, other_client(c) PROVE AsideInv'
  <2>0. c \in Threads /\ c \notin Threads \ Others /\ UNCHANGED asideVars
    BY <1>13, AsideAssumption DEF AsideAssumption, other_client
  <2>1. ASSUME NEW k \in Keys \ {CACHE_KEY}, DELETE(c, k) PROVE HelloStored' /\ HelloSent'
    <3>1. HelloStored'
      BY <1>0, <2>1, DeleteKeeps
    <3>2. PICK r \in Replies : Answer(c, r)
      BY <2>1 DEF DELETE, Replies
    <3> QED BY <1>0, <2>0, <3>1, <3>2, ReplyStep DEF Answer
  <2>2. ASSUME NEW k \in Keys \ {CACHE_KEY}, NEW v \in Values, NEW ttl \in TTLs, SET(c, k, v, ttl)
        PROVE  HelloStored' /\ HelloSent'
    <3>1. HelloStored'
      BY <1>0, <2>2, SetKeeps
    <3>2. PICK r \in Replies : Answer(c, r)
      BY <2>2, SetReply, ReplyTypes
    <3> QED BY <1>0, <2>0, <3>1, <3>2, ReplyStep DEF Answer
  <2>3. CASE UNCHANGED vars \/ send_reply(c)
    BY <1>1, <1>2, <1>3, <2>0, <2>3
  <2> QED BY <1>1, <1>10, <1>11, <1>13, <2>0, <2>1, <2>2, <2>3 DEF other_client
<1>14. CASE UNCHANGED allVars
  BY <1>1, <1>2, <1>14 DEF allVars, serverVars
<1> QED BY <1>4, <1>5, <1>7, <1>8, <1>9, <1>12, <1>13, <1>14, HandlerStep DEF AsideNext

LEMMA AsideInitial == AsideInit => AsideInv
<1> SUFFICES ASSUME AsideInit PROVE AsideInv
  OBVIOUS
<1>1. AsideTypes
  BY DEF AsideInit, AsideTypes, Steps, Commands, Requests, Replies
<1>2. HelloStored /\ HelloSent
  BY DEF AsideInit, ServerInit, Init, HelloStored, HelloSent, HelloReplies
<1>3. HelloGot /\ HelloAsked /\ SocketInUse /\ AnswersAgree
  BY DEF AsideInit, HelloGot, HelloReplies, HelloAsked, SocketInUse, AnswersAgree, Commands
<1> QED BY <1>1, <1>2, <1>3 DEF AsideInv, HelloInv

LEMMA AsideInvariant == AsideSpec => []AsideInv
<1>1. AsideSpec => [](TypeOK /\ UniqueKeys)
  BY AsideRunsServer, ServerRunsStore, StoreInvariant
<1> QED BY <1>1, AsideInitial, AsideStep, PTL DEF AsideSpec

\* A request is answered as respond answers it, for any number of handlers
\* and whatever the cache keeps, forgets, refuses or executes too late.
THEOREM CacheIsTransparent == AsideSpec => []AnswersAgree
<1>1. AsideInv => AnswersAgree
  BY DEF AsideInv, HelloInv
<1> QED BY <1>1, AsideInvariant, PTL

\* The variables of the composition always have their types.
THEOREM AsideTypeCorrect == AsideSpec => []AsideTypeOK
<1>1. ServerTypeOK /\ AsideInv => AsideTypeOK
  BY DEF AsideInv, AsideTypes, AsideTypeOK
<1> QED BY <1>1, AsideInvariant, AsideRunsServer, ServerTypeCorrect, PTL
=============================================================================
