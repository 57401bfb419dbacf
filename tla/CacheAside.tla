----------------------------- MODULE CacheAside -----------------------------
(***************************************************************************)
(* The threads of http-server/server.py that answer requests with the help *)
(* of the cache (handle_connection, respond_with_cache, CacheClient),      *)
(* composed with CacheServer.  Each command to the cache has a connection  *)
(* of its own.  A handler that gives up closes its connection; what it has *)
(* sent is still read and executed.  Other clients use other keys.         *)
(*                                                                         *)
(* A body is its text and whether a newline ends it: what is stored is the *)
(* text, and the newline is put back when it is read.                      *)
(***************************************************************************)
EXTENDS CacheServer

CONSTANTS
    Handlers,    \* threads of the HTTP server
    Others,      \* connections of other clients of the cache
    CACHE_KEY, CACHE_TTL,
    HelloText, OtherText,   \* what is answered, without the newline
    NoText,
    NoSocket

ASSUME AsideAssumption ==
    /\ Others \subseteq Threads
    /\ CACHE_KEY \in Keys
    /\ CACHE_TTL \in TTLs
    /\ HelloText \in Values
    /\ NoSocket \notin Threads

\* GET /hello goes by the cache; everything else, invalid requests included,
\* does not.
Requests == {"hello", "other"}

Body(text, newline) == [text |-> text, newline |-> newline]
Bodies == [text: Values \cup {OtherText, NoText}, newline: BOOLEAN]
NoBody == Body(NoText, FALSE)

respond(r) == Body(IF r = "hello" THEN HelloText ELSE OtherText, TRUE)

VARIABLES
    http,      \* where each handler is
    request,   \* what it was asked
    socket,    \* its connection to the cache
    inbox,     \* the reply it has got there
    wire,      \* the command on its way over each connection
    answer     \* what it answers

asideVars == <<http, request, socket, inbox, wire, answer>>
allVars == <<serverVars, asideVars>>

Commands == {"get", "set"}
Steps == {"idle", "respond", "answered"} \cup Commands

AsideTypeOK ==
    /\ ServerTypeOK
    /\ http \in [Handlers -> Steps]
    /\ request \in [Handlers -> Requests]
    /\ socket \in [Handlers -> (Threads \ Others) \cup {NoSocket}]
    /\ inbox \in [Handlers -> Replies]
    /\ wire \in [Threads \ Others -> Commands \cup {"none"}]
    /\ answer \in [Handlers -> Bodies \cup {NoBody}]

AsideInit ==
    /\ ServerInit
    /\ http = [h \in Handlers |-> "idle"]
    /\ request = [h \in Handlers |-> "other"]
    /\ socket = [h \in Handlers |-> NoSocket]
    /\ inbox = [h \in Handlers |-> None]
    /\ wire = [c \in Threads \ Others |-> "none"]
    /\ answer = [h \in Handlers |-> NoBody]

-----------------------------------------------------------------------------
\* The handlers.

Owned(c) == \E h \in Handlers : socket[h] = c

\* A complete request has been read.
handle_connection(h, r) ==
    /\ http[h] = "idle"
    /\ request' = [request EXCEPT ![h] = r]
    /\ http' = [http EXCEPT ![h] = IF r = "hello" THEN "get" ELSE "respond"]
    /\ UNCHANGED <<serverVars, socket, inbox, wire, answer>>

\* CacheClient._command: connect and send.
send_command(h, c) ==
    /\ http[h] \in Commands
    /\ socket[h] = NoSocket
    /\ ~Owned(c)
    /\ wire[c] = "none"
    /\ connect(c)
    /\ wire' = [wire EXCEPT ![c] = http[h]]
    /\ socket' = [socket EXCEPT ![h] = c]
    /\ inbox' = [inbox EXCEPT ![h] = None]
    /\ UNCHANGED <<http, request, answer>>

\* Mutant: an error of the cache leaves respond_with_cache.
MutantCommandFails(h) ==
    /\ http[h] \in Commands
    /\ http' = [http EXCEPT ![h] = "idle"]
    /\ socket' = [socket EXCEPT ![h] = NoSocket]
    /\ inbox' = [inbox EXCEPT ![h] = None]
    /\ UNCHANGED <<serverVars, request, wire, answer>>

\* _command raises CacheError: no connection, no answer in time, or the end
\* of the connection.  Both callers go on to the application's own response.
command_fails(h) ==
    /\ http[h] \in Commands
    /\ http' = [http EXCEPT ![h] = "respond"]
    /\ socket' = [socket EXCEPT ![h] = NoSocket]
    /\ inbox' = [inbox EXCEPT ![h] = None]
    /\ UNCHANGED <<serverVars, request, wire, answer>>

\* cache_value of respond_with_cache: the body, less the newline if one ends it.
CacheValue(body) == body.text

\* Mutant: the newline is not put back.
MutantRestore(value) == Body(value, FALSE)

Restore(value) == Body(value, TRUE)

\* A line came back: get and set, and what respond_with_cache makes of it.
command_returns(h) ==
    /\ socket[h] # NoSocket
    /\ inbox[h] # None
    /\ \/ /\ http[h] = "get" /\ inbox[h][1] = "VALUE"
          /\ http' = [http EXCEPT ![h] = "answered"]
          /\ answer' = [answer EXCEPT ![h] = Restore(inbox[h][2])]
       \/ /\ http[h] = "get" /\ inbox[h][1] = "NOT_FOUND"
          /\ http' = [http EXCEPT ![h] = "set"]
          /\ UNCHANGED answer
       \/ /\ http[h] = "set" \/ inbox[h][1] \notin {"VALUE", "NOT_FOUND"}
          /\ http' = [http EXCEPT ![h] = "respond"]
          /\ UNCHANGED answer
    /\ socket' = [socket EXCEPT ![h] = NoSocket]
    /\ inbox' = [inbox EXCEPT ![h] = None]
    /\ UNCHANGED <<serverVars, request, wire>>

origin(h) ==
    /\ http[h] = "respond"
    /\ http' = [http EXCEPT ![h] = "answered"]
    /\ answer' = [answer EXCEPT ![h] = respond(request[h])]
    /\ UNCHANGED <<serverVars, request, socket, inbox, wire>>

\* The response is sent, or cannot be, and the thread ends.
finish(h) ==
    /\ http[h] = "answered"
    /\ http' = [http EXCEPT ![h] = "idle"]
    /\ answer' = [answer EXCEPT ![h] = NoBody]
    /\ UNCHANGED <<serverVars, request, socket, inbox, wire>>

-----------------------------------------------------------------------------
\* The cache's side of a handler's connection.

Deliver(c, line) ==
    inbox' = [h \in Handlers |-> IF socket[h] = c THEN line ELSE inbox[h]]

\* The command is read and executed, though its sender may have given up.
execute(c) ==
    /\ conn[c] = "serving"
    /\ ~gone[c]
    /\ \/ wire[c] = "get" /\ GET(c, CACHE_KEY)
       \/ wire[c] = "set" /\ SET(c, CACHE_KEY, CacheValue(respond("hello")), CACHE_TTL)
    /\ wire' = [wire EXCEPT ![c] = "none"]
    /\ UNCHANGED <<connVars, http, request, socket, inbox, answer>>

reply_arrives(c) ==
    /\ reply_sent(c)
    /\ Deliver(c, reply[c])
    /\ UNCHANGED <<http, request, socket, wire, answer>>

\* The cache has too many clients: ERROR instead of a reply.
turned_away(c) ==
    /\ reject(c)
    /\ Deliver(c, <<"ERROR", "line">>)
    /\ wire' = [wire EXCEPT ![c] = "none"]
    /\ UNCHANGED <<http, request, socket, answer>>

\* No thread for this connection: it is closed without an answer.
unstarted(c) ==
    /\ close_unstarted(c)
    /\ wire' = [wire EXCEPT ![c] = "none"]
    /\ UNCHANGED <<http, request, socket, inbox, answer>>

\* Mutant: the socket is not closed when the command has failed.
MutantHangUp(c) ==
    /\ ~Owned(c) /\ wire[c] = "none"
    /\ reply[c] # None
    /\ disconnect(c)
    /\ UNCHANGED asideVars

\* The handler has closed its socket: once what it sent is read, the stream
\* ends.
hang_up(c) ==
    /\ ~Owned(c) /\ wire[c] = "none"
    /\ disconnect(c)
    /\ UNCHANGED asideVars

\* What else the cache does with a connection.
serve(c) ==
    /\ \/ accept(c) \/ reserve_client_slot(c) \/ start_thread(c) \/ start_fails(c)
       \/ reply_lost(c) \/ recv_ends(c) \/ close(c) \/ release_client_slot(c)
    /\ UNCHANGED asideVars

\* A connection of another client, which stores and removes other keys.
other_client(c) ==
    /\ \/ connect(c) \/ disconnect(c) \/ main(c)
       \/ /\ conn[c] = "serving" /\ ~gone[c]
          /\ \E k \in Keys \ {CACHE_KEY} :
                DELETE(c, k) \/ \E v \in Values \ {HelloText}, ttl \in TTLs : SET(c, k, v, ttl)
          /\ UNCHANGED connVars
       \/ reply_sent(c) \/ reply_lost(c) \/ recv_ends(c) \/ close(c) \/ release_client_slot(c)
    /\ UNCHANGED asideVars

handler(h) ==
    \/ \E c \in Threads \ Others : send_command(h, c)
    \/ command_fails(h) \/ command_returns(h) \/ origin(h) \/ finish(h)

AsideNext ==
    \/ Tick /\ UNCHANGED <<connVars, asideVars>>
    \/ \E h \in Handlers : handler(h) \/ \E r \in Requests : handle_connection(h, r)
    \/ \E c \in Threads \ Others :
        execute(c) \/ reply_arrives(c) \/ turned_away(c) \/ unstarted(c) \/ hang_up(c) \/ serve(c)
    \/ \E c \in Others : other_client(c)

AsideSpec == AsideInit /\ [][AsideNext]_allVars

\* A handler goes on: its calls return or time out.  The cache goes on with
\* its accept loop, and its threads with a command that has been read and
\* with the end of a stream.  Nothing is assumed of other clients.
AsideFairness ==
    /\ \A h \in Handlers : WF_allVars(handler(h)) /\ WF_allVars(command_fails(h))
    /\ WF_allVars(\/ \E c \in Threads \ Others : turned_away(c) \/ unstarted(c)
                  \/ \E c \in Threads : main(c) /\ UNCHANGED asideVars)
    /\ \A c \in Threads \ Others :
        /\ WF_allVars(execute(c)) /\ WF_allVars(hang_up(c))
        /\ WF_allVars((reply_lost(c) \/ recv_ends(c)) /\ UNCHANGED asideVars)
        /\ WF_allVars(close(c) /\ UNCHANGED asideVars)
        /\ WF_allVars(release_client_slot(c) /\ UNCHANGED asideVars)

FairAsideSpec == AsideSpec /\ AsideFairness

-----------------------------------------------------------------------------
\* A request is answered with what respond answers, newline included, whatever
\* the cache does: it is full, turns the handler away, loses a reply, or
\* executes a SET its sender gave up on.
AnswersAgree ==
    \A h \in Handlers :
        http[h] = "answered" => answer[h] = respond(request[h])

\* Every request is answered in the end, though the cache may hang.
EveryRequestAnswered ==
    \A h \in Handlers : http[h] \in Commands ~> http[h] = "answered"

\* Every slot a handler's command takes in the cache comes back, although
\* the handler may give up before, while or after the command is executed.
SlotsComeBack ==
    \A c \in Threads \ Others : c \in Holders ~> c \notin Holders
=============================================================================
