---------------------------- MODULE CacheServer ----------------------------
(***************************************************************************)
(* The process of in-mem-cache/server.c: the accept loop of main, which    *)
(* admits at most CLIENT_LIMIT connections, and one detached thread per    *)
(* admitted connection, which runs handle_client on the shared store of    *)
(* CacheStore.  A connection of the model is a socket that may be used     *)
(* over and over: when one ends, a client may connect again.               *)
(***************************************************************************)
EXTENDS CacheStore, Sequences

CONSTANT CLIENT_LIMIT

ASSUME LimitAssumption == CLIENT_LIMIT \in Nat \ {0}

VARIABLES
    backlog,         \* the listener's queue of connections, oldest first
    conn,            \* where each connection is, see ConnStates
    gone,            \* the end of the client's stream is next to be read
    active_clients

connVars == <<backlog, conn, gone, active_clients>>
serverVars == <<vars, connVars>>

\* In main: "accepted", "rejecting", "reserved", "released".
\* In the thread: "serving"; "closing" once handle_client has returned;
\* "closed" once the socket is closed and the slot is not yet released.
MainStates == {"accepted", "rejecting", "reserved", "released"}
ConnStates == {"idle", "queued", "serving", "closing", "closed"} \cup MainStates

\* The connections that are counted in active_clients.
Holders == {c \in Threads : conn[c] \in {"reserved", "serving", "closing", "closed"}}

ServerTypeOK ==
    /\ TypeOK
    /\ backlog \in Seq(Threads)
    /\ conn \in [Threads -> ConnStates]
    /\ gone \in [Threads -> BOOLEAN]
    /\ active_clients \in 0 .. CLIENT_LIMIT

ServerInit ==
    /\ Init
    /\ backlog = <<>>
    /\ conn = [c \in Threads |-> "idle"]
    /\ gone = [c \in Threads |-> FALSE]
    /\ active_clients = 0

Move(c, from, to) ==
    /\ conn[c] = from
    /\ conn' = [conn EXCEPT ![c] = to]

-----------------------------------------------------------------------------
\* Clients.

connect(c) ==
    /\ Move(c, "idle", "queued")
    /\ backlog' = Append(backlog, c)
    /\ gone' = [gone EXCEPT ![c] = FALSE]
    /\ UNCHANGED <<vars, active_clients>>

\* The client closes or resets its connection, and the server has taken in
\* all it sent before.
disconnect(c) ==
    /\ conn[c] # "idle"
    /\ ~gone[c]
    /\ gone' = [gone EXCEPT ![c] = TRUE]
    /\ UNCHANGED <<vars, backlog, conn, active_clients>>

-----------------------------------------------------------------------------
\* The loop of main, one connection at a time.

\* Mutant: connections wait in the queue while there is no slot.
MutantAccept(c) ==
    /\ \A d \in Threads : conn[d] \notin MainStates
    /\ active_clients < CLIENT_LIMIT
    /\ backlog # <<>>
    /\ c = Head(backlog)
    /\ backlog' = Tail(backlog)
    /\ Move(c, "queued", "accepted")
    /\ UNCHANGED <<vars, gone, active_clients>>

accept(c) ==
    /\ \A d \in Threads : conn[d] \notin MainStates
    /\ backlog # <<>>
    /\ c = Head(backlog)
    /\ backlog' = Tail(backlog)
    /\ Move(c, "queued", "accepted")
    /\ UNCHANGED <<vars, gone, active_clients>>

\* Mutant: the limit is checked after the increment it is meant for.
MutantReserve(c) ==
    /\ \/ /\ active_clients <= CLIENT_LIMIT
          /\ Move(c, "accepted", "reserved")
          /\ active_clients' = active_clients + 1
       \/ /\ active_clients > CLIENT_LIMIT
          /\ Move(c, "accepted", "rejecting")
          /\ UNCHANGED active_clients
    /\ UNCHANGED <<vars, backlog, gone>>

\* Under client_count_mutex.
reserve_client_slot(c) ==
    /\ \/ /\ active_clients < CLIENT_LIMIT
          /\ Move(c, "accepted", "reserved")
          /\ active_clients' = active_clients + 1
       \/ /\ active_clients >= CLIENT_LIMIT
          /\ Move(c, "accepted", "rejecting")
          /\ UNCHANGED active_clients
    /\ UNCHANGED <<vars, backlog, gone>>

\* No slot: send ERROR and close.
reject(c) ==
    /\ Move(c, "rejecting", "idle")
    /\ UNCHANGED <<vars, backlog, gone, active_clients>>

\* malloc and pthread_create succeed.
start_thread(c) ==
    /\ Move(c, "reserved", "serving")
    /\ UNCHANGED <<vars, backlog, gone, active_clients>>

\* Mutant: the error path of pthread_create forgets the slot.
MutantStartFails(c) ==
    /\ Move(c, "reserved", "released")
    /\ UNCHANGED <<vars, backlog, gone, active_clients>>

\* malloc or pthread_create fails: the slot is released under its mutex,
start_fails(c) ==
    /\ Move(c, "reserved", "released")
    /\ active_clients' = active_clients - 1
    /\ UNCHANGED <<vars, backlog, gone>>

\* and the socket is closed after that.
close_unstarted(c) ==
    /\ Move(c, "released", "idle")
    /\ UNCHANGED <<vars, backlog, gone, active_clients>>

-----------------------------------------------------------------------------
\* client_thread and handle_client.

\* recv delivered a line, and handle_line runs up to its reply.
command(c) ==
    /\ conn[c] = "serving"
    /\ ~gone[c]
    /\ handle_line(c)
    /\ UNCHANGED connVars

\* send_all got all of the reply out; it may do so though the client left.
reply_sent(c) ==
    /\ conn[c] = "serving"
    /\ send_reply(c)
    /\ UNCHANGED connVars

\* send_all failed: handle_client returns, and the reply is lost.
reply_lost(c) ==
    /\ Move(c, "serving", "closing")
    /\ gone[c]
    /\ send_reply(c)
    /\ UNCHANGED <<backlog, gone, active_clients>>

\* Mutant: the end of the stream is taken for an interrupted recv.
MutantRecvEnds(c) ==
    /\ conn[c] = "serving"
    /\ gone[c]
    /\ reply[c] = None
    /\ UNCHANGED serverVars

\* recv returned 0 or an error.
recv_ends(c) ==
    /\ Move(c, "serving", "closing")
    /\ gone[c]
    /\ reply[c] = None
    /\ UNCHANGED <<vars, backlog, gone, active_clients>>

\* More than LINE_MAX bytes are pending: ERROR, and handle_client returns.
oversized(c) ==
    /\ Move(c, "serving", "closing")
    /\ ~gone[c]
    /\ reply[c] = None
    /\ UNCHANGED <<vars, backlog, gone, active_clients>>

close(c) ==
    /\ Move(c, "closing", "closed")
    /\ UNCHANGED <<vars, backlog, gone, active_clients>>

release_client_slot(c) ==
    /\ Move(c, "closed", "idle")
    /\ active_clients' = active_clients - 1
    /\ UNCHANGED <<vars, backlog, gone>>

-----------------------------------------------------------------------------
main(c) ==
    \/ accept(c) \/ reserve_client_slot(c) \/ reject(c)
    \/ start_thread(c) \/ start_fails(c) \/ close_unstarted(c)

client_thread(c) ==
    \/ command(c) \/ reply_sent(c) \/ reply_lost(c) \/ recv_ends(c) \/ oversized(c)
    \/ close(c) \/ release_client_slot(c)

ServerNext ==
    \/ Tick /\ UNCHANGED connVars
    \/ \E c \in Threads : connect(c) \/ disconnect(c) \/ main(c) \/ client_thread(c)

ServerSpec == ServerInit /\ [][ServerNext]_serverVars

\* main never waits for a client once a connection is queued, and a thread
\* whose client is gone is blocked neither in recv nor in send.  A client
\* may stay idle for ever, or not read its replies.
ServerFairness ==
    /\ WF_serverVars(\E c \in Threads : main(c))
    /\ \A c \in Threads :
        /\ WF_serverVars(reply_lost(c) \/ recv_ends(c))
        /\ WF_serverVars(close(c))
        /\ WF_serverVars(release_client_slot(c))

FairServerSpec == ServerSpec /\ ServerFairness

-----------------------------------------------------------------------------
\* active_clients is the number of connections that hold a slot, on every
\* path through main's error handling and the threads' endings: it never
\* leaks a slot, never wraps below zero, never exceeds the limit.
SlotsCounted ==
    /\ active_clients = Cardinality(Holders)
    /\ active_clients <= CLIENT_LIMIT

\* A slot whose client disconnects is free again in the end, though its
\* thread may be anywhere between recv and send, and another client may
\* have the store.
DisconnectFreesSlot ==
    \A c \in Threads : gone[c] /\ c \in Holders ~> c \notin Holders

\* Every queued connection is either served or turned away: idle clients do
\* not keep main from its loop.
EveryConnectionDecided ==
    \A c \in Threads : conn[c] = "queued" ~> conn[c] \in {"serving", "rejecting", "released"}
=============================================================================
