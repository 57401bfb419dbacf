------------------------------ MODULE Gateway ------------------------------
(***************************************************************************)
(* What a client of a gateway (the load balancer, the reverse proxy) may   *)
(* rely on, whatever happens behind it: a connection is accepted, gets the *)
(* bytes of at most one answer, and is closed.  An answer is either the    *)
(* response of one single attempt at a backend, forwarded piece by piece,  *)
(* or one error response made by the gateway itself.  The two are never    *)
(* mixed: no error is appended to the bytes of a response, no second       *)
(* attempt's bytes follow the first's, and an error closes the connection. *)
(***************************************************************************)
EXTENDS Sequences

CONSTANTS
    Clients,     \* connections
    Responses,   \* the answers that come from behind the gateway
    Errors       \* the answers the gateway makes up

VARIABLES
    phase,       \* "idle", "serving" or "closed"
    received     \* the runs of bytes each client got, in order

vars == <<phase, received>>

Init ==
    /\ phase = [c \in Clients |-> "idle"]
    /\ received = [c \in Clients |-> <<>>]

Accept(c) ==
    /\ phase[c] = "idle"
    /\ phase' = [phase EXCEPT ![c] = "serving"]
    /\ UNCHANGED received

\* More bytes of the one response this client gets.
Forward(c, response) ==
    /\ phase[c] = "serving"
    /\ received[c] \in {<<>>, <<response>>}
    /\ received' = [received EXCEPT ![c] = <<response>>]
    /\ UNCHANGED phase

\* An error goes out instead of a response, and ends the connection.
Refuse(c, error) ==
    /\ phase[c] = "serving"
    /\ received[c] = <<>>
    /\ received' = [received EXCEPT ![c] = <<error>>]
    /\ phase' = [phase EXCEPT ![c] = "closed"]

\* The connection ends, complete or not.
Close(c) ==
    /\ phase[c] = "serving"
    /\ phase' = [phase EXCEPT ![c] = "closed"]
    /\ UNCHANGED received

Next ==
    \E c \in Clients :
        \/ Accept(c)
        \/ \E response \in Responses : Forward(c, response)
        \/ \E error \in Errors : Refuse(c, error)
        \/ Close(c)

Spec == Init /\ [][Next]_vars
=============================================================================
