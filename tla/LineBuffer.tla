----------------------------- MODULE LineBuffer -----------------------------
(***************************************************************************)
(* handle_client of in-mem-cache/server.c: how one connection's bytes,     *)
(* which recv cuts as it likes, become lines.  The buffer is an array and  *)
(* the copies into and within it are index arithmetic, as in the code.     *)
(* What handle_line does with a line is the business of CacheStore.        *)
(***************************************************************************)
EXTENDS Integers

CONSTANTS
    LINE_MAX,
    RECV_BUF,
    StreamLen   \* bound: how many bytes the client sends

ASSUME LineAssumption ==
    /\ LINE_MAX \in Nat \ {0}
    /\ RECV_BUF \in Nat \ {0}
    /\ StreamLen \in Nat

\* The bytes that handle_client tells apart.
Newline == "newline"
Return == "return"
Nul == "nul"
Bytes == {Newline, Return, Nul, "other"}

Unset == "unset"   \* a byte of the buffer that nothing has been copied to

Positions == 0 .. StreamLen - 1
Indices == 0 .. LINE_MAX   \* char pending[LINE_MAX + 1]

\* What is sent for a line: ERROR at once, or what handle_line answers.
NoReply == "none"
Kinds == {"ERROR", "handle_line"}

VARIABLES
    stream,        \* the bytes the client sends
    taken,         \* how many of them recv has returned
    pending,
    pending_len,
    processed,
    pc,            \* "recv", "scan", or how handle_client returned
    consumed,      \* history: bytes of the lines that were answered
    answer         \* history: the reply to the line that ends at a position

vars == <<stream, taken, pending, pending_len, processed, pc, consumed, answer>>

TypeOK ==
    /\ stream \in [Positions -> Bytes]
    /\ taken \in 0 .. StreamLen
    /\ pending \in [Indices -> Bytes \cup {Unset}]
    /\ pending_len \in 0 .. LINE_MAX
    /\ processed \in 0 .. pending_len
    /\ pc \in {"recv", "scan", "closed", "refused"}
    /\ consumed \in 0 .. StreamLen
    /\ answer \in [Positions -> Kinds \cup {NoReply}]

Init ==
    /\ stream \in [Positions -> Bytes]
    /\ taken = 0
    /\ pending = [i \in Indices |-> Unset]
    /\ pending_len = 0
    /\ processed = 0
    /\ pc = "recv"
    /\ consumed = 0
    /\ answer = [i \in Positions |-> NoReply]

-----------------------------------------------------------------------------
\* Mutant: the room for the terminating NUL is filled too.
MutantFits(n) == pending_len + n <= LINE_MAX + 1

\* Mutant: the bytes of lines that were answered count too.
MutantFitsTotal(n) == taken + n <= LINE_MAX

Fits(n) == pending_len + n <= LINE_MAX

\* recv returns n bytes, which are appended if they fit; otherwise ERROR is
\* sent and handle_client returns.  A recv that was interrupted is repeated.
recv(n) ==
    /\ pc = "recv"
    /\ taken + n <= StreamLen
    /\ taken' = taken + n
    /\ \/ /\ Fits(n)
          /\ pending' = [i \in Indices |->
                           IF i \in pending_len .. pending_len + n - 1
                           THEN stream[taken + i - pending_len] ELSE pending[i]]
          /\ pending_len' = pending_len + n
          /\ pc' = "scan"
       \/ /\ ~Fits(n)
          /\ pc' = "refused"
          /\ UNCHANGED <<pending, pending_len>>
    /\ UNCHANGED <<stream, processed, consumed, answer>>

\* recv returned 0 or an error.
recv_ends ==
    /\ pc = "recv"
    /\ pc' = "closed"
    /\ UNCHANGED <<stream, taken, pending, pending_len, processed, consumed, answer>>

\* memchr finds the next newline at index k.
FoundAt(k) ==
    /\ pending[k] = Newline
    /\ \A i \in processed .. k - 1 : pending[i] # Newline

\* Where the line that ends at k stops, without its carriage return.
LineEnd(k) == IF k > processed /\ pending[k - 1] = Return THEN k - 1 ELSE k

\* Mutant: the carriage return is looked for after the test for an empty line.
MutantKind(k) ==
    IF (\E i \in processed .. k - 1 : pending[i] = Nul) \/ k = processed
    THEN "ERROR" ELSE "handle_line"

\* A line with a NUL byte and an empty line are answered without handle_line.
Kind(k) ==
    IF (\E i \in processed .. k - 1 : pending[i] = Nul) \/ LineEnd(k) = processed
    THEN "ERROR" ELSE "handle_line"

\* One line is copied and answered; sending the reply may fail.
line(k) ==
    /\ pc = "scan"
    /\ FoundAt(k)
    /\ processed' = k + 1
    /\ consumed' = consumed + (k - processed) + 1
    /\ answer' = [answer EXCEPT ![consumed + (k - processed)] = Kind(k)]
    /\ pc' \in {"scan", "closed"}
    /\ UNCHANGED <<stream, taken, pending, pending_len>>

\* Mutant: recv is called again after the first line.
MutantShift ==
    /\ pc = "scan"
    /\ processed > 0 \/ \A k \in processed .. pending_len - 1 : pending[k] # Newline
    /\ pending' = [i \in Indices |->
                     IF i < pending_len - processed THEN pending[i + processed] ELSE pending[i]]
    /\ pending_len' = pending_len - processed
    /\ processed' = 0
    /\ pc' = "recv"
    /\ UNCHANGED <<stream, taken, consumed, answer>>

\* No newline is left: the rest moves to the front of the buffer.
shift ==
    /\ pc = "scan"
    /\ \A k \in processed .. pending_len - 1 : pending[k] # Newline
    /\ pending' = [i \in Indices |->
                     IF i < pending_len - processed THEN pending[i + processed] ELSE pending[i]]
    /\ pending_len' = pending_len - processed
    /\ processed' = 0
    /\ pc' = IF pending_len' > LINE_MAX THEN "refused" ELSE "recv"
    /\ UNCHANGED <<stream, taken, consumed, answer>>

scan == shift \/ \E k \in processed .. pending_len - 1 : line(k)

Next ==
    \/ \E n \in 1 .. RECV_BUF : recv(n)
    \/ recv_ends
    \/ scan

Spec == Init /\ [][Next]_vars

-----------------------------------------------------------------------------
\* What a line is, said of the stream alone.

StartsAt(p) == p = 0 \/ stream[p - 1] = Newline

NulIn(p) ==
    \E i \in 0 .. p - 1 :
        stream[i] = Nul /\ \A j \in i .. p - 1 : stream[j] # Newline

Empty(p) == StartsAt(p) \/ (stream[p - 1] = Return /\ StartsAt(p - 1))

Expected(p) ==
    IF stream[p] # Newline THEN NoReply
    ELSE IF NulIn(p) \/ Empty(p) THEN "ERROR" ELSE "handle_line"

\* Every line gets exactly one reply, in order, of the kind its bytes call
\* for, however recv cuts the stream and however many lines one chunk ends.
LinesAnswered ==
    \A p \in Positions : answer[p] = IF p < consumed THEN Expected(p) ELSE NoReply

\* A client is refused only if its current line is longer than LINE_MAX -
\* RECV_BUF bytes: neither pipelined lines that together exceed LINE_MAX nor
\* an unlucky cut ever count against it.
RefusalJustified ==
    pc = "refused" =>
        /\ StartsAt(consumed)
        /\ consumed + (LINE_MAX - RECV_BUF) < taken
        /\ \A p \in consumed .. consumed + (LINE_MAX - RECV_BUF) : stream[p] # Newline

\* When handle_client waits for more, it has answered every complete line it
\* has got, and nothing of an answered line is left in the buffer.
NothingHeldBack ==
    pc = "recv" =>
        /\ taken = consumed + pending_len
        /\ \A p \in consumed .. taken - 1 : stream[p] # Newline
=============================================================================
