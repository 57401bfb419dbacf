-------------------------- MODULE LineBufferProofs --------------------------
(* Proofs about LineBuffer, for every stream and every size of the buffers. *)
EXTENDS LineBuffer, TLAPS

\* What the buffer holds: the bytes of the stream that follow the lines which
\* have been answered, up to what recv has returned.  At recv none of them is
\* a newline.
BufferInv ==
    /\ pc \in {"recv", "scan"} =>
        /\ taken = consumed + (pending_len - processed)
        /\ \A i \in processed .. pending_len - 1 :
               pending[i] = stream[consumed + (i - processed)]
    /\ pc = "recv" =>
        /\ processed = 0
        /\ \A i \in 0 .. pending_len - 1 : pending[i] # Newline
    /\ StartsAt(consumed)

Inv == TypeOK /\ BufferInv /\ LinesAnswered /\ RefusalJustified

LEMMA InitInv == Init => Inv
BY LineAssumption
   DEF Init, Inv, TypeOK, BufferInv, LinesAnswered, RefusalJustified, Positions, Indices,
       Bytes, Kinds, StartsAt, Newline, Return, Nul, Unset, NoReply

-----------------------------------------------------------------------------
\* The kind that is read off the buffer is the one the stream calls for.
LEMMA KindIsExpected ==
    ASSUME Inv, pc = "scan", NEW k \in processed .. pending_len - 1, FoundAt(k)
    PROVE  /\ consumed + (k - processed) \in Positions
           /\ stream[consumed + (k - processed)] = Newline
           /\ \A p \in consumed .. (consumed + (k - processed)) - 1 : stream[p] # Newline
           /\ Kind(k) = Expected(consumed + (k - processed))
<1> DEFINE q == consumed + (k - processed)
<1>1. /\ q \in Positions
      /\ q \in Nat /\ k \in Nat /\ processed \in Nat /\ consumed \in Nat /\ consumed <= q
      /\ pending_len \in Nat
  BY LineAssumption DEF Inv, TypeOK, BufferInv, Positions
<1>2. \A i \in processed .. k : pending[i] = stream[consumed + (i - processed)]
  BY <1>1 DEF Inv, BufferInv
<1>3. \A p \in consumed .. q : stream[p] = pending[processed + (p - consumed)]
  <2> SUFFICES ASSUME NEW p \in consumed .. q
               PROVE  stream[p] = pending[processed + (p - consumed)]
    OBVIOUS
  <2>1. processed + (p - consumed) \in processed .. k
    BY <1>1
  <2>2. consumed + ((processed + (p - consumed)) - processed) = p
    BY <1>1
  <2> QED
    BY <1>2, <2>1, <2>2
<1>4. stream[q] = Newline
  BY <1>1, <1>2 DEF FoundAt
<1>5. \A p \in consumed .. q - 1 : stream[p] # Newline
  <2> SUFFICES ASSUME NEW p \in consumed .. q - 1
               PROVE  stream[p] # Newline
    OBVIOUS
  <2>1. processed + (p - consumed) \in processed .. k - 1
    BY <1>1
  <2> QED
    BY <1>1, <1>3, <2>1 DEF FoundAt
<1>6. StartsAt(consumed)
  BY DEF Inv, BufferInv
<1>7. (\E i \in processed .. k - 1 : pending[i] = Nul) <=> NulIn(q)
  <2>1. ASSUME NEW i \in processed .. k - 1, pending[i] = Nul
        PROVE  NulIn(q)
    <3>1. consumed + (i - processed) \in consumed .. q - 1
      BY <1>1
    <3>2. stream[consumed + (i - processed)] = Nul
      BY <1>1, <1>2, <2>1
    <3>3. \A j \in consumed + (i - processed) .. q - 1 : stream[j] # Newline
      BY <1>1, <1>5
    <3> QED
      BY <1>1, <3>1, <3>2, <3>3 DEF NulIn
  <2>2. ASSUME NulIn(q)
        PROVE  \E i \in processed .. k - 1 : pending[i] = Nul
    <3>1. PICK p \in 0 .. q - 1 : stream[p] = Nul /\ \A j \in p .. q - 1 : stream[j] # Newline
      BY <2>2 DEF NulIn
    <3>2. p >= consumed
      BY <1>1, <1>6, <3>1 DEF StartsAt
    <3>3. processed + (p - consumed) \in processed .. k - 1
      BY <1>1, <3>2
    <3>4. pending[processed + (p - consumed)] = Nul
      BY <1>1, <1>3, <3>1, <3>2
    <3> QED
      BY <3>3, <3>4
  <2> QED
    BY <2>1, <2>2
<1>8. (LineEnd(k) = processed) <=> Empty(q)
  <2>1. CASE k = processed
    BY <1>1, <1>6, <2>1 DEF LineEnd, Empty
  <2>2. CASE k = processed + 1
    <3>1. q - 1 = consumed
      BY <1>1, <2>2
    <3>2. stream[q - 1] = pending[k - 1]
      BY <1>1, <1>2, <2>2, <3>1
    <3>3. ~StartsAt(q)
      BY <1>1, <1>5, <3>1 DEF StartsAt
    <3> QED
      BY <1>1, <1>6, <2>2, <3>1, <3>2, <3>3 DEF LineEnd, Empty
  <2>3. CASE k > processed + 1
    <3>1. q - 1 \in consumed .. q - 1 /\ q - 2 \in consumed .. q - 1
      BY <1>1, <2>3
    <3>2. ~StartsAt(q) /\ ~StartsAt(q - 1)
      BY <1>1, <1>5, <3>1 DEF StartsAt
    <3>3. LineEnd(k) # processed
      BY <1>1, <2>3 DEF LineEnd
    <3> QED
      BY <3>2, <3>3 DEF Empty
  <2> QED
    BY <1>1, <2>1, <2>2, <2>3
<1> QED
  BY <1>1, <1>4, <1>5, <1>7, <1>8 DEF Kind, Expected

-----------------------------------------------------------------------------
LEMMA RecvInv ==
    ASSUME Inv, NEW n \in 1 .. RECV_BUF, recv(n)
    PROVE  Inv'
<1>1. /\ pc = "recv" /\ taken + n <= StreamLen /\ taken' = taken + n
      /\ UNCHANGED <<stream, processed, consumed, answer>>
      /\ n \in Nat /\ n >= 1
  BY LineAssumption DEF recv
<1>2. /\ taken = consumed + pending_len /\ processed = 0 /\ pending_len \in Nat
      /\ consumed \in Nat /\ taken \in Nat
      /\ \A i \in 0 .. pending_len - 1 :
             pending[i] = stream[consumed + i] /\ pending[i] # Newline
  BY <1>1, LineAssumption DEF Inv, TypeOK, BufferInv
<1>3. StartsAt(consumed)' /\ LinesAnswered'
  BY <1>1 DEF Inv, BufferInv, LinesAnswered, StartsAt, Expected, NulIn, Empty
<1>4. CASE Fits(n)
  <2>1. /\ pending' = [i \in Indices |->
                         IF i \in pending_len .. pending_len + n - 1
                         THEN stream[taken + i - pending_len] ELSE pending[i]]
        /\ pending_len' = pending_len + n
        /\ pc' = "scan"
    BY <1>4 DEF recv
  <2>2. pending_len' \in 0 .. LINE_MAX /\ processed' \in 0 .. pending_len'
    BY <1>1, <1>2, <1>4, <2>1, LineAssumption DEF Fits
  <2>3. pending' \in [Indices -> Bytes \cup {Unset}]
    <3> SUFFICES ASSUME NEW i \in Indices, i \in pending_len .. pending_len + n - 1
                 PROVE  stream[taken + i - pending_len] \in Bytes
      BY <2>1 DEF Inv, TypeOK
    <3>1. taken + i - pending_len \in Positions
      BY <1>1, <1>2, LineAssumption DEF Positions
    <3> QED
      BY <3>1 DEF Inv, TypeOK
  <2>4. TypeOK'
    BY <1>1, <1>2, <2>1, <2>2, <2>3, LineAssumption DEF Inv, TypeOK
  <2>5. \A i \in 0 .. pending_len' - 1 : pending'[i] = stream[consumed + i]
    <3> SUFFICES ASSUME NEW i \in 0 .. pending_len + n - 1
                 PROVE  pending'[i] = stream[consumed + i]
      <4>1. pending_len' = pending_len + n
        BY <2>1
      <4> QED
        BY <1>1, <1>2, <4>1
    <3>1. i \in Indices
      BY <1>2, <2>1, <2>2, LineAssumption DEF Indices
    <3>2. CASE i < pending_len
      BY <1>2, <2>1, <3>1, <3>2
    <3>3. CASE i >= pending_len
      <4>1. taken + i - pending_len = consumed + i
        BY <1>2
      <4> QED
        BY <1>2, <2>1, <3>1, <3>3, <4>1
    <3> QED
      BY <1>2, <3>2, <3>3
  <2>6. BufferInv'
    BY <1>1, <1>2, <1>3, <2>1, <2>5 DEF BufferInv
  <2> QED
    BY <1>3, <2>1, <2>4, <2>6 DEF Inv, RefusalJustified
<1>5. CASE ~Fits(n)
  <2>1. pc' = "refused" /\ UNCHANGED <<pending, pending_len>>
    BY <1>5 DEF recv
  <2>2. TypeOK'
    BY <1>1, <1>2, <2>1, LineAssumption DEF Inv, TypeOK
  <2>3. consumed + (LINE_MAX - RECV_BUF) < consumed + pending_len
    BY <1>1, <1>2, <1>5, LineAssumption DEF Fits
  <2>4. \A p \in consumed .. consumed + (LINE_MAX - RECV_BUF) : stream[p] # Newline
    <3> SUFFICES ASSUME NEW p \in consumed .. consumed + (LINE_MAX - RECV_BUF)
                 PROVE  stream[p] # Newline
      OBVIOUS
    <3>1. p - consumed \in 0 .. pending_len - 1 /\ consumed + (p - consumed) = p
      BY <1>2, <2>3, LineAssumption
    <3> QED
      BY <1>2, <3>1
  <2>5. RefusalJustified'
    BY <1>1, <1>2, <1>3, <2>3, <2>4, LineAssumption DEF RefusalJustified
  <2>6. BufferInv'
    BY <1>3, <2>1 DEF BufferInv
  <2> QED
    BY <1>3, <2>2, <2>5, <2>6 DEF Inv
<1> QED
  BY <1>4, <1>5

LEMMA LineInv ==
    ASSUME Inv, NEW k \in processed .. pending_len - 1, line(k)
    PROVE  Inv'
<1> DEFINE q == consumed + (k - processed)
<1>1. /\ pc = "scan" /\ FoundAt(k) /\ processed' = k + 1 /\ consumed' = q + 1
      /\ answer' = [answer EXCEPT ![q] = Kind(k)] /\ pc' \in {"scan", "closed"}
      /\ UNCHANGED <<stream, taken, pending, pending_len>>
  BY DEF line
<1>2. /\ q \in Positions /\ stream[q] = Newline /\ Kind(k) = Expected(q)
      /\ \A p \in consumed .. q - 1 : stream[p] # Newline
  <2>1. pc = "scan" /\ FoundAt(k)
    BY <1>1
  <2> QED
    BY <2>1, KindIsExpected
<1>3. /\ processed \in Nat /\ pending_len \in Nat /\ consumed \in Nat /\ k \in Nat
      /\ consumed <= q /\ q \in Nat /\ q + 1 <= StreamLen
      /\ taken = consumed + (pending_len - processed)
  BY <1>1, <1>2, LineAssumption DEF Inv, TypeOK, BufferInv, Positions
<1>4. Kind(k) \in Kinds
  BY DEF Kind, Kinds
<1>5. TypeOK'
  BY <1>1, <1>2, <1>3, <1>4, LineAssumption DEF Inv, TypeOK
<1>6. StartsAt(consumed)'
  BY <1>1, <1>2, <1>3 DEF StartsAt
<1>7. \A i \in k + 1 .. pending_len - 1 : pending[i] = stream[(q + 1) + (i - (k + 1))]
  <2> SUFFICES ASSUME NEW i \in k + 1 .. pending_len - 1
               PROVE  pending[i] = stream[(q + 1) + (i - (k + 1))]
    OBVIOUS
  <2>1. i \in processed .. pending_len - 1 /\ (q + 1) + (i - (k + 1)) = consumed + (i - processed)
    BY <1>3
  <2> QED
    BY <1>1, <2>1 DEF Inv, BufferInv
<1>8. BufferInv'
  BY <1>1, <1>3, <1>6, <1>7 DEF BufferInv
<1>9. LinesAnswered'
  <2> SUFFICES ASSUME NEW p \in Positions
               PROVE  answer'[p] = IF p < q + 1 THEN Expected(p) ELSE NoReply
    BY <1>1 DEF LinesAnswered, Expected, NulIn, Empty, StartsAt
  <2>1. p \in Int /\ answer[p] = IF p < consumed THEN Expected(p) ELSE NoReply
    BY DEF Inv, LinesAnswered, Positions
  <2>2. CASE p = q
    BY <1>1, <1>2, <1>3, <2>2 DEF Inv, TypeOK
  <2>3. CASE p # q
    <3>1. answer'[p] = answer[p]
      BY <1>1, <2>3 DEF Inv, TypeOK
    <3>2. CASE p < consumed
      BY <1>3, <2>1, <3>1, <3>2
    <3>3. CASE p >= consumed /\ p < q
      BY <1>2, <1>3, <2>1, <3>1, <3>3 DEF Expected
    <3>4. CASE p > q
      BY <1>3, <2>1, <3>1, <3>4
    <3> QED
      BY <1>3, <2>1, <2>3, <3>2, <3>3, <3>4
  <2> QED
    BY <2>2, <2>3
<1> QED
  BY <1>1, <1>5, <1>8, <1>9 DEF Inv, RefusalJustified

LEMMA ShiftInv ==
    ASSUME Inv, shift
    PROVE  Inv'
<1>1. /\ pc = "scan"
      /\ \A k \in processed .. pending_len - 1 : pending[k] # Newline
      /\ pending' = [i \in Indices |->
                       IF i < pending_len - processed THEN pending[i + processed] ELSE pending[i]]
      /\ pending_len' = pending_len - processed
      /\ processed' = 0
      /\ pc' = IF pending_len' > LINE_MAX THEN "refused" ELSE "recv"
      /\ UNCHANGED <<stream, taken, consumed, answer>>
  BY DEF shift
<1>2. /\ processed \in Nat /\ pending_len \in Nat /\ processed <= pending_len
      /\ pending_len <= LINE_MAX /\ consumed \in Nat
      /\ taken = consumed + (pending_len - processed)
      /\ \A i \in processed .. pending_len - 1 : pending[i] = stream[consumed + (i - processed)]
  BY <1>1, LineAssumption DEF Inv, TypeOK, BufferInv
<1>3. pc' = "recv" /\ pending_len' \in 0 .. LINE_MAX /\ processed' \in 0 .. pending_len'
  BY <1>1, <1>2, LineAssumption
<1>4. \A i \in 0 .. pending_len' - 1 :
          /\ i + processed \in processed .. pending_len - 1
          /\ pending'[i] = pending[i + processed]
  BY <1>1, <1>2, LineAssumption DEF Indices
<1>5. pending' \in [Indices -> Bytes \cup {Unset}]
  <2> SUFFICES ASSUME NEW i \in Indices, i < pending_len - processed
               PROVE  pending[i + processed] \in Bytes \cup {Unset}
    BY <1>1 DEF Inv, TypeOK
  <2>1. i + processed \in Indices
    BY <1>2, LineAssumption DEF Indices
  <2> QED
    BY <2>1 DEF Inv, TypeOK
<1>6. TypeOK'
  BY <1>1, <1>2, <1>3, <1>5 DEF Inv, TypeOK
<1>7. \A i \in 0 .. pending_len' - 1 : pending'[i] = stream[consumed + i] /\ pending'[i] # Newline
  <2> SUFFICES ASSUME NEW i \in 0 .. pending_len' - 1
               PROVE  pending'[i] = stream[consumed + i] /\ pending'[i] # Newline
    OBVIOUS
  <2>1. consumed + ((i + processed) - processed) = consumed + i
    BY <1>2
  <2> QED
    BY <1>1, <1>2, <1>4, <2>1
<1>8. StartsAt(consumed)' /\ LinesAnswered'
  BY <1>1 DEF Inv, BufferInv, LinesAnswered, StartsAt, Expected, NulIn, Empty
<1>9. BufferInv'
  BY <1>1, <1>2, <1>3, <1>7, <1>8 DEF BufferInv
<1> QED
  BY <1>3, <1>6, <1>8, <1>9 DEF Inv, RefusalJustified

LEMMA NextInv == Inv /\ [Next]_vars => Inv'
<1> SUFFICES ASSUME Inv, [Next]_vars PROVE Inv'
  OBVIOUS
<1>1. CASE recv_ends
  BY <1>1 DEF recv_ends, Inv, TypeOK, BufferInv, LinesAnswered, RefusalJustified,
              StartsAt, Expected, NulIn, Empty
<1>2. CASE UNCHANGED vars
  BY <1>2 DEF vars, Inv, TypeOK, BufferInv, LinesAnswered, RefusalJustified,
              StartsAt, Expected, NulIn, Empty
<1> QED
  BY <1>1, <1>2, RecvInv, LineInv, ShiftInv DEF Next, scan

\* The invariant implies what the buffer owes its client.
LEMMA InvImplies == Inv => NothingHeldBack
<1> SUFFICES ASSUME Inv, pc = "recv"
             PROVE  /\ taken = consumed + pending_len
                    /\ \A p \in consumed .. taken - 1 : stream[p] # Newline
  BY DEF NothingHeldBack
<1>1. /\ taken = consumed + pending_len /\ consumed \in Nat /\ pending_len \in Nat
      /\ \A i \in 0 .. pending_len - 1 : pending[i] = stream[consumed + i] /\ pending[i] # Newline
  BY LineAssumption DEF Inv, TypeOK, BufferInv
<1>2. ASSUME NEW p \in consumed .. taken - 1
      PROVE  stream[p] # Newline
  <2>1. p - consumed \in 0 .. pending_len - 1 /\ consumed + (p - consumed) = p
    BY <1>1
  <2> QED
    BY <1>1, <2>1
<1> QED
  BY <1>1, <1>2

-----------------------------------------------------------------------------
\* handle_client stays inside its buffer: no copy into pending and no index
\* runs past LINE_MAX, whatever recv returns.
THEOREM BufferNeverOverruns == Spec => []TypeOK
<1>1. Inv => TypeOK
  BY DEF Inv
<1> QED
  BY InitInv, NextInv, <1>1, PTL DEF Spec

\* Each line of the stream gets the one reply its bytes call for, in order,
\* for every way in which recv may cut the stream.
THEOREM EveryLineOnce == Spec => []LinesAnswered
<1>1. Inv => LinesAnswered
  BY DEF Inv
<1> QED
  BY InitInv, NextInv, <1>1, PTL DEF Spec

\* handle_client refuses a client only for a line longer than LINE_MAX -
\* RECV_BUF bytes.
THEOREM ShortLinesAreNeverRefused == Spec => []RefusalJustified
<1>1. Inv => RefusalJustified
  BY DEF Inv
<1> QED
  BY InitInv, NextInv, <1>1, PTL DEF Spec

\* handle_client never waits in recv for a line that is complete already.
THEOREM NoLineWaits == Spec => []NothingHeldBack
BY InitInv, NextInv, InvImplies, PTL DEF Spec
=============================================================================
