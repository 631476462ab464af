------------------------ MODULE RequestReaderProofs ------------------------
(***************************************************************************)
(* Proofs about RequestReader, for any requests, any sizes of the pieces   *)
(* and any limit of the buffer: a handler gets exactly the request, and no *)
(* request without a body is overlooked.                                   *)
(***************************************************************************)
EXTENDS RequestReader, TLAPS

\* A request's lengths are numbers, and its head holds the blank line.
LEMMA RequestLengths ==
  ASSUME NEW r \in Requests
  PROVE  /\ r.head \in Nat /\ r.body \in Nat /\ r.head >= 4
         /\ Total(r) \in Nat /\ Total(r) = r.head + r.body
BY RequestReaderAssumption DEF RequestReaderAssumption, Request, Total

\* The initial state.
LEMMA InitReaderInv == Init => ReaderInv
<1> SUFFICES ASSUME Init
             PROVE  ReaderInv
  OBVIOUS
<1>1. req \in Requests /\ req.head >= 4 /\ req.head \in Nat /\ Total(req) \in Nat
  BY RequestLengths DEF Init
<1>2. MaxRounds \in Nat
  BY RequestReaderAssumption DEF RequestReaderAssumption
<1>3. TypeOK
  BY <1>1, <1>2 DEF Init, TypeOK
<1> QED BY <1>1, <1>3 DEF Init, ReaderInv, DeliveredExactly, NothingOverlooked, Resume

\* One call of recv: the search is never resumed behind the blank line.
LEMMA RecvReaderInv ==
  ASSUME ReaderInv, NEW n \in 1..Chunk, Recv(n)
  PROVE  ReaderInv'
<1>1. /\ req \in Requests /\ req.head \in Nat /\ req.body \in Nat /\ req.head >= 4
      /\ Total(req) \in Nat /\ Total(req) = req.head + req.body
  BY RequestLengths DEF ReaderInv, TypeOK
<1>2. /\ n \in Nat \ {0} /\ len \in Nat /\ sent \in 0..Total(req) /\ len + n <= sent
      /\ searchFrom = Resume(len)
      /\ server = "reading"
      /\ len' = len + n
      /\ UNCHANGED <<req, sent, client, rounds>>
  BY <1>1, RequestReaderAssumption
     DEF RequestReaderAssumption, Recv, ReaderInv, TypeOK
<1>3. CASE Complete(len + n)
  <2>1. len + n = Total(req) /\ sent = Total(req)
    BY <1>1, <1>2, <1>3 DEF Complete
  <2>2. server' = "handling" /\ outLen' = Total(req) /\ searchFrom' = searchFrom
    BY <1>3 DEF Recv
  <2>3. TypeOK'
    <3>1. searchFrom' \in 0..len'
      BY <1>2, <2>2 DEF ReaderInv, TypeOK
    <3>2. len' \in 0..sent' /\ outLen' \in 0..Total(req')
      BY <1>1, <1>2, <2>1, <2>2
    <3> QED BY <1>2, <2>2, <3>1, <3>2 DEF ReaderInv, TypeOK
  <2> QED BY <1>2, <2>1, <2>2, <2>3
          DEF ReaderInv, DeliveredExactly, NothingOverlooked
<1>4. CASE ~Complete(len + n)
  <2>1. searchFrom' = Resume(len + n) /\ server' = server /\ outLen' = outLen
    BY <1>4 DEF Recv
  <2>2. Resume(len + n) \in 0..(len + n)
    BY <1>2 DEF Resume
  <2>3. TypeOK'
    <3>1. len' \in 0..sent' /\ searchFrom' \in 0..len'
      BY <1>1, <1>2, <2>1, <2>2
    <3> QED BY <1>2, <2>1, <3>1 DEF ReaderInv, TypeOK
  <2>4. NothingOverlooked'
    <3> SUFFICES ASSUME req.body = 0
                 PROVE  len + n < req.head
      BY <1>2 DEF NothingOverlooked
    <3>1. len < req.head
      BY <1>2 DEF ReaderInv, NothingOverlooked
    <3>2. Resume(len) <= req.head - 4
      BY <1>1, <1>2, <3>1 DEF Resume
    <3> QED BY <1>1, <1>2, <1>4, <3>2 DEF Complete, Found
  <2> QED BY <1>2, <2>1, <2>3, <2>4 DEF ReaderInv, DeliveredExactly
<1> QED BY <1>3, <1>4

\* Every step keeps the invariant.
LEMMA NextReaderInv == ReaderInv /\ [Next]_vars => ReaderInv'
<1> SUFFICES ASSUME ReaderInv, [Next]_vars
             PROVE  ReaderInv'
  OBVIOUS
<1>0. /\ req \in Requests /\ req.head \in Nat /\ req.body \in Nat /\ req.head >= 4
      /\ Total(req) \in Nat
  BY RequestLengths DEF ReaderInv, TypeOK
<1>1. ASSUME NEW n \in 1..Total(req), Send(n)
      PROVE  ReaderInv'
  <2>1. /\ sent' = sent + n /\ sent + n <= Total(req)
        /\ client = "sending" /\ client' \in {"sending", "reading"}
        /\ UNCHANGED <<req, len, searchFrom, outLen, server, rounds>>
    BY <1>1 DEF Send
  <2>2. server # "handling"
    BY <1>0, <2>1 DEF ReaderInv, DeliveredExactly, TypeOK
  <2>3. sent' \in 0..Total(req) /\ len \in 0..sent'
    BY <1>0, <2>1 DEF ReaderInv, TypeOK
  <2> QED BY <2>1, <2>2, <2>3 DEF ReaderInv, TypeOK, DeliveredExactly, NothingOverlooked, Resume
<1>2. CASE HangUp
  BY <1>2 DEF HangUp, ReaderInv, TypeOK, DeliveredExactly, NothingOverlooked, Resume
<1>3. ASSUME NEW r \in Requests, NextRequest(r)
      PROVE  ReaderInv'
  <2>1. /\ len = 0 /\ searchFrom = 0 /\ rounds + 1 \in 0..MaxRounds
        /\ client = "done" /\ server = "reading"
    BY <1>3, RequestReaderAssumption
       DEF NextRequest, ReaderInv, TypeOK, RequestReaderAssumption
  <2>2. /\ r.head \in Nat /\ r.head >= 4 /\ Total(r) \in Nat
    BY RequestLengths
  <2>3. outLen = 0
    BY <2>1 DEF ReaderInv
  <2> QED BY <1>3, <2>1, <2>2, <2>3
          DEF NextRequest, ReaderInv, TypeOK, DeliveredExactly, NothingOverlooked, Resume
<1>4. CASE SeeClose
  BY <1>4 DEF SeeClose, ReaderInv, TypeOK, DeliveredExactly, NothingOverlooked, Resume
<1>5. ASSUME NEW n \in 1..Chunk, Recv(n)
      PROVE  ReaderInv'
  BY <1>5, RecvReaderInv
<1>6. CASE GiveUp
  BY <1>6 DEF GiveUp, ReaderInv, TypeOK, DeliveredExactly, NothingOverlooked
<1>7. CASE Respond
  <2>1. /\ server' \in {"reading", "closed"} /\ client' \in {"sending", "reading", "done", "gone"}
        /\ sent' = 0 /\ len' = 0 /\ searchFrom' = 0 /\ outLen' = 0
        /\ UNCHANGED <<req, rounds>>
    BY <1>7 DEF Respond, ReaderInv, TypeOK
  <2> QED BY <1>0, <2>1
          DEF ReaderInv, TypeOK, DeliveredExactly, NothingOverlooked, Resume
<1>8. CASE Killed
  BY <1>8 DEF Killed, ReaderInv, TypeOK, DeliveredExactly, NothingOverlooked
<1>9. CASE UNCHANGED vars
  BY <1>9 DEF vars, ReaderInv, TypeOK, DeliveredExactly, NothingOverlooked, Resume
<1> QED BY <1>1, <1>2, <1>3, <1>4, <1>5, <1>6, <1>7, <1>8, <1>9 DEF Next

\* ReaderInv is an invariant of the reader.
LEMMA SpecReaderInv == Spec => []ReaderInv
BY InitReaderInv, NextReaderInv, PTL DEF Spec

\* The lengths of request_reader.cpp keep their ranges: never more is received
\* than was sent, and the search never starts behind what was received.
THEOREM ReaderTypeCorrect == Spec => []TypeOK
<1>1. ReaderInv => TypeOK
  BY DEF ReaderInv
<1> QED BY <1>1, SpecReaderInv, PTL

\* The handler of the C++ server is given exactly what the client sent.
THEOREM DeliveredExactlyHolds == Spec => []DeliveredExactly
<1>1. ReaderInv => DeliveredExactly
  BY DEF ReaderInv
<1> QED BY <1>1, SpecReaderInv, PTL

\* However a request without a body is cut, read_request returns it at once.
THEOREM NothingOverlookedHolds == Spec => []NothingOverlooked
<1>1. ReaderInv => NothingOverlooked
  BY DEF ReaderInv
<1> QED BY <1>1, SpecReaderInv, PTL
=============================================================================
