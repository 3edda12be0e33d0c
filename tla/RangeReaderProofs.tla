-------------------------- MODULE RangeReaderProofs --------------------------
(***************************************************************************)
(* The invariants of RangeReader hold for archives of any size and for any *)
(* number of requests, deflateReaders, reads and seeks.                    *)
(***************************************************************************)
EXTENDS RangeReader, FiniteSetTheorems, TLAPS

Responses == [pos : Nat, end : Nat, state : {"none", "open", "broken"}]
Readers == [rangeStart : Nat, rangeSize : Nat, offset : Nat, res : Responses]
Steps == {"resource", "directory", "idle", "read", "sent", "failed", "serve",
          "reset", "put", "over"}

\* The types of the variables.
TypeOK ==
    /\ pc \in [Actors -> Steps]
    /\ reader \in [Actors -> Readers]
    /\ cachedReader \in BOOLEAN
    /\ archive \in {"reading", "opened", "failed"}
    /\ want \in [Actors -> Nat]
    /\ calls \in [Actors -> Nat]
    /\ deflater \in [Requests -> Deflaters \cup {None}]
    /\ closer \in [Deflaters -> Requests \cup {None}]
    /\ pool \subseteq Deflaters
    /\ openRequests \in Int

\* What holds of one reader: besides BytesInPlace, a caller never wants more
\* than the range has left, and a goroutine that is not reading, or whose
\* request is under way, has no response.
Placed(r, at, n) ==
    /\ r.offset \in r.rangeStart..End(r)
    /\ r.res.state = "open" => r.res.pos = r.offset
    /\ at \in {"read", "sent"} => n <= End(r) - r.offset
    /\ at \in {"resource", "idle", "sent", "reset", "put"} => ~IsOpen(r)

AllPlaced == \A a \in Actors : Placed(reader[a], pc[a], want[a])

\* The cached reader exists only while readArchive runs, and requests only
\* start once it has ended.
Opening ==
    /\ pc[Opener] # "over" => archive = "reading"
    /\ archive = "reading" => \A q \in Requests : pc[q] = "idle"
    /\ cachedReader =>
            /\ pc[Opener] \notin {"resource", "over"}
            /\ reader[Opener].rangeStart = 0
            /\ reader[Opener].rangeSize = Size
    /\ pc[Opener] \in {"read", "sent"} => cachedReader
    /\ pc[Opener] = "directory" /\ calls[Opener] < MaxReads => cachedReader

\* A deflateReader is with one request or in the pool; closer is reset just
\* before it goes back.
Owned ==
    \A q \in Requests :
        /\ pc[q] \in {"reset", "put"} => deflater[q] # None
        /\ deflater[q] # None =>
            /\ deflater[q] \notin pool
            /\ pc[q] # "put" => closer[deflater[q]] = q
            /\ \A p \in Requests \ {q} : deflater[p] # deflater[q]

IInv == TypeOK /\ AllPlaced /\ Opening /\ Owned /\ OpenRequestsCounted

-----------------------------------------------------------------------------
(* Readers.                                                                *)

\* NewReader starts at the beginning of its range, without a response.
LEMMA NewReaderPlaced ==
    ASSUME NEW offset \in Nat, NEW size \in Nat, NEW at, NEW n,
           at # "sent", at = "read" => n <= size
    PROVE  /\ NewReader(offset, size) \in Readers
           /\ Placed(NewReader(offset, size), at, n)
           /\ ~IsOpen(NewReader(offset, size))
           /\ NewReader(offset, size).rangeStart = offset
           /\ NewReader(offset, size).rangeSize = size
  BY DEF NewReader, Readers, Responses, NoResponse, Placed, End, IsOpen

\* Seek drops the response exactly when it moves.
LEMMA SeekPlaced ==
    ASSUME NEW r \in Readers, NEW at, Placed(r, at, 0), at # "sent",
           NEW offset \in Nat, offset \in r.rangeStart..End(r),
           NEW n \in Nat, n <= End(r) - offset
    PROVE  /\ Seek(r, offset) \in Readers
           /\ Placed(Seek(r, offset), "read", n)
           /\ Seek(r, offset).rangeStart = r.rangeStart
           /\ Seek(r, offset).rangeSize = r.rangeSize
  BY DEF Seek, Closed, Readers, Responses, NoResponse, Placed, End, IsOpen

\* A response that setResponse accepts starts at the offset.
LEMMA ResponsePlaced ==
    ASSUME NEW r \in Readers, NEW n, Placed(r, "sent", n),
           NEW res \in setResponse(r)
    PROVE  /\ [r EXCEPT !.res = res] \in Readers
           /\ Placed([r EXCEPT !.res = res], "read", n)
           /\ IsOpen([r EXCEPT !.res = res])
<1>1. res \in Responses /\ res.pos = r.offset /\ res.state = "open"
  BY RangeReaderAssumption
  DEF setResponse, Response, Responses, Readers, Placed, End
<1> QED
  BY <1>1 DEF Readers, Responses, Placed, End, IsOpen

\* Read advances the offset with the body, or breaks the response.
LEMMA ReadPlaced ==
    ASSUME NEW r \in Readers, NEW w \in Nat, Placed(r, "read", w),
           r.res.state = "open", NEW n \in 1..w
    PROVE  /\ Advanced(r, n) \in Readers /\ IsOpen(Advanced(r, n))
           /\ Placed(Advanced(r, n), "read", w - n)
           /\ Broken(r, n) \in Readers /\ IsOpen(Broken(r, n))
           /\ Placed(Broken(r, n), "failed", w)
<1>1. /\ r.rangeStart \in Nat /\ r.rangeSize \in Nat /\ r.offset \in Nat
      /\ r.res.pos = r.offset /\ r.res.end \in Nat
      /\ r.offset \in r.rangeStart..End(r) /\ w <= End(r) - r.offset
  BY DEF Readers, Responses, Placed
<1>2. /\ Advanced(r, n) \in Readers /\ Broken(r, n) \in Readers
      /\ End(Advanced(r, n)) = End(r) /\ End(Broken(r, n)) = End(r)
  <2>1. /\ Response(r.res.pos + n, r.res.end) \in Responses
        /\ [pos |-> r.res.pos + n, end |-> r.res.end, state |-> "broken"]
                \in Responses
        /\ r.offset + n \in Nat
    BY <1>1 DEF Response, Responses
  <2>2. /\ Advanced(r, n) \in Readers
        /\ Advanced(r, n).rangeStart = r.rangeStart
        /\ Advanced(r, n).rangeSize = r.rangeSize
    BY Zenon, <2>1 DEF Advanced, Readers
  <2>3. /\ Broken(r, n) \in Readers
        /\ Broken(r, n).rangeStart = r.rangeStart
        /\ Broken(r, n).rangeSize = r.rangeSize
    BY <2>1 DEF Broken, Readers
  <2> QED
    BY <2>2, <2>3 DEF End
<1>3. /\ Advanced(r, n).offset = r.offset + n
      /\ Advanced(r, n).rangeStart = r.rangeStart
      /\ Advanced(r, n).res = Response(r.res.pos + n, r.res.end)
      /\ Broken(r, n).offset = r.offset
      /\ Broken(r, n).rangeStart = r.rangeStart
      /\ Broken(r, n).res.state = "broken"
  BY DEF Advanced, Broken, Readers
<1>4. End(r) \in Nat
  BY <1>1 DEF End
<1>5. Placed(Advanced(r, n), "read", w - n)
  BY <1>1, <1>2, <1>3, <1>4 DEF Placed, Response
<1>6. Placed(Broken(r, n), "failed", w)
  BY <1>1, <1>2, <1>3, <1>4 DEF Placed
<1>7. IsOpen(Advanced(r, n)) /\ IsOpen(Broken(r, n))
  BY <1>3 DEF IsOpen, Response
<1> QED
  BY <1>2, <1>5, <1>6, <1>7

-----------------------------------------------------------------------------
(* What one step may do to a goroutine and its reader.                     *)

Counted(at, r) == IF at = "sent" \/ IsOpen(r) THEN 1 ELSE 0

\* One goroutine moves: its reader stays in place, and the gauge changes by
\* what the goroutine has sent or open.
Move(a) ==
    /\ pc' = [pc EXCEPT ![a] = pc'[a]] /\ pc'[a] \in Steps
    /\ reader' = [reader EXCEPT ![a] = reader'[a]] /\ reader'[a] \in Readers
    /\ want' = [want EXCEPT ![a] = want'[a]] /\ want'[a] \in Nat
    /\ calls' = [calls EXCEPT ![a] = calls'[a]] /\ calls'[a] \in Nat
    /\ Placed(reader'[a], pc'[a], want'[a])
    /\ openRequests' = openRequests - Counted(pc[a], reader[a])
                                    + Counted(pc'[a], reader'[a])

\* SendRequest, ensureResponse and Read keep the reader in place: bytes that
\* were read with an error leave a response nobody reads from again.
LEMMA ReadMoves ==
    ASSUME TypeOK, AllPlaced, NEW a \in Actors,
           SendRequest(a) \/ ensureResponse(a) \/ Read(a)
    PROVE  Move(a)
<1> USE DEF TypeOK, Steps
<1>0. /\ reader[a] \in Readers /\ pc[a] \in Steps
      /\ want[a] \in Nat /\ calls[a] \in Nat
      /\ Placed(reader[a], pc[a], want[a])
  BY DEF AllPlaced
<1>1. CASE SendRequest(a)
  BY <1>0, <1>1 DEF SendRequest, Move, Placed, Counted, IsOpen
<1>2. CASE ensureResponse(a)
  <2>1. CASE pc'[a] = "read"
    <3>1. PICK res \in setResponse(reader[a]) :
                reader' = [reader EXCEPT ![a].res = res]
      BY <1>2, <2>1 DEF ensureResponse
    <3>2. reader'[a] = [reader[a] EXCEPT !.res = res]
      BY <3>1
    <3>3. /\ reader'[a] \in Readers /\ IsOpen(reader'[a])
          /\ Placed(reader'[a], "read", want[a])
      BY <1>0, <1>2, <3>2, ResponsePlaced DEF ensureResponse
    <3> QED
      BY <1>0, <1>2, <2>1, <3>1, <3>2, <3>3 DEF ensureResponse, Move, Counted
  <2>2. CASE pc'[a] # "read"
    <3>1. /\ pc[a] = "sent" /\ reader' = reader
          /\ pc' = [pc EXCEPT ![a] = "failed"]
          /\ want' = want /\ calls' = calls
          /\ openRequests' = openRequests - 1
      BY <1>0, <1>2, <2>2 DEF ensureResponse
    <3>2. ~IsOpen(reader[a]) /\ Placed(reader[a], "failed", want[a])
      BY <1>0, <3>1 DEF Placed
    <3> QED
      BY <1>0, <3>1, <3>2 DEF Move, Counted
  <2> QED
    BY <2>1, <2>2
<1>3. CASE Read(a)
  <2>0. /\ pc[a] = "read" /\ IsOpen(reader[a])
        /\ calls' = calls /\ openRequests' = openRequests
    BY <1>3 DEF Read
  <2>1. ASSUME NEW n \in 1..want[a], reader[a].res.state = "open",
               reader' = [reader EXCEPT ![a] = Advanced(@, n)],
               want' = [want EXCEPT ![a] = @ - n], pc' = pc
        PROVE  Move(a)
    <3>1. /\ reader'[a] = Advanced(reader[a], n)
          /\ reader'[a] \in Readers /\ IsOpen(reader'[a])
          /\ Placed(reader'[a], "read", want[a] - n)
      BY <1>0, <2>0, <2>1, ReadPlaced
    <3> QED
      BY <1>0, <2>0, <2>1, <3>1 DEF Move, Counted
  <2>2. ASSUME NEW n \in 1..want[a], reader[a].res.state = "open",
               reader' = [reader EXCEPT ![a] = Broken(@, n)],
               want' = want, pc' = [pc EXCEPT ![a] = "failed"]
        PROVE  Move(a)
    <3>1. /\ reader'[a] = Broken(reader[a], n)
          /\ reader'[a] \in Readers /\ IsOpen(reader'[a])
          /\ Placed(reader'[a], "failed", want[a])
      BY <1>0, <2>0, <2>2, ReadPlaced
    <3> QED
      BY <1>0, <2>0, <2>2, <3>1 DEF Move, Counted
  <2>3. ASSUME reader' = reader, want' = want, pc' = [pc EXCEPT ![a] = "failed"]
        PROVE  Move(a)
    <3>1. Placed(reader[a], "failed", want[a])
      BY <1>0 DEF Placed
    <3> QED
      BY <1>0, <2>0, <2>3, <3>1 DEF Move, Counted
  <2> QED
    BY <1>3, <2>1, <2>2, <2>3, Zenon DEF Read
<1> QED
  BY <1>1, <1>2, <1>3

\* So do the steps of readArchive: Seek stays within the archive because the
\* cached reader ranges over all of it.
LEMMA OpenerMoves ==
    ASSUME TypeOK, AllPlaced, Opening,
           NewResource \/ cachedRead \/ cachedReadDone \/ WithCachedReader
    PROVE  Move(Opener)
<1> USE RangeReaderAssumption DEF TypeOK, Steps
<1>0. /\ Opener \in Actors
      /\ reader[Opener] \in Readers /\ pc[Opener] \in Steps
      /\ want[Opener] \in Nat /\ calls[Opener] \in Nat
      /\ Placed(reader[Opener], pc[Opener], want[Opener])
  BY DEF AllPlaced, Actors
<1>1. CASE NewResource
  <2>1. CASE cachedReader' /\ pc'[Opener] = "directory"
    <3>1. reader'[Opener] = NewReader(0, Size)
      BY Zenon, <1>0, <1>1, <2>1 DEF NewResource
    <3>2. /\ reader'[Opener] \in Readers /\ ~IsOpen(reader'[Opener])
          /\ Placed(reader'[Opener], "directory", want[Opener])
      BY <1>0, <3>1, NewReaderPlaced
    <3>3. /\ pc[Opener] = "resource" /\ pc' = [pc EXCEPT ![Opener] = "directory"]
          /\ reader' = [reader EXCEPT ![Opener] = NewReader(0, Size)]
          /\ want' = want /\ calls' = calls /\ openRequests' = openRequests
      BY Zenon, <1>0, <1>1, <2>1 DEF NewResource
    <3>4. ~IsOpen(reader[Opener])
      BY <1>0, <3>3 DEF Placed
    <3> QED
      BY <1>0, <3>1, <3>2, <3>3, <3>4 DEF Move, Counted
  <2>2. CASE ~(cachedReader' /\ pc'[Opener] = "directory")
    BY <1>0, <1>1, <2>2 DEF NewResource, Move, Placed, Counted
  <2> QED
    BY <2>1, <2>2
<1>2. CASE cachedRead
  <2>1. PICK offset \in 0..(Size - 1) : \E n \in 1..(Size - offset) :
            /\ reader' = [reader EXCEPT ![Opener] = Seek(@, offset)]
            /\ openRequests' = openRequests
                    + (IF IsOpen(reader'[Opener]) THEN 1 ELSE 0)
                    - (IF IsOpen(reader[Opener]) THEN 1 ELSE 0)
            /\ want' = [want EXCEPT ![Opener] = n]
    BY Zenon, <1>2 DEF cachedRead
  <2>2. PICK n \in 1..(Size - offset) :
            /\ reader' = [reader EXCEPT ![Opener] = Seek(@, offset)]
            /\ openRequests' = openRequests
                    + (IF IsOpen(reader'[Opener]) THEN 1 ELSE 0)
                    - (IF IsOpen(reader[Opener]) THEN 1 ELSE 0)
            /\ want' = [want EXCEPT ![Opener] = n]
    BY Zenon, <2>1
  <2>3. /\ pc[Opener] = "directory" /\ pc' = [pc EXCEPT ![Opener] = "read"]
        /\ calls' = [calls EXCEPT ![Opener] = @ + 1]
        /\ calls[Opener] < MaxReads
    BY <1>2 DEF cachedRead
  <2>4. reader[Opener].rangeStart = 0 /\ reader[Opener].rangeSize = Size
    BY <2>3 DEF Opening
  <2>5. /\ reader'[Opener] = Seek(reader[Opener], offset)
        /\ offset \in reader[Opener].rangeStart..End(reader[Opener])
        /\ n <= End(reader[Opener]) - offset
    BY <1>0, <2>2, <2>4 DEF End
  <2>6. Placed(reader[Opener], "directory", 0)
    BY <1>0, <2>3 DEF Placed
  <2>7. reader'[Opener] \in Readers /\ Placed(reader'[Opener], "read", n)
    BY <1>0, <2>5, <2>6, SeekPlaced
  <2> QED
    BY <1>0, <2>2, <2>3, <2>7 DEF Move, Counted
<1>3. CASE cachedReadDone
  BY <1>0, <1>3 DEF cachedReadDone, Move, Placed, Counted
<1>4. CASE WithCachedReader
  <2>1. CASE cachedReader
    <3>1. /\ pc[Opener] \in {"directory", "failed"} /\ pc' = pc
          /\ reader' = [reader EXCEPT ![Opener] = NewReader(0, 0)]
          /\ want' = [want EXCEPT ![Opener] = 0]
          /\ calls' = [calls EXCEPT ![Opener] = MaxReads]
          /\ CountClosed(reader[Opener])
      BY <1>4, <2>1 DEF WithCachedReader
    <3>2. /\ reader'[Opener] \in Readers /\ ~IsOpen(reader'[Opener])
          /\ Placed(reader'[Opener], pc[Opener], 0)
      BY <1>0, <3>1, NewReaderPlaced
    <3> QED
      BY <1>0, <3>1, <3>2 DEF Move, Counted, CountClosed
  <2>2. CASE ~cachedReader
    BY <1>0, <1>4, <2>2 DEF WithCachedReader, Move, Placed, Counted
  <2> QED
    BY <2>1, <2>2
<1> QED
  BY <1>1, <1>2, <1>3, <1>4

\* And those of a request.
LEMMA RequestMoves ==
    ASSUME TypeOK, AllPlaced, NEW q \in Requests,
           \/ DataOffset(q) \/ Open(q) \/ ServeContent(q)
           \/ ServeContentDone(q) \/ CloseReader(q) \/ CloseDeflater(q)
    PROVE  Move(q)
<1> USE RangeReaderAssumption DEF TypeOK, Steps
<1>0. /\ q \in Actors
      /\ reader[q] \in Readers /\ pc[q] \in Steps
      /\ want[q] \in Nat /\ calls[q] \in Nat
      /\ Placed(reader[q], pc[q], want[q])
  BY DEF AllPlaced, Actors
<1>1. CASE DataOffset(q)
  <2>1. PICK offset \in 0..(Size - 1) :
            reader' = [reader EXCEPT ![q] = NewReader(offset, 1)]
    BY Zenon, <1>1 DEF DataOffset
  <2>2. /\ reader'[q] \in Readers /\ ~IsOpen(reader'[q])
        /\ Placed(reader'[q], "read", 1)
    <3>1. reader'[q] = NewReader(offset, 1) /\ offset \in Nat /\ 1 \in Nat /\ 1 <= 1
      BY <1>0, <2>1
    <3> HIDE RangeReaderAssumption
    <3> QED
      BY <3>1, NewReaderPlaced
  <2>3. ~IsOpen(reader[q])
    BY <1>0, <1>1 DEF DataOffset, Placed
  <2> QED
    BY <1>0, <1>1, <2>1, <2>2, <2>3 DEF DataOffset, Move, Counted
<1>2. CASE Open(q)
  <2>1. PICK offset \in 1..(Size - 1) : \E n \in 0..Size :
            /\ reader' = [reader EXCEPT ![q] = NewReader(offset, n)]
            /\ \/ want' = want /\ pc' = [pc EXCEPT ![q] = "serve"]
               \/ /\ want' = [want EXCEPT ![q] = n]
                  /\ pc' = [pc EXCEPT ![q] = "read"]
    BY Zenon, <1>2 DEF Open
  <2>2. PICK n \in 0..Size :
            /\ reader' = [reader EXCEPT ![q] = NewReader(offset, n)]
            /\ \/ want' = want /\ pc' = [pc EXCEPT ![q] = "serve"]
               \/ /\ want' = [want EXCEPT ![q] = n]
                  /\ pc' = [pc EXCEPT ![q] = "read"]
    BY Zenon, <2>1
  <2>3. /\ reader'[q] = NewReader(offset, n)
        /\ \/ pc'[q] = "serve" /\ want'[q] = want[q]
           \/ pc'[q] = "read" /\ want'[q] = n
    BY <1>0, <2>2
  <2>4. /\ reader'[q] \in Readers /\ ~IsOpen(reader'[q])
        /\ Placed(reader'[q], pc'[q], want'[q])
    <3>1. offset \in Nat /\ n \in Nat
      BY <2>1, <2>2, RangeReaderAssumption
    <3>2. pc'[q] # "sent" /\ (pc'[q] = "read" => want'[q] <= n)
      BY <2>3, <3>1
    <3>3. /\ NewReader(offset, n) \in Readers /\ ~IsOpen(NewReader(offset, n))
          /\ Placed(NewReader(offset, n), pc'[q], want'[q])
      BY <3>1, <3>2, NewReaderPlaced
    <3> QED
      BY Zenon, <2>3, <3>3
  <2>5. /\ pc[q] = "read" /\ CountClosed(reader[q])
        /\ calls' = [calls EXCEPT ![q] = 1]
    BY <1>2 DEF Open
  <2> QED
    BY <1>0, <2>2, <2>3, <2>4, <2>5 DEF Move, Counted, CountClosed
<1>3. CASE ServeContent(q)
  <2>1. PICK offset \in reader[q].rangeStart..End(reader[q]) :
            \E n \in 0..(End(reader[q]) - offset) :
                /\ reader' = [reader EXCEPT ![q] = Seek(@, offset)]
                /\ want' = [want EXCEPT ![q] = n]
    BY Zenon, <1>3 DEF ServeContent
  <2>2. PICK n \in 0..(End(reader[q]) - offset) :
                /\ reader' = [reader EXCEPT ![q] = Seek(@, offset)]
                /\ want' = [want EXCEPT ![q] = n]
    BY Zenon, <2>1
  <2>3. /\ pc[q] = "serve" /\ pc' = [pc EXCEPT ![q] = "read"]
        /\ calls' = [calls EXCEPT ![q] = @ + 1]
        /\ openRequests' = openRequests - (IF IsOpen(reader[q]) THEN 1 ELSE 0)
                                        + (IF IsOpen(reader'[q]) THEN 1 ELSE 0)
    BY <1>3 DEF ServeContent
  <2>4. /\ offset \in Nat /\ n \in Nat /\ n <= End(reader[q]) - offset
        /\ Placed(reader[q], "serve", 0)
    BY <1>0, <2>3, SMTT(60) DEF Readers, End, Placed
  <2>5. reader'[q] \in Readers /\ Placed(reader'[q], "read", n)
    <3>1. reader'[q] = Seek(reader[q], offset)
      BY <1>0, <2>2
    <3> QED
      BY <1>0, <2>4, <3>1, SeekPlaced, SMTT(60)
  <2> QED
    BY <1>0, <2>2, <2>3, <2>4, <2>5 DEF Move, Counted
<1>4. CASE ServeContentDone(q)
  BY <1>0, <1>4, SMTT(60) DEF ServeContentDone, Move, Placed, Counted
<1>5. CASE CloseReader(q)
  <2>1. /\ pc[q] # "sent" /\ CountClosed(reader[q])
        /\ reader' = [reader EXCEPT ![q] = NewReader(0, 0)]
        /\ want' = [want EXCEPT ![q] = 0]
        /\ calls' = [calls EXCEPT ![q] = 0]
        /\ pc' = [pc EXCEPT ![q] = IF deflater[q] = None THEN "idle" ELSE "reset"]
    BY <1>5 DEF CloseReader
  <2>2. /\ reader'[q] \in Readers /\ ~IsOpen(reader'[q])
        /\ Placed(reader'[q], "idle", 0) /\ Placed(reader'[q], "reset", 0)
    <3>1. reader'[q] = NewReader(0, 0)
      BY <1>0, <2>1
    <3>2. NewReader(0, 0) \in Readers /\ ~IsOpen(NewReader(0, 0))
          /\ Placed(NewReader(0, 0), "idle", 0)
      BY Zenon, NewReaderPlaced
    <3>3. Placed(NewReader(0, 0), "reset", 0)
      BY NewReaderPlaced
    <3> QED
      BY <3>1, <3>2, <3>3, Zenon
  <2> QED
    BY <1>0, <2>1, <2>2, SMTT(60) DEF Move, Counted, CountClosed
<1>6. CASE CloseDeflater(q)
  <2>1. /\ reader' = reader /\ want' = want /\ calls' = calls
        /\ openRequests' = openRequests /\ pc[q] \in {"reset", "put"}
        /\ \E x \in {"put", "idle"} : pc' = [pc EXCEPT ![q] = x]
    BY <1>6 DEF CloseDeflater
  <2>2. PICK x \in {"put", "idle"} : pc' = [pc EXCEPT ![q] = x]
    BY Zenon, <2>1
  <2>3. pc'[q] = x /\ x \in Steps
    BY <1>0, <2>2
  <2>4. ~IsOpen(reader[q]) /\ Placed(reader[q], x, want[q])
    BY <1>0, <2>1 DEF Placed
  <2>5. Counted(pc[q], reader[q]) = 0 /\ Counted(x, reader[q]) = 0
    BY <2>1, <2>4 DEF Counted
  <2> QED
    BY <1>0, <2>1, <2>2, <2>3, <2>4, <2>5 DEF Move
<1> QED
  BY <1>1, <1>2, <1>3, <1>4, <1>5, <1>6

\* The goroutines that HTTPRangeOpenRequests counts.
Busy == {a \in Actors : pc[a] = "sent" \/ IsOpen(reader[a])}

\* A move of one goroutine keeps every reader in place and the gauge exact.
LEMMA MoveInvariant ==
    ASSUME TypeOK, AllPlaced, OpenRequestsCounted, NEW a \in Actors, Move(a)
    PROVE  /\ pc' \in [Actors -> Steps] /\ reader' \in [Actors -> Readers]
           /\ want' \in [Actors -> Nat] /\ calls' \in [Actors -> Nat]
           /\ openRequests' \in Int
           /\ AllPlaced' /\ OpenRequestsCounted'
<1>1. /\ pc' \in [Actors -> Steps] /\ reader' \in [Actors -> Readers]
      /\ want' \in [Actors -> Nat] /\ calls' \in [Actors -> Nat]
  BY DEF Move, TypeOK
<1>2. \A b \in Actors \ {a} : /\ pc'[b] = pc[b] /\ reader'[b] = reader[b]
                              /\ want'[b] = want[b]
  BY DEF Move, TypeOK
<1>3. AllPlaced'
  BY <1>2 DEF Move, AllPlaced
<1>4. openRequests' \in Int
  BY DEF Move, TypeOK, Counted
<1>5. IsFiniteSet(Busy)
  <2>1. IsFiniteSet(Actors)
    BY RangeReaderAssumption, FS_AddElement DEF Actors
  <2> QED
    BY <2>1, FS_Subset DEF Busy
<1>6. /\ a \in Busy <=> Counted(pc[a], reader[a]) = 1
      /\ a \in Busy' <=> Counted(pc'[a], reader'[a]) = 1
      /\ a \notin Busy <=> Counted(pc[a], reader[a]) = 0
      /\ a \notin Busy' <=> Counted(pc'[a], reader'[a]) = 0
  BY DEF Busy, Counted
<1>7. Busy' \ {a} = Busy \ {a}
  BY <1>2 DEF Busy
<1>8. Cardinality(Busy') = Cardinality(Busy) - Counted(pc[a], reader[a])
                                             + Counted(pc'[a], reader'[a])
  <2>0. Cardinality(Busy) \in Nat
    BY <1>5, FS_CardinalityType
  <2>1. CASE a \in Busy <=> a \in Busy'
    <3>1. Busy' = Busy
      BY <1>7, <2>1
    <3> QED
      BY <1>6, <2>0, <2>1, <3>1
  <2>2. CASE a \in Busy /\ a \notin Busy'
    <3>1. Busy' = Busy \ {a}
      BY <1>7, <2>2
    <3>2. Cardinality(Busy \ {a}) = Cardinality(Busy) - 1
      BY Zenon, <1>5, <2>2, FS_RemoveElement
    <3> QED
      BY <1>6, <2>0, <2>2, <3>1, <3>2
  <2>3. CASE a \notin Busy /\ a \in Busy'
    <3>1. Busy' = Busy \cup {a}
      BY <1>7, <2>3
    <3>2. Cardinality(Busy \cup {a}) = Cardinality(Busy) + 1
      BY <1>5, <2>3, FS_AddElement
    <3> QED
      BY <1>6, <2>0, <2>3, <3>1, <3>2
  <2> QED
    BY <2>1, <2>2, <2>3
<1>9. OpenRequestsCounted'
  <2>1. openRequests = Cardinality(Busy)
    BY DEF OpenRequestsCounted, Busy
  <2>2. openRequests' = Cardinality(Busy')
    BY <1>8, <2>1 DEF Move
  <2> QED
    BY <2>2 DEF OpenRequestsCounted, Busy
<1> QED
  BY <1>1, <1>3, <1>4, <1>9

-----------------------------------------------------------------------------
(* readArchive and the deflateReaders.                                     *)

\* No step lets a request in while the cached reader is there.
LEMMA OpeningStep ==
    ASSUME TypeOK, AllPlaced, Opening, Next
    PROVE  Opening'
<1> USE RangeReaderAssumption DEF TypeOK, Opening, Actors
<1>1. CASE NewResource
  <2>1. NewReader(0, Size).rangeStart = 0 /\ NewReader(0, Size).rangeSize = Size
    BY DEF NewReader
  <2> QED
    BY <1>1, <2>1 DEF NewResource
<1>2. CASE cachedRead
  <2>1. PICK offset \in 0..(Size - 1) :
            reader' = [reader EXCEPT ![Opener] = Seek(@, offset)]
    BY Zenon, <1>2 DEF cachedRead
  <2>2. /\ reader'[Opener].rangeStart = reader[Opener].rangeStart
        /\ reader'[Opener].rangeSize = reader[Opener].rangeSize
    BY <2>1 DEF Seek, Closed, Readers
  <2> QED
    BY <1>2, <2>2 DEF cachedRead
<1>3. CASE cachedReadDone
  BY <1>3 DEF cachedReadDone
<1>4. CASE WithCachedReader
  BY <1>4 DEF WithCachedReader
<1>5. ASSUME NEW a \in Actors, SendRequest(a) \/ ensureResponse(a) \/ Read(a)
      PROVE  Opening'
  <2>1. /\ reader'[Opener].rangeStart = reader[Opener].rangeStart
        /\ reader'[Opener].rangeSize = reader[Opener].rangeSize
    <3>1. CASE SendRequest(a)
      BY <3>1 DEF SendRequest
    <3>2. CASE ensureResponse(a)
      BY <3>2 DEF ensureResponse, Readers
    <3>3. CASE Read(a)
      <4>1. \A r \in Readers, n \in Nat :
                /\ Advanced(r, n).rangeStart = r.rangeStart
                /\ Advanced(r, n).rangeSize = r.rangeSize
                /\ Broken(r, n).rangeStart = r.rangeStart
                /\ Broken(r, n).rangeSize = r.rangeSize
        BY DEF Advanced, Broken, Readers
      <4>2. \/ reader' = reader
            \/ \E n \in 1..want[a] :
                    reader'[a] \in {Advanced(reader[a], n), Broken(reader[a], n)}
               /\ reader' = [reader EXCEPT ![a] = reader'[a]]
        BY <3>3 DEF Read
      <4> QED
        BY <4>1, <4>2
    <3> QED
      BY <1>5, <3>1, <3>2, <3>3
  <2>2. /\ pc[a] \in {"read", "sent"}
        /\ pc' = [pc EXCEPT ![a] = pc'[a]]
        /\ pc'[a] \in {"read", "sent", "failed"}
        /\ cachedReader' = cachedReader /\ archive' = archive /\ calls' = calls
    BY <1>5 DEF SendRequest, ensureResponse, Read
  <2> QED
    BY <2>1, <2>2
<1>6. ASSUME NEW q \in Requests,
             \/ DataOffset(q) \/ Open(q) \/ ServeContent(q)
             \/ ServeContentDone(q) \/ CloseReader(q) \/ CloseDeflater(q)
      PROVE  Opening'
  <2>1. /\ pc' = [pc EXCEPT ![q] = pc'[q]]
        /\ reader' = [reader EXCEPT ![q] = reader'[q]]
        /\ calls' = [calls EXCEPT ![q] = calls'[q]]
        /\ cachedReader' = cachedReader /\ archive' = archive
        /\ archive # "reading"
    BY <1>6 DEF DataOffset, Open, ServeContent, ServeContentDone, CloseReader,
                CloseDeflater
  <2> QED
    BY <2>1
<1> QED
  BY <1>1, <1>2, <1>3, <1>4, <1>5, <1>6 DEF Next

\* No step gives a deflateReader to two requests.
LEMMA OwnedStep ==
    ASSUME TypeOK, Owned, Next
    PROVE  /\ Owned'
           /\ deflater' \in [Requests -> Deflaters \cup {None}]
           /\ closer' \in [Deflaters -> Requests \cup {None}]
           /\ pool' \subseteq Deflaters
<1> USE RangeReaderAssumption DEF TypeOK, Owned
<1>0. ASSUME UNCHANGED deflate,
             \A q \in Requests :
                /\ pc'[q] = "put" <=> pc[q] = "put"
                /\ pc'[q] = "reset" => deflater[q] # None
      PROVE  Owned' /\ deflater' = deflater /\ closer' = closer /\ pool' = pool
  BY <1>0 DEF deflate
<1>1. CASE NewResource \/ cachedRead \/ cachedReadDone \/ WithCachedReader
  <2>1. UNCHANGED deflate /\ \A q \in Requests : pc'[q] = pc[q]
    BY <1>1 DEF NewResource, cachedRead, cachedReadDone, WithCachedReader,
                deflate, Actors
  <2> QED
    BY <1>0, <2>1
<1>2. ASSUME NEW a \in Actors, SendRequest(a) \/ ensureResponse(a) \/ Read(a)
      PROVE  Owned' /\ deflater' = deflater /\ closer' = closer /\ pool' = pool
  <2>1. UNCHANGED deflate
    BY <1>2 DEF SendRequest, ensureResponse, Read, deflate
  <2>2. /\ pc[a] \in {"read", "sent"}
        /\ \E x \in {"read", "sent", "failed"} : pc' = [pc EXCEPT ![a] = x]
    <3>1. CASE SendRequest(a)
      BY <3>1 DEF SendRequest
    <3>2. CASE ensureResponse(a)
      BY <3>2 DEF ensureResponse
    <3>3. CASE Read(a)
      BY <3>3 DEF Read
    <3> QED
      BY <1>2, <3>1, <3>2, <3>3
  <2>3. \A p \in Requests :
            /\ pc'[p] = "put" <=> pc[p] = "put"
            /\ pc'[p] = "reset" => deflater[p] # None
    BY <2>2 DEF Actors
  <2> QED
    BY <1>0, <2>1, <2>3
<1>3. ASSUME NEW q \in Requests,
             DataOffset(q) \/ ServeContent(q) \/ ServeContentDone(q) \/ CloseReader(q)
      PROVE  Owned' /\ deflater' = deflater /\ closer' = closer /\ pool' = pool
  <2>1. /\ UNCHANGED deflate
        /\ pc[q] # "put" /\ pc'[q] # "put"
        /\ pc'[q] = "reset" => deflater[q] # None
        /\ \A p \in Requests \ {q} : pc'[p] = pc[p]
    BY <1>3 DEF DataOffset, ServeContent, ServeContentDone, CloseReader,
                deflate, Actors
  <2>2. \A p \in Requests :
            /\ pc'[p] = "put" <=> pc[p] = "put"
            /\ pc'[p] = "reset" => deflater[p] # None
    BY <2>1
  <2> QED
    BY <1>0, <2>1, <2>2
<1>4. ASSUME NEW q \in Requests, Open(q)
      PROVE  /\ Owned'
             /\ deflater' \in [Requests -> Deflaters \cup {None}]
             /\ closer' \in [Deflaters -> Requests \cup {None}]
             /\ pool' \subseteq Deflaters
  <2>1. /\ pc[q] = "read"
        /\ \A p \in Requests \ {q} : pc'[p] = pc[p]
        /\ pc'[q] \in {"serve", "read"}
    BY <1>4 DEF Open, Actors
  <2>2. CASE UNCHANGED deflate
    BY <2>1, <2>2 DEF deflate
  <2>3. CASE ~UNCHANGED deflate
    <3>1. PICK d \in IF pool # {} THEN pool
                     ELSE {e \in Deflaters : \A p \in Requests : deflater[p] # e} :
                /\ pool' = pool \ {d}
                /\ closer' = [closer EXCEPT ![d] = q]
                /\ deflater' = [deflater EXCEPT ![q] = d]
      BY <1>4, <2>3 DEF Open
    <3>2. /\ d \in Deflaters /\ d # None
          /\ \A p \in Requests : deflater[p] # d
      BY <3>1
    <3> QED
      BY <2>1, <3>1, <3>2
  <2> QED
    BY <2>2, <2>3
<1>5. ASSUME NEW q \in Requests, CloseDeflater(q)
      PROVE  /\ Owned'
             /\ deflater' \in [Requests -> Deflaters \cup {None}]
             /\ closer' \in [Deflaters -> Requests \cup {None}]
             /\ pool' \subseteq Deflaters
  BY <1>5 DEF CloseDeflater, Actors
<1> DEFINE Kept == /\ Owned'
                   /\ deflater' \in [Requests -> Deflaters \cup {None}]
                   /\ closer' \in [Deflaters -> Requests \cup {None}]
                   /\ pool' \subseteq Deflaters
<1>6. ASSUME Owned', deflater' = deflater, closer' = closer, pool' = pool
      PROVE  Kept
  BY <1>6
<1>7. CASE NewResource \/ cachedRead \/ cachedReadDone \/ WithCachedReader
  BY <1>1, <1>7
<1>8. ASSUME NEW a \in Actors, SendRequest(a) \/ ensureResponse(a) \/ Read(a)
      PROVE  Kept
  <2> HIDE DEF Kept, TypeOK, Owned
  <2> QED
    BY <1>2, <1>6, <1>8
<1>9. ASSUME NEW q \in Requests,
             \/ DataOffset(q) \/ Open(q) \/ ServeContent(q)
             \/ ServeContentDone(q) \/ CloseReader(q) \/ CloseDeflater(q)
      PROVE  Kept
  <2>1. CASE Open(q)
    BY <1>4, <2>1
  <2>2. CASE CloseDeflater(q)
    BY <1>5, <2>2
  <2>3. CASE DataOffset(q) \/ ServeContent(q) \/ ServeContentDone(q) \/ CloseReader(q)
    <3> HIDE DEF Kept, TypeOK, Owned
    <3> QED
      BY <1>3, <1>6, <2>3
  <2> QED
    BY <1>9, <2>1, <2>2, <2>3
<1> HIDE DEF TypeOK, Owned
<1> QED
  BY <1>7, <1>8, <1>9 DEF Next

-----------------------------------------------------------------------------
(* The inductive invariant and the theorems.                               *)

\* Each step moves one goroutine.
LEMMA Step ==
    ASSUME IInv, Next
    PROVE  IInv'
<1>1. \E a \in Actors : Move(a)
  BY OpenerMoves, ReadMoves, RequestMoves DEF IInv, Next, Actors
<1>2. Opening'
  BY OpeningStep DEF IInv
<1>3. /\ Owned'
      /\ deflater' \in [Requests -> Deflaters \cup {None}]
      /\ closer' \in [Deflaters -> Requests \cup {None}]
      /\ pool' \subseteq Deflaters
  BY OwnedStep DEF IInv
<1>4. /\ pc' \in [Actors -> Steps] /\ reader' \in [Actors -> Readers]
      /\ want' \in [Actors -> Nat] /\ calls' \in [Actors -> Nat]
      /\ openRequests' \in Int
      /\ AllPlaced' /\ OpenRequestsCounted'
  BY <1>1, MoveInvariant DEF IInv
<1>5. cachedReader' \in BOOLEAN /\ archive' \in {"reading", "opened", "failed"}
  BY Zenon DEF IInv, TypeOK, Next, NewResource, cachedRead, cachedReadDone,
         WithCachedReader, SendRequest, ensureResponse, Read, DataOffset, Open,
         ServeContent, ServeContentDone, CloseReader, CloseDeflater
<1> QED
  BY <1>2, <1>3, <1>4, <1>5 DEF IInv, TypeOK

\* The inductive invariant always holds.
LEMMA Inductive == Spec => []IInv
<1>1. Init => IInv
  <2> SUFFICES ASSUME Init PROVE IInv
    OBVIOUS
  <2> USE RangeReaderAssumption DEF Init
  <2>1. /\ NewReader(0, 0) \in Readers /\ ~IsOpen(NewReader(0, 0))
        /\ Placed(NewReader(0, 0), "idle", 0)
        /\ Placed(NewReader(0, 0), "resource", 0)
    BY NewReaderPlaced
  <2>2. TypeOK
    <3>1. pc \in [Actors -> Steps]
      BY DEF Steps
    <3>2. reader \in [Actors -> Readers]
      BY <2>1
    <3>3. want \in [Actors -> Nat] /\ calls \in [Actors -> Nat]
      OBVIOUS
    <3>4. /\ deflater \in [Requests -> Deflaters \cup {None}]
          /\ closer \in [Deflaters -> Requests \cup {None}]
      OBVIOUS
    <3>5. cachedReader \in BOOLEAN
      BY Zenon
    <3>6. /\ archive \in {"reading", "opened", "failed"}
          /\ pool \subseteq Deflaters /\ openRequests \in Int
      OBVIOUS
    <3> QED
      BY <3>1, <3>2, <3>3, <3>4, <3>5, <3>6, Zenon DEF TypeOK
  <2>3. AllPlaced
    BY <2>1 DEF AllPlaced
  <2>4. Opening /\ Owned
    BY DEF Opening, Owned, Actors
  <2>5. OpenRequestsCounted
    <3>1. {a \in Actors : pc[a] = "sent" \/ IsOpen(reader[a])} = {}
      BY <2>1
    <3> QED
      BY <3>1, FS_EmptySet DEF OpenRequestsCounted
  <2> QED
    BY <2>2, <2>3, <2>4, <2>5 DEF IInv
<1>2. IInv /\ [Next]_vars => IInv'
  <2>1. IInv /\ UNCHANGED vars => IInv'
    <3> SUFFICES ASSUME IInv, UNCHANGED vars PROVE IInv'
      OBVIOUS
    <3> USE DEF vars, deflate, IInv
    <3>1. TypeOK'
      BY DEF TypeOK
    <3>2. AllPlaced'
      BY DEF AllPlaced, Placed
    <3>3. Opening'
      BY DEF Opening
    <3>4. Owned'
      BY DEF Owned
    <3>5. OpenRequestsCounted'
      BY DEF OpenRequestsCounted
    <3> QED
      BY <3>1, <3>2, <3>3, <3>4, <3>5
  <2> QED
    BY <2>1, Step
<1> QED
  BY <1>1, <1>2, PTL DEF Spec

\* Reader.Seek and Reader.Read: whatever the size of the archive and the order
\* of seeks, reads and failures, the next byte of an open response is the byte
\* at the offset, and the offset is within the range.
THEOREM InPlace == Spec => []BytesInPlace
<1>1. IInv => BytesInPlace
  BY DEF IInv, AllPlaced, Placed, BytesInPlace
<1> QED
  BY <1>1, Inductive, PTL

\* ensureResponse and Reader.Close: HTTPRangeOpenRequests is exact for any
\* number of concurrent readers.
THEOREM GaugeExact == Spec => []OpenRequestsCounted
<1>1. IInv => OpenRequestsCounted
  BY DEF IInv
<1> QED
  BY <1>1, Inductive, PTL

\* WithCachedReader and readArchive: no request ever runs beside the cached
\* reader, however many are waiting for the archive.
THEOREM CachedAlone == Spec => []CachedReaderPrivate
<1>1. IInv => CachedReaderPrivate
  BY DEF IInv, Opening, CachedReaderPrivate
<1> QED
  BY <1>1, Inductive, PTL

\* deflateReader.Close: a deflateReader never serves two requests, for any
\* number of requests and of objects in the pool.
THEOREM OneOwner == Spec => []DeflaterOwned
<1>1. IInv => DeflaterOwned
  BY DEF IInv, Owned, DeflaterOwned
<1> QED
  BY <1>1, Inductive, PTL
=============================================================================
