---------------------------- MODULE RangeReader ----------------------------
(***************************************************************************)
(* Reading a zip archive over HTTP: internal/httprange (Reader and         *)
(* RangedReader) as internal/vfs/zip uses it. The goroutine of readArchive *)
(* reads the directory of the archive with one cached reader; afterwards   *)
(* each request reads a local file header with an ephemeral reader, then   *)
(* the data of the file with a section reader, which for a compressed file *)
(* is wrapped in a deflateReader from a pool.                              *)
(*                                                                         *)
(* A byte of the archive is its position. Which archive is opened, and     *)
(* what becomes of an archive whose resource has failed, is module ZipVFS. *)
(***************************************************************************)
EXTENDS Integers, FiniteSets

CONSTANTS
    Requests,  \* requests for a file of the archive
    Opener,    \* the goroutine of readArchive
    Size,      \* Resource.Size
    Deflaters, \* the deflateReader objects
    MaxReads,  \* bound: calls of ReadAt by readArchive
    MaxSeeks,  \* bound: calls of Seek by a request
    None

ASSUME RangeReaderAssumption ==
    /\ Size \in Nat \ {0, 1}
    /\ MaxReads \in Nat /\ MaxSeeks \in Nat
    /\ IsFiniteSet(Requests)
    /\ Opener \notin Requests
    /\ None \notin Deflaters

VARIABLES
    pc,           \* what each goroutine does
    reader,       \* the Reader each goroutine has
    cachedReader, \* whether RangedReader.cachedReader is set
    archive,      \* "reading", "opened" or "failed": a.done and a.err
    want,         \* bytes the caller still wants from Read
    calls,        \* calls of ReadAt or Seek so far
    deflater,     \* the deflateReader each request has
    closer,       \* deflateReader.closer
    pool,         \* deflateReaderPool
    openRequests  \* the gauge HTTPRangeOpenRequests

vars == <<pc, reader, cachedReader, archive, want, calls, deflater, closer,
          pool, openRequests>>
deflate == <<deflater, closer, pool>>

Actors == Requests \cup {Opener}

\* An HTTP response: the position of the next byte of its body and the end of
\* the body. A broken one has lost its connection.
NoResponse == [pos |-> 0, end |-> 0, state |-> "none"]
Response(pos, end) == [pos |-> pos, end |-> end, state |-> "open"]

NewReader(offset, size) ==
    [rangeStart |-> offset, rangeSize |-> size, offset |-> offset,
     res |-> NoResponse]
End(r) == r.rangeStart + r.rangeSize
IsOpen(r) == r.res.state # "none"

Init ==
    /\ pc = [a \in Actors |-> IF a = Opener THEN "resource" ELSE "idle"]
    /\ reader = [a \in Actors |-> NewReader(0, 0)]
    /\ cachedReader = FALSE
    /\ archive = "reading"
    /\ want = [a \in Actors |-> 0]
    /\ calls = [a \in Actors |-> 0]
    /\ deflater = [q \in Requests |-> None]
    /\ closer = [d \in Deflaters |-> None]
    /\ pool = {}
    /\ openRequests = 0

-----------------------------------------------------------------------------
(* Reader.                                                                 *)

\* Reader.Close
Closed(r) == [r EXCEPT !.res = NoResponse]
CountClosed(r) == openRequests' = openRequests - (IF IsOpen(r) THEN 1 ELSE 0)

\* Slip: the response is kept, to be read on from where it is.
SeekOnly(r, offset) == [r EXCEPT !.offset = offset]

\* Seek to a position of the resource within the range.
Seek(r, offset) ==
    [(IF offset # r.offset THEN Closed(r) ELSE r) EXCEPT !.offset = offset]

\* ensureResponse, up to the request: prepareRequest refuses what is out of
\* range.
SendRequest(a) ==
    /\ pc[a] = "read" /\ want[a] > 0
    /\ ~IsOpen(reader[a])
    /\ IF reader[a].offset < End(reader[a]) /\ End(reader[a]) <= Size
       THEN /\ openRequests' = openRequests + 1
            /\ pc' = [pc EXCEPT ![a] = "sent"]
       ELSE /\ openRequests' = openRequests
            /\ pc' = [pc EXCEPT ![a] = "failed"]
    /\ UNCHANGED <<reader, cachedReader, archive, want, calls, deflate>>

\* The bodies setResponse accepts: a part of the resource from the offset on,
\* perhaps shorter than asked for because the resource was cut, or the whole
\* resource, whatever its size is by now, if the offset is 0.
setResponse(r) ==
    {Response(r.offset, end) : end \in r.offset + 1 .. End(r)}
        \cup {Response(0, end) : end \in IF r.offset > 0 THEN {} ELSE 1..(Size + 1)}

\* Slip: a refused response is still counted.
KeepsCounting(a) ==
    /\ pc[a] = "sent"
    /\ \/ /\ \E res \in setResponse(reader[a]) :
                reader' = [reader EXCEPT ![a].res = res]
          /\ pc' = [pc EXCEPT ![a] = "read"]
       \/ reader' = reader /\ pc' = [pc EXCEPT ![a] = "failed"]
    /\ UNCHANGED <<cachedReader, archive, want, calls, deflate, openRequests>>

\* The rest of ensureResponse: the request fails, its answer is refused and
\* the body closed, or it is accepted.
ensureResponse(a) ==
    /\ pc[a] = "sent"
    /\ \/ /\ \E res \in setResponse(reader[a]) :
                reader' = [reader EXCEPT ![a].res = res]
          /\ pc' = [pc EXCEPT ![a] = "read"]
          /\ openRequests' = openRequests
       \/ /\ reader' = reader
          /\ pc' = [pc EXCEPT ![a] = "failed"]
          /\ openRequests' = openRequests - 1
    /\ UNCHANGED <<cachedReader, archive, want, calls, deflate>>

Advanced(r, n) ==
    [r EXCEPT !.res = Response(r.res.pos + n, r.res.end), !.offset = @ + n]
Broken(r, n) ==
    [r EXCEPT !.res = [pos |-> r.res.pos + n, end |-> r.res.end,
                       state |-> "broken"]]

\* Read from the body: some bytes; or the end of the body, after which the
\* reader keeps the response; or bytes together with an error, which are not
\* added to the offset. A deflateReader reads nothing once it is closed.
Read(a) ==
    /\ pc[a] = "read" /\ want[a] > 0
    /\ IsOpen(reader[a])
    /\ \/ \E n \in 1..want[a] :
            /\ reader[a].res.state = "open"
            /\ reader[a].res.pos + n <= reader[a].res.end
            /\ \/ /\ reader' = [reader EXCEPT ![a] = Advanced(@, n)]
                  /\ want' = [want EXCEPT ![a] = @ - n]
                  /\ pc' = pc
               \/ /\ reader' = [reader EXCEPT ![a] = Broken(@, n)]
                  /\ want' = want
                  /\ pc' = [pc EXCEPT ![a] = "failed"]
       \/ /\ reader[a].res.pos = reader[a].res.end \/ reader[a].res.state = "broken"
          /\ pc' = [pc EXCEPT ![a] = "failed"]
          /\ UNCHANGED <<reader, want>>
    /\ UNCHANGED <<cachedReader, archive, calls, deflate, openRequests>>

-----------------------------------------------------------------------------
(* readArchive.                                                            *)

\* NewResource fails, or WithCachedReader makes the cached reader.
NewResource ==
    /\ pc[Opener] = "resource"
    /\ \/ /\ cachedReader' = TRUE
          /\ reader' = [reader EXCEPT ![Opener] = NewReader(0, Size)]
          /\ pc' = [pc EXCEPT ![Opener] = "directory"]
          /\ archive' = archive
       \/ /\ pc' = [pc EXCEPT ![Opener] = "over"] /\ archive' = "failed"
          /\ UNCHANGED <<cachedReader, reader>>
    /\ UNCHANGED <<want, calls, deflate, openRequests>>

\* zip.NewReader calls ReadAt, which is cachedRead.
cachedRead ==
    /\ pc[Opener] = "directory"
    /\ calls[Opener] < MaxReads /\ calls' = [calls EXCEPT ![Opener] = @ + 1]
    /\ \E offset \in 0..(Size - 1) : \E n \in 1..(Size - offset) :
            /\ reader' = [reader EXCEPT ![Opener] = Seek(@, offset)]
            /\ openRequests' = openRequests
                    + (IF IsOpen(reader'[Opener]) THEN 1 ELSE 0)
                    - (IF IsOpen(reader[Opener]) THEN 1 ELSE 0)
            /\ want' = [want EXCEPT ![Opener] = n]
    /\ pc' = [pc EXCEPT ![Opener] = "read"]
    /\ UNCHANGED <<cachedReader, archive, deflate>>

\* io.ReadFull has returned.
cachedReadDone ==
    /\ pc[Opener] = "read" /\ want[Opener] = 0
    /\ pc' = [pc EXCEPT ![Opener] = "directory"]
    /\ UNCHANGED <<reader, cachedReader, archive, want, calls, deflate,
                   openRequests>>

\* Slip: requests are let in before the cached reader is gone.
DoneFirst ==
    \/ /\ pc[Opener] \in {"directory", "failed"} /\ archive = "reading"
       /\ archive' = IF pc[Opener] = "failed" THEN "failed" ELSE "opened"
       /\ UNCHANGED <<pc, reader, cachedReader, want, calls, deflate, openRequests>>
    \/ /\ pc[Opener] \in {"directory", "failed"} /\ archive # "reading"
       /\ reader' = [reader EXCEPT ![Opener] = Closed(@)]
       /\ CountClosed(reader[Opener])
       /\ cachedReader' = FALSE
       /\ pc' = [pc EXCEPT ![Opener] = "over"]
       /\ UNCHANGED <<archive, want, calls, deflate>>

\* The deferred function of WithCachedReader, then close(a.done).
WithCachedReader ==
    \/ /\ pc[Opener] \in {"directory", "failed"} /\ cachedReader
       /\ reader' = [reader EXCEPT ![Opener] = NewReader(0, 0)]
       /\ want' = [want EXCEPT ![Opener] = 0]
       /\ calls' = [calls EXCEPT ![Opener] = MaxReads]
       /\ CountClosed(reader[Opener])
       /\ cachedReader' = FALSE
       /\ UNCHANGED <<pc, archive, deflate>>
    \/ /\ pc[Opener] \in {"directory", "failed"} /\ ~cachedReader
       /\ archive' = IF pc[Opener] = "failed" THEN "failed" ELSE "opened"
       /\ pc' = [pc EXCEPT ![Opener] = "over"]
       /\ UNCHANGED <<reader, cachedReader, want, calls, deflate, openRequests>>

-----------------------------------------------------------------------------
(* Requests: zipArchive.Open and the serving of the file.                  *)

\* file.DataOffset calls ReadAt: with no cached reader it is ephemeralRead.
DataOffset(q) ==
    /\ pc[q] = "idle" /\ archive = "opened"
    /\ \E offset \in 0..(Size - 1) :
            reader' = [reader EXCEPT ![q] = NewReader(offset, 1)]
    /\ want' = [want EXCEPT ![q] = 1]
    /\ pc' = [pc EXCEPT ![q] = "read"]
    /\ UNCHANGED <<cachedReader, archive, calls, deflate, openRequests>>

\* ephemeralRead has read the header. SectionReader makes the reader of the
\* data, which never starts at 0; the directory may give a size that is not
\* that of the data. A compressed file gets a deflateReader, one of the pool
\* if there is any.
Open(q) ==
    /\ pc[q] = "read" /\ want[q] = 0 /\ calls[q] = 0
    /\ CountClosed(reader[q])
    /\ calls' = [calls EXCEPT ![q] = 1]
    /\ \E offset \in 1..(Size - 1) : \E n \in 0..Size :
        /\ reader' = [reader EXCEPT ![q] = NewReader(offset, n)]
        /\ \/ /\ want' = want /\ pc' = [pc EXCEPT ![q] = "serve"]
              /\ UNCHANGED deflate
           \/ \E d \in IF pool # {} THEN pool
                       ELSE {e \in Deflaters : \A p \in Requests : deflater[p] # e} :
                /\ n > 0
                /\ pool' = pool \ {d}
                /\ closer' = [closer EXCEPT ![d] = q]
                /\ deflater' = [deflater EXCEPT ![q] = d]
                /\ want' = [want EXCEPT ![q] = n]
                /\ pc' = [pc EXCEPT ![q] = "read"]
    /\ UNCHANGED <<cachedReader, archive>>

\* http.ServeContent seeks and reads within the file.
ServeContent(q) ==
    /\ pc[q] = "serve" /\ calls[q] <= MaxSeeks
    /\ calls' = [calls EXCEPT ![q] = @ + 1]
    /\ \E offset \in reader[q].rangeStart..End(reader[q]) :
       \E n \in 0..(End(reader[q]) - offset) :
            /\ reader' = [reader EXCEPT ![q] = Seek(@, offset)]
            /\ want' = [want EXCEPT ![q] = n]
    /\ openRequests' = openRequests - (IF IsOpen(reader[q]) THEN 1 ELSE 0)
                                    + (IF IsOpen(reader'[q]) THEN 1 ELSE 0)
    /\ pc' = [pc EXCEPT ![q] = "read"]
    /\ UNCHANGED <<cachedReader, archive, deflate>>

ServeContentDone(q) ==
    /\ pc[q] = "read" /\ want[q] = 0 /\ calls[q] > 0
    /\ pc' = [pc EXCEPT ![q] = IF deflater[q] = None THEN "serve" ELSE "failed"]
    /\ UNCHANGED <<reader, cachedReader, archive, want, calls, deflate,
                   openRequests>>

\* Close, in the order of deflateReader.Close if there is one: the reader is
\* closed (and dropped), then closer is reset, then the object goes back to
\* the pool. The client may have gone before all was read.
CloseReader(q) ==
    /\ pc[q] \in {"serve", "failed"} \/ (pc[q] = "read" /\ calls[q] > 0)
    /\ CountClosed(reader[q])
    /\ reader' = [reader EXCEPT ![q] = NewReader(0, 0)]
    /\ want' = [want EXCEPT ![q] = 0]
    /\ calls' = [calls EXCEPT ![q] = 0]
    /\ pc' = [pc EXCEPT ![q] = IF deflater[q] = None THEN "idle" ELSE "reset"]
    /\ UNCHANGED <<cachedReader, archive, deflate>>

\* Slip: the object is given back first.
PutFirst(q) ==
    /\ \/ /\ pc[q] = "reset" /\ pc' = [pc EXCEPT ![q] = "put"]
          /\ pool' = pool \cup {deflater[q]}
          /\ UNCHANGED <<closer, deflater>>
       \/ /\ pc[q] = "put" /\ pc' = [pc EXCEPT ![q] = "idle"]
          /\ closer' = [closer EXCEPT ![deflater[q]] = None]
          /\ deflater' = [deflater EXCEPT ![q] = None]
          /\ pool' = pool
    /\ UNCHANGED <<reader, cachedReader, archive, want, calls, openRequests>>

CloseDeflater(q) ==
    /\ \/ /\ pc[q] = "reset" /\ pc' = [pc EXCEPT ![q] = "put"]
          /\ closer' = [closer EXCEPT ![deflater[q]] = None]
          /\ UNCHANGED <<deflater, pool>>
       \/ /\ pc[q] = "put" /\ pc' = [pc EXCEPT ![q] = "idle"]
          /\ pool' = pool \cup {deflater[q]}
          /\ deflater' = [deflater EXCEPT ![q] = None]
          /\ closer' = closer
    /\ UNCHANGED <<reader, cachedReader, archive, want, calls, openRequests>>

-----------------------------------------------------------------------------
Next ==
    \/ NewResource \/ cachedRead \/ cachedReadDone \/ WithCachedReader
    \/ \E a \in Actors : SendRequest(a) \/ ensureResponse(a) \/ Read(a)
    \/ \E q \in Requests :
            \/ DataOffset(q) \/ Open(q) \/ ServeContent(q)
            \/ ServeContentDone(q) \/ CloseReader(q) \/ CloseDeflater(q)

Spec == Init /\ [][Next]_vars

-----------------------------------------------------------------------------
(* Properties.                                                             *)

\* "offset defines a current place where data is being read from": whatever
\* Seek, Read and failed reads came before, the next byte of an open response
\* is the one at the reader's offset, and the offset is within the range, so
\* that the bytes of the archive are never shifted.
BytesInPlace ==
    \A a \in Actors :
        /\ reader[a].offset \in reader[a].rangeStart..End(reader[a])
        /\ reader[a].res.state = "open" => reader[a].res.pos = reader[a].offset

\* HTTPRangeOpenRequests is the number of requests sent or open, over all
\* readers: each way out of ensureResponse and Close counts exactly once.
OpenRequestsCounted ==
    openRequests = Cardinality({a \in Actors :
                                    pc[a] = "sent" \/ IsOpen(reader[a])})

\* "ReadAt reads from cachedReader if exists": the cached reader has no lock,
\* so the goroutine of readArchive must be the only one that ever finds it;
\* every request finds none.
CachedReaderPrivate ==
    cachedReader => \A q \in Requests : pc[q] = "idle"

\* A deflateReader belongs to one open file at a time: while a request reads
\* from it, closer is the reader of that request, and the object is neither
\* in the pool nor with another request.
DeflaterOwned ==
    \A q \in Requests :
        deflater[q] # None /\ pc[q] \in {"read", "sent", "failed"} =>
            /\ closer[deflater[q]] = q
            /\ deflater[q] \notin pool
            /\ \A p \in Requests \ {q} : deflater[p] # deflater[q]
=============================================================================
