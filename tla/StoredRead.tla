----------------------------- MODULE StoredRead -----------------------------
(***************************************************************************)
(* Reading part of a stored object back as the client's bytes: the range   *)
(* a client asks for (util/byterange), its translation through the         *)
(* encryption envelope (range.go) and, for a compressed copy, through  *)
(* the seek table and the frames it names (compression/ranged.go,          *)
(* proxy/object/compression_fetcher.go, get.go and get_compressed.go).     *)
(*                                                                         *)
(* Bytes are positions.  A compressed copy is a stream of frames, frame k  *)
(* holding FrameSize logical bytes in lens[k] stored ones, followed by the *)
(* seek table.  A fetch returns an interval of positions, and decrypting   *)
(* succeeds only on intervals that are exactly the chunks as sealed.  The  *)
(* seekable library and zstd are external: a frame decodes when all its    *)
(* bytes are there and undamaged.                                          *)
(***************************************************************************)
EXTENDS Integers, Sequences, SequencesExt, FiniteSets, FiniteSetsExt

CONSTANTS
    HeaderSize,     \* bytes of the envelope's header
    ChunkOverhead,  \* nonce and tag bytes per chunk
    Objects,        \* stored copies: [n, comp, lens, enc, chunk]
    Headers,        \* Range headers: [kind, from, to]
    FrameSize,      \* logical bytes per frame
    TableSize,      \* seek table bytes per frame, and again for its footer
    TailPrefetch,   \* tailPrefetchSize
    StreamMin,      \* streamMinSize
    Faults          \* may a fetch fail

VARIABLES
    obj,      \* the copy read
    hdr,      \* the client's Range header
    bad,      \* the frames whose stored bytes are damaged
    pc,       \* where the read is
    tail,     \* how much of the stream's end rangeEnv holds
    todo,     \* the logical bytes still to deliver, as an interval
    sent,     \* the logical bytes delivered
    asked,    \* the frames fetched from the backend one by one
    err       \* how the read ended

vars == <<obj, hdr, bad, pc, tail, todo, sent, asked, err>>

-----------------------------------------------------------------------------
(* The offset arithmetic of the encryption envelope: a header, then one     *)
(* frame per chunk of plaintext, as long as it plus nonce and tag.          *)

\* No byte interval, and the error value of the translations.
Invalid == [ok |-> FALSE]

\* The size an envelope of n plaintext bytes in chunks of c is declared with.
ciphertextSizeExact(n, c) ==
    LET full == n \div c
        rest == n % c
    IN  IF n = 0
          THEN HeaderSize
          ELSE HeaderSize + full * (ChunkOverhead + c)
                 + (IF rest > 0 THEN ChunkOverhead + rest ELSE 0)

\* 1 << bits.Len64(x - 1): the smallest power of two that holds x.
PowerOfTwoHolding(x) == Min({ 2^k : k \in { k \in 0 .. x : 2^k >= x } })

\* The chunk size an envelope was written with, from its two sizes; zero when
\* none fits.
chunkSizeOf(plain, cipher) ==
    LET chunks == (cipher - HeaderSize - plain) \div ChunkOverhead
        Fitting(cs) == IF ciphertextSizeExact(plain, cs) = cipher THEN cs ELSE 0
    IN  IF chunks > 0 /\ plain > 0
          THEN Fitting(PowerOfTwoHolding((plain + chunks - 1) \div chunks)) ELSE 0

\* The ciphertext range covering plaintext bytes start to end, and how to cut
\* them out of the decrypted chunks.
ChunksCovering(start, end, cs) ==
    IF start < 0 \/ end < start \/ cs = 0
      THEN Invalid
      ELSE [ok |-> TRUE,
            lo |-> HeaderSize + (start \div cs) * (cs + ChunkOverhead),
            hi |-> HeaderSize + ((end \div cs) + 1) * (cs + ChunkOverhead) - 1,
            ChunkSize |-> cs,
            StartChunk |-> start \div cs,
            SliceStart |-> start % cs,
            SliceLen |-> end - start + 1]

CiphertextRange(start, end, plain, cipher) ==
    ChunksCovering(start, end, chunkSizeOf(plain, cipher))

----------------------------------------------------------------------------
(* The copy and its layout.                                                *)

NumFrames(o) == Len(o.lens)

SeekTable(o) == (NumFrames(o) + 1) * TableSize

\* Stored bytes of the frames before frame k.
FrameStart(o, k) == o.starts[k]

\* compressedSize: the stream underneath the envelope.
compressedSize(o) == IF o.comp THEN FrameStart(o, NumFrames(o) + 1) + SeekTable(o) ELSE o.n

SizeBytes(o) == o.size

\* A copy as its row records it: where the frames start, and its size through
\* the envelope.
WithStarts(o) ==
    [starts |-> [k \in 1 .. NumFrames(o) + 1 |-> FoldLeft(+, 0, SubSeq(o.lens, 1, k - 1))]] @@ o

Sized(o) ==
    [size |-> IF o.enc THEN ciphertextSizeExact(compressedSize(o), o.chunk) ELSE compressedSize(o)] @@ o

\* The stored interval of the envelope's chunk k, as it was sealed.
SealedChunk(o, k) ==
    [lo |-> HeaderSize + k * (o.chunk + ChunkOverhead),
     hi |-> Min({HeaderSize + (k + 1) * (o.chunk + ChunkOverhead), SizeBytes(o)}) - 1]

----------------------------------------------------------------------------
(* byterange.Parse.                                                        *)

\* A Range header resolved against an object of size bytes.
Parse(h, size) ==
    IF h.kind = "suffix" /\ h.to > 0
      THEN [ok |-> TRUE, lo |-> Max({size - h.to, 0}), hi |-> size - 1]
    ELSE IF h.kind \in {"open", "closed"} /\ h.from < size /\ (h.kind = "closed" => h.to >= h.from)
      THEN [ok |-> TRUE, lo |-> h.from,
            hi |-> IF h.kind = "open" THEN size - 1 ELSE Min({h.to, size - 1})]
    ELSE Invalid

\* The bytes a read delivers: the range, or everything when there is none to
\* act on.
Bounds(o, h) == IF Parse(h, o.n).ok THEN Parse(h, o.n) ELSE [ok |-> TRUE, lo |-> 0, hi |-> o.n - 1]

----------------------------------------------------------------------------
(* One ranged fetch.                                                       *)

\* A backend's answer to a Range: what there is of it, or 416. A backend that
\* ignores Range has it cut out of the whole reply, with the same result for
\* every object that has a byte.
applyRange(o, lo, hi) ==
    IF lo >= SizeBytes(o) THEN Invalid ELSE [ok |-> TRUE, lo |-> lo, hi |-> Min({hi, SizeBytes(o) - 1})]

\* DecryptStored over a range: the chunks must be the sealed ones, in order
\* from StartChunk; Window then discards up to the slice and ends after it.
DecryptStored(o, got, rng) ==
    LET frame == rng.ChunkSize + ChunkOverhead
        last == (got.hi - got.lo) \div frame
        Piece(j) == [lo |-> got.lo + j * frame, hi |-> Min({got.lo + (j + 1) * frame - 1, got.hi})]
        plainHi == Min({(rng.StartChunk + last + 1) * o.chunk, compressedSize(o)}) - 1
        first == rng.StartChunk * o.chunk + rng.SliceStart
    IN  IF \A j \in 0 .. last : Piece(j) = SealedChunk(o, rng.StartChunk + j)
          THEN [ok |-> first <= plainHi, lo |-> first, hi |-> Min({first + rng.SliceLen - 1, plainHi})]
          ELSE Invalid

\* backendRangeFor and the read behind it: bytes lo to hi of the stream under
\* the envelope.
backendRangeFor(o, lo, hi) ==
    LET Decrypted(rng, got) == IF got.ok THEN DecryptStored(o, got, rng) ELSE Invalid
        Sealed(rng) == IF rng.ok THEN Decrypted(rng, applyRange(o, rng.lo, rng.hi)) ELSE Invalid
    IN  IF o.enc THEN Sealed(CiphertextRange(lo, hi, compressedSize(o), SizeBytes(o)))
        ELSE applyRange(o, lo, hi)

\* FetchRange reads exactly what was asked for or fails.
FetchRange(o, lo, hi) ==
    LET Whole(got) == IF got.ok /\ got.hi - got.lo = hi - lo THEN got ELSE Invalid
    IN  Whole(backendRangeFor(o, lo, hi))

----------------------------------------------------------------------------
(* The read.                                                               *)

End(e) == pc' = "done" /\ err' = e

\* The frame a logical offset falls in.
FrameOf(i) == i \div FrameSize + 1

\* Whole reads of large objects leave the frames for one stream.
Streamed == ~Parse(hdr, obj.n).ok /\ obj.n > StreamMin

\* ReadFooter fetches the tail, which usually holds the table as well.
ReadFooter ==
    /\ pc = "start" /\ obj.comp
    /\ \/ LET n == Min({TailPrefetch, compressedSize(obj)})
              got == FetchRange(obj, compressedSize(obj) - n, compressedSize(obj) - 1)
          IN  IF got.ok
                THEN tail' = n /\ pc' = "table" /\ UNCHANGED err
                ELSE UNCHANGED tail /\ End("fetch")
       \/ Faults /\ End("fetch") /\ UNCHANGED tail
    /\ UNCHANGED <<obj, hdr, bad, todo, sent, asked>>

\* ReadSkipFrame, and compressedResult once the table is parsed: the client's
\* range in logical coordinates.
ReadSkipFrame ==
    /\ pc = "table"
    /\ \/ /\ SeekTable(obj) <= tail
             \/ FetchRange(obj, compressedSize(obj) - SeekTable(obj), compressedSize(obj) - 1).ok
          /\ pc' = IF Streamed THEN "stream" ELSE "frames"
          /\ todo' = [lo |-> Bounds(obj, hdr).lo, hi |-> Bounds(obj, hdr).hi]
          /\ UNCHANGED err
       \/ /\ Faults /\ SeekTable(obj) > tail
          /\ End("fetch")
          /\ UNCHANGED todo
    /\ UNCHANGED <<obj, hdr, bad, tail, sent, asked>>

\* fromTail: the prefetched tail holds the whole frame.
fromTail(o, k) == tail > 0 /\ FrameStart(o, k) >= compressedSize(o) - tail

\* The logical bytes of frame k still to deliver.
FrameBytes(k) == [i \in 1 .. Min({k * FrameSize - 1, todo.hi}) - todo.lo + 1 |-> todo.lo + i - 1]

\* Frame k's stored bytes are the ones its seek table entry names.
FrameArrives(o, k) ==
    LET lo == FrameStart(o, k)
        hi == FrameStart(o, k + 1) - 1
        got == FetchRange(o, lo, hi)
    IN  IF fromTail(o, k)
          THEN lo >= compressedSize(o) - tail
          ELSE got.ok /\ got.lo = lo /\ got.hi = hi

\* The frames a read of frame k fetches.
Fetched(k) == IF fromTail(obj, k) THEN {} ELSE {k}

\* The decoded frame's part of the range, handed to the client.
Deliver(k) ==
    /\ sent' = sent \o FrameBytes(k)
    /\ todo' = [todo EXCEPT !.lo = Min({k * FrameSize, todo.hi + 1})]

\* GetFrameByIndex and the decode of one frame, delivered to the client.
GetFrameByIndex ==
    LET k == FrameOf(todo.lo) IN
    /\ pc = "frames" /\ todo.lo <= todo.hi
    /\ asked' = asked \cup Fetched(k)
    /\ \/ /\ FrameArrives(obj, k) /\ k \notin bad
          /\ Deliver(k)
          /\ UNCHANGED <<pc, err>>
       \/ /\ ~FrameArrives(obj, k) \/ k \in bad
          /\ End("corrupt")
          /\ UNCHANGED <<sent, todo>>
       \/ /\ Faults /\ ~fromTail(obj, k)
          /\ End("fetch")
          /\ UNCHANGED <<sent, todo>>
    /\ UNCHANGED <<obj, hdr, bad, tail>>

\* What classifyDecode makes of a body that stopped arriving mid-stream: it
\* raised none of the codec's own errors, so corruption by elimination.
StreamFault == "corrupt"

\* stream: one GET, decoded front to back.
StreamFrame ==
    LET k == FrameOf(todo.lo) IN
    /\ pc = "stream" /\ todo.lo <= todo.hi
    /\ \/ k \notin bad /\ Deliver(k) /\ UNCHANGED <<pc, err>>
       \/ k \in bad /\ End("corrupt") /\ UNCHANGED <<sent, todo>>
       \/ Faults /\ End(StreamFault) /\ UNCHANGED <<sent, todo>>
    /\ UNCHANGED <<obj, hdr, bad, tail, asked>>

EndOfBody ==
    /\ pc \in {"frames", "stream"} /\ todo.lo > todo.hi
    /\ End("none")
    /\ UNCHANGED <<obj, hdr, bad, tail, todo, sent, asked>>

\* getObjectAttempt on a copy that is not compressed: resolveBackendRange
\* translates an encrypted copy's range and leaves a plain copy's to the
\* backend, which answers an unsatisfiable one 416.
getObjectAttempt ==
    LET r == Parse(hdr, obj.n)
        got == backendRangeFor(obj, r.lo, r.hi)
        Sending(i) == [j \in 1 .. i.hi - i.lo + 1 |-> i.lo + j - 1]
    IN  /\ pc = "start" /\ ~obj.comp
        /\ \/ /\ ~r.ok /\ (obj.enc \/ hdr.kind = "none")
              /\ sent' = Sending(Bounds(obj, hdr)) /\ End("none")
           \/ /\ ~r.ok /\ ~obj.enc /\ hdr.kind # "none"
              /\ UNCHANGED sent /\ End("range")
           \/ /\ r.ok /\ got.ok
              /\ sent' = Sending(got) /\ End("none")
           \/ /\ r.ok /\ ~got.ok
              /\ UNCHANGED sent /\ End("range")
           \/ Faults /\ UNCHANGED sent /\ End("fetch")
        /\ UNCHANGED <<obj, hdr, bad, tail, todo, asked>>

Init ==
    /\ obj \in { Sized(WithStarts(o)) : o \in Objects }
    /\ hdr \in Headers
    /\ bad \in { b \in SUBSET (1 .. NumFrames(obj)) : Cardinality(b) <= 1 }
    /\ pc = "start"
    /\ tail = 0
    /\ todo = [lo |-> 0, hi |-> -1]
    /\ sent = <<>>
    /\ asked = {}
    /\ err = "open"

Next ==
    \/ ReadFooter \/ ReadSkipFrame \/ GetFrameByIndex \/ StreamFrame \/ EndOfBody
    \/ getObjectAttempt

Spec == Init /\ [][Next]_vars

----------------------------------------------------------------------------
(* Properties.                                                             *)

\* The bytes a header names, read off its form without the code's arithmetic.
Named ==
    { i \in 0 .. obj.n - 1 :
        \/ hdr.kind = "suffix" /\ obj.n - i <= hdr.to
        \/ hdr.kind = "open" /\ i >= hdr.from
        \/ hdr.kind = "closed" /\ i >= hdr.from /\ i <= hdr.to }

\* An answer is the named bytes, or the whole object when the header names
\* none.
Answer == SetToSortSeq(IF Named = {} THEN 0 .. obj.n - 1 ELSE Named, <)

\* Positions stay inside the object, whatever the header says.
TypeOK ==
    /\ pc \in {"start", "table", "frames", "stream", "done"}
    /\ err \in {"open", "none", "fetch", "corrupt", "range"}
    /\ tail \in 0 .. TailPrefetch
    /\ todo.lo \in 0 .. obj.n /\ todo.hi \in -1 .. obj.n - 1

\* A client is sent exactly the bytes its Range names, in order and through
\* every layer the copy carries, or a prefix of them when the read fails; a
\* range is refused only when it names no byte
\* (Parse, CiphertextRange, DecryptStored, GetFrameByIndex).
ServesRequested ==
    /\ IsPrefix(sent, Answer)
    /\ err = "none" => sent = Answer
    /\ err = "range" => Named = {}

\* A ranged read of a compressed copy fetches no frame its range does not
\* touch, which is what the chunked format is for
\* (compressedGetAttempt, rangeEnv.GetFrameByIndex).
FetchesCovering == asked \subseteq { FrameOf(i) : i \in Range(Answer) }

\* Corruption is reported only of bytes that are damaged, never of a read that
\* failed to arrive (classifyDecode, ErrCorruptObject).
CorruptOnlyDamaged == err = "corrupt" => bad # {}

=============================================================================
