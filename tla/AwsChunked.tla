----------------------------- MODULE AwsChunked -----------------------------
(***************************************************************************)
(* A request body on its way to a handler: the aws-chunked decoder of      *)
(* internal/transport/auth/streaming.go, the digest reader of digest.go    *)
(* around it, and the handler that consumes the result.                    *)
(*                                                                         *)
(* A body is a sequence of chunks, each a sequence of units.  A signature  *)
(* is the chain of what it covers, a checksum the units it was taken over, *)
(* so equal values mean equal contents.  The wire carries chunks, trailer  *)
(* lines and empty lines; on the way it may lose, repeat, reorder, spoil   *)
(* or cut them off, at most MaxFaults times.                               *)
(***************************************************************************)
EXTENDS Integers, Sequences, SequencesExt, FiniteSetsExt

CONSTANTS
    Requests,        \* the uploads a client makes
    MaxChunk,        \* MaxChunkBytes, in units
    MaxTrailers,     \* maxTrailerHeaders
    Supported,       \* trailer names in checksumHashes
    MaxFaults        \* bound on what happens to one body on the wire

VARIABLES
    req,       \* the request's headers and the payload the client meant
    wire,      \* what is left to read from the connection
    faults,    \* how often the wire was damaged
    rd,        \* the chunkReader (for a plain body, net/http's)
    dg,        \* the digestReader
    got,       \* the units handed to the consumer
    outcome    \* "sending", "reading", "accepted", "refused"

vars == <<req, wire, faults, rd, dg, got, outcome>>

----------------------------------------------------------------------------
(* What the client sends.                                                  *)

Payload(q) == FlattenSeq(q.chunks)
IsSigned(q) == q.variant \in {"signed", "signed_trailer"}
HasTrailer(q) == q.variant \in {"signed_trailer", "unsigned_trailer"}

Seed == << <<"seed", <<>> >> >>
Spoilt == << <<"spoilt", <<>> >> >>
NoSig == <<>>

Link(prev, kind, content) == Append(prev, <<kind, content>>)

Chunk(body, sig) == [t |-> "chunk", body |-> body, sig |-> sig, name |-> 0, value |-> <<>>]
Line(name, value) == [t |-> "line", body |-> <<>>, sig |-> NoSig, name |-> name, value |-> value]
SigLine(sig) == [t |-> "sigline", body |-> <<>>, sig |-> sig, name |-> 0, value |-> <<>>]
Empty == [t |-> "empty", body |-> <<>>, sig |-> NoSig, name |-> 0, value |-> <<>>]
Garbage == [Empty EXCEPT !.t = "garbage"]

\* The signature of the i-th of these chunk bodies.
ChainTo(bodies, i) ==
    Seed \o [k \in 1 .. i |-> <<"chunk", bodies[k]>>]

\* canonicalizeTrailers: by name, in the order sent for equal names.
canonicalizeTrailers(headers) == SortSeq(headers, LAMBDA a, b : a.name < b.name)

TrailersSent(q) == [i \in 1 .. Len(q.names) |-> [name |-> q.names[i], value |-> Payload(q)]]

Encode(q) ==
    LET bodies == IF q.variant = "none" THEN q.chunks ELSE Append(q.chunks, <<>>)
        framed == [i \in DOMAIN bodies |->
                     Chunk(bodies[i], IF IsSigned(q) THEN ChainTo(bodies, i) ELSE NoSig)]
        lines == [i \in 1 .. Len(q.names) |-> Line(q.names[i], Payload(q))]
        signature == <<SigLine(Link(ChainTo(bodies, Len(bodies)), "trailer",
                                    canonicalizeTrailers(TrailersSent(q))))>>
    IN  framed \o (IF HasTrailer(q) THEN lines ELSE <<>>)
               \o (IF q.variant = "signed_trailer" THEN signature ELSE <<>>)
               \o (IF q.variant = "none" THEN <<>> ELSE <<Empty>>)

----------------------------------------------------------------------------
(* The wire.                                                               *)

Damaged(w) ==
    { RemoveAt(w, i) : i \in 1 .. Len(w) }
    \cup { InsertAt(w, i, w[i]) : i \in 1 .. Len(w) }
    \cup { [w EXCEPT ![i] = w[i + 1], ![i + 1] = w[i]] : i \in 1 .. Len(w) - 1 }
    \cup { [w EXCEPT ![i] = Garbage] : i \in 1 .. Len(w) }
    \cup { [w EXCEPT ![i].sig = Spoilt] : i \in { j \in 1 .. Len(w) : w[j].sig # NoSig } }
    \cup { [w EXCEPT ![i].body = [@ EXCEPT ![1] = 9]] : i \in { j \in 1 .. Len(w) : w[j].body # <<>> } }
    \cup { [w EXCEPT ![i].value = <<9>>] : i \in { j \in 1 .. Len(w) : w[j].t = "line" } }
    \cup { SubSeq(w, 1, i) : i \in 0 .. Len(w) - 1 }

Damage ==
    /\ outcome = "sending"
    /\ faults < MaxFaults
    /\ wire' \in Damaged(wire)
    /\ faults' = faults + 1
    /\ UNCHANGED <<req, rd, dg, got, outcome>>

----------------------------------------------------------------------------
(* Setting the readers up.                                                 *)

\* NewChunkReader, with the hashes newTrailerChecksums starts.
NewChunkReader(q) ==
    [phase |-> "chunks", prevSig |-> Seed, decoded |-> <<>>, headers |-> <<>>, trailerSig |-> NoSig,
     initErr |-> IF q.variant = "unsigned_trailer" /\ ToSet(q.names) \ Supported # {}
                   THEN "trailer_malformed" ELSE "none",
     buf |-> <<>>, eof |-> FALSE, err |-> "none"]

\* VerifyDigests: nothing to check for an absent body or without digests; a
\* malformed digest waits for the first read.
VerifyDigests(q) ==
    [active |-> q.digest # "none" /\ ~(q.variant = "none" /\ q.declared = 0),
     remaining |-> q.declared,
     failed |-> IF q.digest = "malformed" THEN "digest_malformed" ELSE "none"]

\* ServeHTTP hands the body over: applyStreamingBody, then VerifyDigests.
applyStreamingBody ==
    /\ outcome = "sending"
    /\ outcome' = "reading"
    /\ UNCHANGED <<req, wire, faults, rd, dg, got>>

Failing == dg.active /\ dg.failed # "none"

Loading ==
    /\ outcome = "reading" /\ ~Failing
    /\ rd.buf = <<>> /\ ~rd.eof /\ rd.err = "none"

----------------------------------------------------------------------------
(* chunkReader.advance: one chunk.                                         *)

readChunkHeader(e) ==
    IF e.t = "chunk" /\ (IsSigned(req) <=> e.sig # NoSig) THEN "none" ELSE "chunk_malformed"

\* verifyLink: the error for a link whose signature is not the chain's.
verifyLink(r, provided, mismatch, kind, content) ==
    IF provided = Link(r.prevSig, kind, content) THEN "none" ELSE mismatch

verifyChunk(r, body, provided) ==
    verifyLink(r, provided, "chunk_signature_mismatch", "chunk", body)

\* The first error advance meets before the body is read, or "none".
SizeErr(r, e) ==
    IF readChunkHeader(e) # "none" THEN readChunkHeader(e)
    ELSE IF Len(e.body) > MaxChunk THEN "chunk_too_large"
    ELSE IF Len(r.decoded) + Len(e.body) > req.declared THEN "length_mismatch"
    ELSE "none"

\* What the body then has to pass.
BodyErr(r, e) ==
    IF IsSigned(req) THEN verifyChunk(r, e.body, e.sig)
    ELSE r.initErr

advance ==
    LET e == Head(wire) IN
    /\ Loading /\ rd.phase = "chunks" /\ req.variant # "none"
    /\ wire # <<>> => e.body # <<>> \/ readChunkHeader(e) # "none"
    /\ IF wire = <<>>
         THEN /\ rd' = [rd EXCEPT !.err = "chunk_malformed"]
              /\ UNCHANGED wire
         ELSE /\ wire' = Tail(wire)
              /\ LET err == IF SizeErr(rd, e) # "none" THEN SizeErr(rd, e) ELSE BodyErr(rd, e) IN
                 rd' = IF err # "none"
                         THEN [rd EXCEPT !.err = err]
                         ELSE [rd EXCEPT !.buf = e.body, !.decoded = @ \o e.body,
                                         !.prevSig = IF IsSigned(req) THEN e.sig ELSE @]
    /\ UNCHANGED <<req, faults, dg, got, outcome>>

----------------------------------------------------------------------------
(* finalize: the zero-size chunk and what follows it.                      *)

\* The check of every path of finalize, and the end of the body.
Finish(r) ==
    IF Len(r.decoded) # req.declared
      THEN [r EXCEPT !.err = "length_mismatch"]
      ELSE [r EXCEPT !.eof = TRUE, !.phase = "done"]

\* expectCRLF at the end of a body without trailer.
expectCRLF(w) == IF w # <<>> /\ Head(w).t = "empty" THEN "none" ELSE "chunk_malformed"

finalizeSigned(r, w) ==
    IF expectCRLF(w) # "none" THEN [r EXCEPT !.err = expectCRLF(w)] ELSE Finish(r)

\* The zero-size chunk: its signature, then the trailer or the last line.
finalize ==
    LET e == Head(wire)
        err == IF IsSigned(req) THEN verifyChunk(rd, <<>>, e.sig) ELSE rd.initErr
        linked == [rd EXCEPT !.prevSig = IF IsSigned(req) THEN e.sig ELSE @]
    IN
    /\ Loading /\ rd.phase = "chunks" /\ req.variant # "none"
    /\ wire # <<>> /\ e.body = <<>> /\ readChunkHeader(e) = "none"
    /\ wire' = Tail(wire)
    /\ rd' = IF err # "none" THEN [rd EXCEPT !.err = err]
             ELSE IF HasTrailer(req) THEN [linked EXCEPT !.phase = "trailer"]
             ELSE finalizeSigned(linked, Tail(wire))
    /\ UNCHANGED <<req, faults, dg, got, outcome>>

\* appendTrailerLine: the headers and signature after one line, or not ok.
appendTrailerLine(r, e) ==
    CASE e.t = "sigline" -> [ok |-> r.trailerSig = NoSig, headers |-> r.headers, sig |-> e.sig]
      [] e.t = "line"    -> [ok |-> Len(r.headers) < MaxTrailers,
                             headers |-> Append(r.headers, [name |-> e.name, value |-> e.value]), sig |-> r.trailerSig]
      [] OTHER           -> [ok |-> FALSE, headers |-> r.headers, sig |-> r.trailerSig]

\* parseTrailerLines, up to the empty line.
parseTrailerLines ==
    LET line == appendTrailerLine(rd, Head(wire)) IN
    /\ Loading /\ rd.phase = "trailer"
    /\ wire # <<>> => Head(wire).t # "empty"
    /\ IF wire = <<>>
         THEN /\ rd' = [rd EXCEPT !.err = "trailer_malformed"]
              /\ UNCHANGED wire
         ELSE /\ rd' = IF line.ok THEN [rd EXCEPT !.headers = line.headers, !.trailerSig = line.sig]
                                  ELSE [rd EXCEPT !.err = "trailer_malformed"]
              /\ wire' = Tail(wire)
    /\ UNCHANGED <<req, faults, dg, got, outcome>>

missingDeclaredTrailers(r) == ToSet(req.names) \ { r.headers[i].name : i \in DOMAIN r.headers }

\* readTrailerBlock: a signature exactly when one is due, no declared name missing.
readTrailerBlock(r) ==
    IF (req.variant = "signed_trailer" <=> r.trailerSig # NoSig) /\ missingDeclaredTrailers(r) = {}
      THEN "none" ELSE "trailer_malformed"

\* The value of the last header of that name.
ValueOf(r, name) == LET of == SelectSeq(r.headers, LAMBDA h : h.name = name) IN of[Len(of)].value

verifyUnsignedTrailerChecksums(r) ==
    IF \A name \in ToSet(req.names) : ValueOf(r, name) = r.decoded THEN "none" ELSE "checksum_mismatch"

\* finalizeSignedTrailer and finalizeUnsignedTrailer after their block.
finalizeSignedTrailer(r) ==
    verifyLink(r, r.trailerSig, "trailer_signature_mismatch", "trailer", canonicalizeTrailers(r.headers))

finalizeUnsignedTrailer(r) == verifyUnsignedTrailerChecksums(r)

TrailerEnd ==
    /\ Loading /\ rd.phase = "trailer"
    /\ wire # <<>> /\ Head(wire).t = "empty"
    /\ wire' = Tail(wire)
    /\ LET err == IF readTrailerBlock(rd) # "none" THEN readTrailerBlock(rd)
                  ELSE IF IsSigned(req) THEN finalizeSignedTrailer(rd)
                  ELSE finalizeUnsignedTrailer(rd)
       IN rd' = IF err # "none" THEN [rd EXCEPT !.err = err] ELSE Finish(rd)
    /\ UNCHANGED <<req, faults, dg, got, outcome>>

\* A plain body: net/http reads up to Content-Length and reports a short one.
PlainRead ==
    LET room == req.declared - Len(rd.decoded)
        body == IF wire = <<>> THEN <<>> ELSE SubSeq(Head(wire).body, 1, Min({room, Len(Head(wire).body)}))
    IN
    /\ Loading /\ req.variant = "none"
    /\ rd' = IF room = 0 THEN [rd EXCEPT !.eof = TRUE]
             ELSE IF wire = <<>> THEN [rd EXCEPT !.err = "unexpected_eof"]
             ELSE [rd EXCEPT !.buf = body, !.decoded = @ \o body]
    /\ wire' = IF room = 0 \/ wire = <<>> THEN wire ELSE Tail(wire)
    /\ UNCHANGED <<req, faults, dg, got, outcome>>

----------------------------------------------------------------------------
(* The consumer reads through the digestReader.                            *)

\* compare: every declared digest is over the payload the client meant.
compare(units) == IF units = Payload(req) THEN "none" ELSE "digest_mismatch"

\* digestReader.Read over bytes: compared on the read that delivers the last.
Deliver ==
    /\ outcome = "reading" /\ ~Failing /\ rd.buf # <<>>
    /\ \E n \in 1 .. Len(rd.buf) :
         /\ got' = got \o SubSeq(rd.buf, 1, n)
         /\ rd' = [rd EXCEPT !.buf = SubSeq(@, n + 1, Len(@))]
         /\ dg' = [dg EXCEPT !.remaining = @ - n,
                             !.failed = IF dg.active /\ dg.remaining = n
                                          THEN compare(got \o SubSeq(rd.buf, 1, n)) ELSE @]
    /\ UNCHANGED <<req, wire, faults, outcome>>

\* digestReader.Read at EOF, and what a consumer that reads so far answers.
ReadEOF ==
    /\ outcome = "reading" /\ ~Failing /\ rd.buf = <<>> /\ rd.eof
    /\ IF dg.active /\ compare(got) # "none"
         THEN dg' = [dg EXCEPT !.failed = compare(got)] /\ outcome' = "refused"
         ELSE outcome' = "accepted" /\ UNCHANGED dg
    /\ UNCHANGED <<req, wire, faults, rd, got>>

\* A sticky error ends the request with the fault asStreamingFault names.
ReadError ==
    /\ outcome = "reading"
    /\ Failing \/ (rd.buf = <<>> /\ rd.err # "none")
    /\ outcome' = "refused"
    /\ UNCHANGED <<req, wire, faults, rd, dg, got>>

\* A backend client given the length need not read on to EOF.
StopAtLength ==
    /\ outcome = "reading" /\ ~Failing
    /\ req.consumer = "known"
    /\ Len(got) = req.declared
    /\ outcome' = "accepted"
    /\ UNCHANGED <<req, wire, faults, rd, dg, got>>

Init ==
    /\ req \in Requests
    /\ wire = Encode(req)
    /\ faults = 0
    /\ rd = NewChunkReader(req)
    /\ dg = VerifyDigests(req)
    /\ got = <<>>
    /\ outcome = "sending"

Next ==
    \/ Damage \/ applyStreamingBody
    \/ advance \/ finalize \/ parseTrailerLines \/ TrailerEnd \/ PlainRead
    \/ Deliver \/ ReadEOF \/ ReadError \/ StopAtLength

Spec == Init /\ [][Next]_vars
FairSpec == Spec /\ WF_vars(Next)

----------------------------------------------------------------------------
(* Properties.                                                             *)

\* The reader is in one of its phases, and a body that ended has no error.
TypeOK ==
    /\ rd.phase \in {"chunks", "trailer", "done"}
    /\ rd.eof => rd.err = "none"
    /\ outcome \in {"sending", "reading", "accepted", "refused"}
    /\ faults \in 0 .. MaxFaults

Checked(q) ==
    \/ IsSigned(q) /\ (q.consumer = "eof" \/ q.declared = Len(Payload(q)))
    \/ q.variant = "unsigned_trailer" /\ q.consumer = "eof"
    \/ q.digest = "right" /\ (q.variant # "none" \/ q.declared = Len(Payload(q)))
         /\ (q.consumer = "eof" \/ q.declared > 0)

\* A body a handler accepts is the payload the client meant, whatever the wire
\* did to it: from the chain for signed bodies even when the backend client
\* stops at the declared length, from the trailer checksum for one read to its
\* end, and from a declared digest in both cases, because digestReader compares
\* on the last byte and not at EOF (chunkReader.Read, digestReader.Read).
AcceptedIsPayload ==
    outcome = "accepted" /\ Checked(req) => got = Payload(req)

\* Of a signed body only verified bytes in their order ever leave the decoder,
\* and never more than were declared (chunkReader.advance).
SignedPrefix ==
    /\ IsSigned(req) => IsPrefix(got, Payload(req))
    /\ Len(got) <= req.declared

Proper(q) ==
    /\ \A i \in DOMAIN q.chunks : Len(q.chunks[i]) <= MaxChunk
    /\ q.variant = "unsigned_trailer" => ToSet(q.names) \subseteq Supported
    /\ Len(q.names) <= MaxTrailers
    /\ q.digest # "malformed"

\* A well-formed body that arrives as it was sent is never refused, in any
\* variant (chunkReader.finalize, digestReader.compare).
UndamagedAccepted ==
    faults = 0 /\ Proper(req) /\ req.declared = Len(Payload(req)) =>
      rd.err = "none" /\ (dg.active => dg.failed = "none") /\ outcome # "refused"

\* Every request is answered, however its body was damaged: no state of the
\* decoder waits for bytes that cannot come (chunkReader.Read).
Answered == <>(outcome \in {"accepted", "refused"})

=============================================================================
