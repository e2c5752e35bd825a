---------------------------- MODULE RangeRequest ----------------------------
(***************************************************************************)
(* GET /files/{id} with a Range header: parseSingleRange and the response  *)
(* downloadRange builds from it (internal/api), down to the range the S3   *)
(* backend asks the store for.  A header is reduced to what the parser     *)
(* tells apart: its unit, whether its first range-spec has a dash, and the *)
(* texts on either side of that dash.                                      *)
(***************************************************************************)
EXTENDS Integers

CONSTANTS
    MaxInt64,  \* the largest integer strconv.ParseInt(_, 10, 64) accepts
    Numbers,   \* the numbers a header may contain
    Sizes      \* the sizes an object may have

ASSUME RangeAssumption ==
    MaxInt64 \in Nat /\ Numbers \subseteq Nat /\ Sizes \subseteq 0..MaxInt64

\* A text is empty, a string of digits, one with a sign in front, or neither.
Empty == [kind |-> "empty", value |-> 0]
Junk  == [kind |-> "junk", value |-> 0]
Text  == {Empty, Junk} \cup [kind: {"digits", "plus", "minus"}, value: Numbers]

\* No sign "-" stands left of the first dash.
Headers == [unit: {"bytes", "other"}, dash: BOOLEAN,
            start: {t \in Text : t.kind # "minus"}, end: Text]

VARIABLES
    header,  \* the request's Range header
    size,    \* the size recorded in the file's row
    resp     \* the response
rangeVars == <<header, size, resp>>

-----------------------------------------------------------------------------
\* strconv.ParseInt: a sign is accepted, a number beyond int64 is an error.
Parses(t) == t.kind \in {"digits", "plus", "minus"} /\ t.value <= MaxInt64
Int64(t)  == IF t.kind = "minus" THEN -t.value ELSE t.value

Ignore        == [outcome |-> "ignore", offset |-> 0, length |-> 0]
Unsatisfiable == [outcome |-> "unsatisfiable", offset |-> 0, length |-> 0]
Serve(offset, length) == [outcome |-> "ok", offset |-> offset, length |-> length]

\* "-N": the last N bytes.
parseSuffix(end, n) ==
    IF ~Parses(end) \/ Int64(end) < 0 THEN Ignore
    ELSE IF Int64(end) = 0 \/ n = 0   THEN Unsatisfiable
    ELSE IF Int64(end) > n            THEN Serve(0, n)
    ELSE Serve(n - Int64(end), Int64(end))

\* "start-": from there to the end.
parseOpenEnded(start, n) ==
    IF start >= n THEN Unsatisfiable ELSE Serve(start, n - start)

\* Mutants: an end beyond the object is cut to its size, not to its last
\* byte; reversed bounds are unsatisfiable.
parseBoundedByOne(start, end, n) ==
    IF ~Parses(end) \/ Int64(end) < start THEN Ignore
    ELSE IF start >= n                    THEN Unsatisfiable
    ELSE IF Int64(end) > n                THEN Serve(start, n - start + 1)
    ELSE Serve(start, Int64(end) - start + 1)
parseBoundedReversed(start, end, n) ==
    IF ~Parses(end)                                THEN Ignore
    ELSE IF start >= n \/ Int64(end) < start       THEN Unsatisfiable
    ELSE IF Int64(end) >= n                        THEN Serve(start, n - start)
    ELSE Serve(start, Int64(end) - start + 1)

\* "start-end".
parseBounded(start, end, n) ==
    IF ~Parses(end) \/ Int64(end) < start THEN Ignore
    ELSE IF start >= n                    THEN Unsatisfiable
    ELSE IF Int64(end) >= n               THEN Serve(start, n - 1 - start + 1)
    ELSE Serve(start, Int64(end) - start + 1)

parseSingleRange(h, n) ==
    IF h.unit # "bytes" \/ ~h.dash THEN Ignore
    ELSE IF h.start = Empty        THEN parseSuffix(h.end, n)
    ELSE IF ~Parses(h.start)       THEN Ignore
    ELSE IF h.end = Empty          THEN parseOpenEnded(Int64(h.start), n)
    ELSE parseBounded(Int64(h.start), h.end, n)

-----------------------------------------------------------------------------
\* minio-go's SetRange, and the bytes the store sends for it.  An object of
\* n bytes is the set 0 .. n-1 of its offsets.
SetRange(first, last, n) ==
    IF first > 0 /\ last = 0 THEN first..(n - 1)
    ELSE first..(IF last < n THEN last ELSE n - 1)

\* Backend.GetRange.
GetRange(offset, length, n) ==
    IF length > 0      THEN SetRange(offset, offset + length - 1, n)
    ELSE IF offset > 0 THEN SetRange(offset, 0, n)
    ELSE 0..(n - 1)

\* Mutant: offset + length is taken for the last byte.
MemoryGetRangeInclusive(offset, length, n) ==
    IF offset > n                              THEN {}
    ELSE IF length > 0 /\ offset + length < n THEN offset..(offset + length)
    ELSE offset..(n - 1)

\* The in-memory test double's GetRange: an offset beyond the object is an
\* error, which no byte follows.
MemoryGetRange(offset, length, n) ==
    IF offset > n                              THEN {}
    ELSE IF length > 0 /\ offset + length < n THEN offset..(offset + length - 1)
    ELSE offset..(n - 1)

\* The response to a file recorded with n bytes whose object holds `held`:
\* its Content-Range, its Content-Length, and the body.  An ignored header
\* gets the whole object, streamed or by a redirect: 200 stands for both.
NoResponse == [status |-> 0, first |-> 0, last |-> 0, length |-> 0, body |-> {}]

downloadRange(p, n, held) ==
    CASE p.outcome = "ignore" ->
            [status |-> 200, first |-> 0, last |-> n - 1, length |-> n, body |-> 0..(held - 1)]
      [] p.outcome = "unsatisfiable" ->
            [status |-> 416, first |-> 0, last |-> 0, length |-> 0, body |-> {}]
      [] OTHER ->
            [status |-> 206, first |-> p.offset, last |-> p.offset + p.length - 1,
             length |-> p.length, body |-> GetRange(p.offset, p.length, held)]

RangeInit == header \in Headers /\ size \in Sizes /\ resp = NoResponse

Respond ==
    /\ resp = NoResponse
    /\ resp' = downloadRange(parseSingleRange(header, size), size, size)
    /\ UNCHANGED <<header, size>>

RangeNext == Respond
RangeSpec == RangeInit /\ [][RangeNext]_rangeVars

-----------------------------------------------------------------------------
(* The reference: RFC 9110, section 14, on one range-spec. *)

\* A number is digits, of any length, without a sign.
IsNumber(t) == t.kind = "digits"

WellFormed(h) ==
    /\ h.unit = "bytes" /\ h.dash
    /\ \/ IsNumber(h.start) /\ IsNumber(h.end) /\ h.start.value <= h.end.value
       \/ IsNumber(h.start) /\ h.end = Empty
       \/ h.start = Empty /\ IsNumber(h.end)

\* The bytes of an n-byte object that a header names, read by its numbers.
Named(h, n) ==
    {b \in 0..(n - 1) :
        IF h.start = Empty THEN b >= n - h.end.value
        ELSE b >= h.start.value /\ (h.end = Empty \/ b <= h.end.value)}

\* A 206 carries exactly the bytes the header names, and its Content-Range
\* and Content-Length describe exactly the body that follows: parser,
\* handler and backend agree on whether an end is inclusive.
PartialBodyIsNamed ==
    resp.status = 206 =>
        /\ resp.body = Named(header, size) /\ resp.body # {}
        /\ resp.body = resp.first..resp.last
        /\ resp.length = resp.last - resp.first + 1

\* Which of the three answers a header deserves: 206 when it names bytes of
\* the object, 416 when it is well-formed and names none, the whole object
\* when it is malformed.
DueStatus(h, n) == IF ~WellFormed(h) THEN 200 ELSE IF Named(h, n) = {} THEN 416 ELSE 206

\* The headers on which parser and reference agree: no number with a sign,
\* none beyond int64.  The property at the end is about the others.
Plain(h) ==
    \A t \in {h.start, h.end} :
        t.kind \notin {"plus", "minus"} /\ (t.kind = "digits" => t.value <= MaxInt64)

\* Every plain header gets the answer it deserves: reversed bounds, a missing
\* dash or another unit are ignored, "-0" and a start beyond the end are not.
AnswerFollowsHeader ==
    resp # NoResponse /\ Plain(header) => resp.status = DueStatus(header, size)

\* The test double serves what the S3 backend serves, for every range the
\* handler asks a backend for: tests against the one speak of the other.
BackendsAgree ==
    resp.status = 206 => MemoryGetRange(resp.first, resp.length, size) = resp.body

-----------------------------------------------------------------------------
\* What range.go says of rangeOutcome: a header that is not well-formed is
\* ignored, and a well-formed range that does not overlap the object gets 416.
\* Neither half holds: ParseInt takes the signs of "bytes=+0-+3", and it
\* rejects a number beyond int64, so that such a header is ignored.
OutcomeAsDocumented ==
    resp # NoResponse =>
        /\ ~WellFormed(header) => resp.status = 200
        /\ WellFormed(header) /\ Named(header, size) = {} => resp.status = 416
=============================================================================
