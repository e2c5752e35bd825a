----------------------------- MODULE RoundTrip -----------------------------
(***************************************************************************)
(* What is sent is what comes back: one upload, then one ranged read of    *)
(* the file it made.  The two halves meet in the row: the handler cuts     *)
(* ranges by the size that stage recorded, the store by the bytes that Put *)
(* took.                                                                   *)
(***************************************************************************)
EXTENDS UploadBody, RangeRequest

\* Both count bytes in an int64.
ASSUME RoundTripAssumption == Lengths \subseteq Sizes

tripVars == <<vars, rangeVars>>

NoHeader == [unit |-> "other", dash |-> FALSE, start |-> Empty, end |-> Empty]

TripInit == Init /\ header = NoHeader /\ size = 0 /\ resp = NoResponse

\* Mutant: the size of a chunked body is not read back.
RecordedSizeWithoutStat == IF sized THEN length ELSE 0

\* stage: the declared Content-Length, or else what Stat says is there.
RecordedSize == IF sized THEN length ELSE stored

Upload == Next /\ UNCHANGED rangeVars

\* GET /files/{id} with a Range header.
Download ==
    /\ reply = "created" /\ resp = NoResponse
    /\ header' \in Headers
    /\ size' = RecordedSize
    /\ resp' = downloadRange(parseSingleRange(header', size'), size', stored)
    /\ UNCHANGED vars

TripNext == Upload \/ Download
TripSpec == TripInit /\ [][TripNext]_tripVars

-----------------------------------------------------------------------------
\* A ranged read of a finished upload, declared or chunked, capped or not,
\* is cut from the body that was sent: a 200 carries all of it, a 206 the
\* bytes the header names, and a 416 is sent only when it has none of them.
ServedAsSent ==
    resp # NoResponse =>
        /\ resp.status = 200 => resp.body = 0..(length - 1)
        /\ resp.status = 206 => resp.body = Named(header, length)
        /\ resp.status = 416 => Named(header, length) = {}
=============================================================================
