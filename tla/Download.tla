------------------------------ MODULE Download ------------------------------
(***************************************************************************)
(* GET /files/{id} against the running service: the row is looked up, the  *)
(* object is opened and its bytes are read in separate calls, while the    *)
(* file may be deleted and the collector purge it in between.  One read is *)
(* followed; reads change nothing another read could see.                  *)
(***************************************************************************)
EXTENDS CairnMark

VARIABLES
    get,     \* the read
    rotten   \* the storage keys whose bytes no longer match their checksum

allVars == <<vars, get, rotten>>

(***************************************************************************)
(* pc      the call the read makes next:                                   *)
(*           lookup  Metadata (Open and Presign begin with it too)         *)
(*           open    Get: the request for the object's size                *)
(*           body    the first Read, which asks for the bytes              *)
(*           copy    the reads after it                                    *)
(*           url     the client follows the presigned URL                  *)
(* mode    redirect | stream | range                                       *)
(* key     the storage key found in the row                                *)
(* status  the response's status; sent before the first byte               *)
(* failed  history: one of the read's calls failed                         *)
(* cut     the body ended early                                            *)
(* bad     some byte sent was wrong;  badHash  some byte hashed was        *)
(* alarm   the log says that the checksum did not match                    *)
(***************************************************************************)
NoRead == [pc |-> "idle", mode |-> "redirect", id |-> NoID, key |-> NoID, status |-> 0,
           failed |-> FALSE, cut |-> FALSE, bad |-> FALSE, badHash |-> FALSE, alarm |-> FALSE]

DownloadInit == Init /\ get = NoRead /\ rotten = {}

Respond(status) == get' = [get EXCEPT !.pc = "done", !.status = status]
Fails           == get' = [get EXCEPT !.pc = "done", !.status = 500, !.failed = TRUE]
Cut(failed)     == get' = [get EXCEPT !.pc = "done", !.cut = TRUE, !.failed = failed]
ReadOutcomes    == CallOutcomes(FALSE)

\* Mutant: only the repository's "not found" is translated.
NotFoundOfRowOnly(missing) == IF missing = "row" THEN 404 ELSE 500

\* translateNotFound and writeError: what a missing row, and a missing
\* object, are answered with.
NotFound(missing) == IF missing \in {"row", "object"} THEN 404 ELSE 500

-----------------------------------------------------------------------------
\* download: a Range header wins, then ?download=stream.  The client asks
\* for a file that it has been told of.
BeginRead(i, mode) ==
    /\ get.pc = "idle" /\ files[i] # NoRow
    /\ get' = [get EXCEPT !.pc = "lookup", !.mode = mode, !.id = i]

\* Metadata and, for a presigned URL, PresignGet, which asks nobody.
LookupFile ==
    /\ get.pc = "lookup" /\ get.mode # "range"
    /\ \E o \in ReadOutcomes :
          \/ o = "ok" /\ Live(get.id) /\ get.mode = "redirect"
                      /\ get' = [get EXCEPT !.pc = "url", !.key = files[get.id].key, !.status = 302]
          \/ o = "ok" /\ Live(get.id) /\ get.mode = "stream"
                      /\ get' = [get EXCEPT !.pc = "open", !.key = files[get.id].key]
          \/ o = "ok" /\ ~Live(get.id) /\ Respond(NotFound("row"))
          \/ o # "ok" /\ Fails

\* downloadRange: Metadata, then the verdict on the header.  An ignored
\* header starts the read over in one of the other two ways; a good one is
\* answered 206 at once, for GetRange sends nothing yet.
LookupRange ==
    /\ get.pc = "lookup" /\ get.mode = "range"
    /\ \E o \in ReadOutcomes :
          \/ o = "ok" /\ Live(get.id)
             /\ \/ \E mode \in {"redirect", "stream"} : get' = [get EXCEPT !.mode = mode]
                \/ Respond(416)
                \/ get' = [get EXCEPT !.pc = "body", !.key = files[get.id].key, !.status = 206]
          \/ o = "ok" /\ ~Live(get.id) /\ Respond(NotFound("row"))
          \/ o # "ok" /\ Fails

\* Open: Get forces a request, so that a missing object is a 404.
OpenObject ==
    /\ get.pc = "open"
    /\ \E o \in ReadOutcomes :
          \/ o = "ok" /\ Stored(get.key)  /\ get' = [get EXCEPT !.pc = "body", !.status = 200]
          \/ o = "ok" /\ ~Stored(get.key) /\ Respond(NotFound("object"))
          \/ o # "ok" /\ Fails

\* The first Read asks the store for the bytes; the headers are out.
FirstRead ==
    /\ get.pc = "body"
    /\ \E o \in ReadOutcomes :
          \/ o = "ok" /\ Stored(get.key)  /\ get' = [get EXCEPT !.pc = "copy"]
          \/ o = "ok" /\ ~Stored(get.key) /\ Cut(get.failed)
          \/ o # "ok" /\ Cut(TRUE)

\* Mutant: at EOF the checksum is compared before the last bytes are hashed.
VerifyBeforeHash(badBefore, badNow) == badBefore

\* verifyingReader.Read: what is hashed when the checksum is compared.  A row
\* with no checksum would be streamed unverified; stage writes none.
Verify(badBefore, badNow) == badNow

\* io.Copy: another read, possibly the last, possibly with bytes; only a
\* stream is verified.  A store may also break off.
CopyBytes ==
    /\ get.pc = "copy"
    /\ \/ \E eof, some \in BOOLEAN :
             LET bad == some /\ get.key \in rotten
             IN  get' = [get EXCEPT
                    !.pc = IF eof THEN "done" ELSE "copy",
                    !.bad = @ \/ bad, !.badHash = @ \/ bad,
                    !.alarm = eof /\ get.mode = "stream"
                                  /\ Verify(get.badHash, get.badHash \/ bad)]
       \/ "fail" \in ReadOutcomes /\ Cut(TRUE)

\* The client follows the presigned URL, which the store answers itself.
FollowURL ==
    /\ get.pc = "url"
    /\ get' = IF Stored(get.key) THEN [get EXCEPT !.pc = "done", !.bad = get.key \in rotten]
              ELSE [get EXCEPT !.pc = "done", !.cut = TRUE]

\* Stored bytes decay.
Rot(k) == Stored(k) /\ k \notin rotten /\ rotten' = rotten \cup {k} /\ UNCHANGED <<vars, get>>

ReadStep ==
    /\ \/ \E i \in UUID, mode \in {"redirect", "stream", "range"} : BeginRead(i, mode)
       \/ LookupFile \/ LookupRange \/ OpenObject \/ FirstRead \/ CopyBytes \/ FollowURL
    /\ UNCHANGED <<vars, rotten>>

DownloadNext ==
    \/ Next /\ UNCHANGED <<get, rotten>>
    \/ ReadStep
    \/ \E k \in UUID : Rot(k)

DownloadSpec == DownloadInit /\ [][DownloadNext]_allVars

-----------------------------------------------------------------------------
\* A read that finds no row or no object, or whose body is cut short although
\* none of its calls failed, was overtaken by the file's deletion: whatever
\* the collector and failed uploads do, a file nobody deleted is served.
LiveFileIsServed ==
    get.pc = "done" /\ ~get.failed /\ (get.status = 404 \/ get.cut) => ~Live(get.id)

\* A read that races a delete, or the purge that follows it, is never
\* answered 500 for that.
DeleteIsNotAnError == get.status = 500 => get.failed

\* The storage key of a row read earlier, in a presigned URL or in a request
\* under way, outlives the soft delete but opens nothing after the purge: the
\* store is asked for the object (by Get, by the first Read, by whoever
\* follows the URL) and has it only while the file's row is there.  Bytes
\* the store has begun to send may still arrive later (CopyBytes).
PurgedIsNotOpened ==
    [][\/ get.pc = "open" /\ get'.pc = "body"
       \/ get.pc = "body" /\ get'.pc = "copy"
       \/ get.pc = "url" /\ get'.pc = "done" /\ ~get'.cut
       => files[get.id] # NoRow]_allVars

\* A streamed download that delivered a wrong byte and was not cut short
\* has raised the alarm, also when the last bytes come together with EOF or
\* the bytes decay during the download; a good one raises none.
StreamIsVerified ==
    get.pc = "done" /\ get.mode = "stream" /\ get.status = 200 /\ ~get.cut
        => get.alarm = get.bad
=============================================================================
