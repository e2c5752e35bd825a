----------------------------- MODULE UploadBody -----------------------------
(***************************************************************************)
(* How the bytes of one upload reach the store: the HTTP body, the         *)
(* limitReader of internal/api that enforces the size cap, and stage's     *)
(* chain of a TeeReader into the hash under a bufio.Reader whose head is   *)
(* peeked at to sniff a content type.  Bytes are counted, not valued: a    *)
(* reader delivers a prefix of the body, so a count identifies it.         *)
(***************************************************************************)
EXTENDS Integers

CONSTANTS
    Lengths,   \* how long a body may be
    Caps,      \* the values of maxUpload; 0 is no cap
    SniffLen,  \* the size of the bufio.Reader, and of the peek
    Chunk      \* bound: how much Put asks for at once

ASSUME UploadBodyAssumption ==
    Lengths \subseteq Nat /\ Caps \subseteq Nat /\ SniffLen \in Nat \ {0} /\ Chunk \in Nat \ {0}

VARIABLES
    length,  \* the body's length
    sized,   \* Content-Length declares it (otherwise the body is chunked)
    cap,     \* the configured cap
    pc,      \* check | peek | put | done
    body,    \* [left, broken]: the unread bytes; the connection failed
    lim,     \* [remaining, exceeded]: the limitReader
    buf,     \* [n, err]: the bufio.Reader's bytes and its pending error
    hashed,  \* how many bytes the hash has seen
    stored,  \* how many bytes Put has taken
    reply    \* what the client is told

vars == <<length, sized, cap, pc, body, lim, buf, hashed, stored, reply>>

Errors  == {"none", "eof", "tooLarge", "broken"}
Replies == {"none", "created", "tooLarge", "error", "badRequest", "dropped"}

TypeOK ==
    /\ length \in Nat /\ sized \in BOOLEAN /\ cap \in Nat
    /\ pc \in {"check", "peek", "put", "done"}
    /\ body \in [left: Nat, broken: BOOLEAN]
    /\ lim \in [remaining: Nat, exceeded: BOOLEAN]
    /\ buf \in [n: Nat, err: Errors]
    /\ hashed \in Nat /\ stored \in Nat /\ reply \in Replies

Init ==
    /\ length \in Lengths /\ sized \in BOOLEAN /\ cap \in Caps
    /\ pc = "check" /\ body = [left |-> length, broken |-> FALSE]
    /\ lim = [remaining |-> cap, exceeded |-> FALSE]
    /\ buf = [n |-> 0, err |-> "none"]
    /\ hashed = 0 /\ stored = 0 /\ reply = "none"

Least(a, b) == IF a < b THEN a ELSE b

-----------------------------------------------------------------------------
(* The readers.  Each operator is the set of results a Read may have: n     *)
(* bytes and an error, and what is left of the reader.                      *)

\* net/http's body: some of the bytes, possibly with EOF along with the last
\* ones, or a connection that fails and stays failed.
BodyRead(p) ==
    IF body.broken THEN {[n |-> 0, err |-> "broken", body |-> body]}
    ELSE {[n |-> 0, err |-> "broken", body |-> [body EXCEPT !.broken = TRUE]]}
         \cup (IF body.left = 0 THEN {[n |-> 0, err |-> "eof", body |-> body]}
               ELSE {[n |-> n, err |-> "none", body |-> [body EXCEPT !.left = @ - n]] :
                        n \in 1..Least(p, body.left)})
         \cup (IF body.left = 0 \/ body.left > p THEN {}
               ELSE {[n |-> body.left, err |-> "eof", body |-> [body EXCEPT !.left = 0]]})

\* Mutants: the breach is not remembered; a full body is not probed; a read
\* is not cut to what remains.
ReadForgetting(p) ==
    IF cap = 0 THEN {[r |-> r, lim |-> lim] : r \in BodyRead(p)}
    ELSE IF lim.remaining = 0 THEN
        {IF r.n > 0 THEN [r |-> [r EXCEPT !.n = 0, !.err = "tooLarge"],
                          lim |-> [lim EXCEPT !.exceeded = TRUE]]
         ELSE [r |-> r, lim |-> lim] : r \in BodyRead(1)}
    ELSE {[r |-> r, lim |-> [lim EXCEPT !.remaining = @ - r.n]] :
             r \in BodyRead(Least(p, lim.remaining))}
ReadWithoutProbe(p) ==
    IF cap = 0 THEN {[r |-> r, lim |-> lim] : r \in BodyRead(p)}
    ELSE IF lim.exceeded \/ lim.remaining = 0 THEN
        {[r |-> [n |-> 0, err |-> "tooLarge", body |-> body],
          lim |-> [lim EXCEPT !.exceeded = TRUE]]}
    ELSE {[r |-> r, lim |-> [lim EXCEPT !.remaining = @ - r.n]] :
             r \in BodyRead(Least(p, lim.remaining))}

ReadWithoutClip(p) ==
    IF cap = 0 \/ lim.exceeded THEN {[r |-> r, lim |-> lim] : r \in BodyRead(p)}
    ELSE {[r |-> r, lim |-> [lim EXCEPT !.remaining = @ - r.n]] : r \in BodyRead(p)}

\* limitReader.Read: at the cap it probes one byte to tell a body that ends
\* there from one that goes on.
Read(p) ==
    IF cap = 0 THEN {[r |-> r, lim |-> lim] : r \in BodyRead(p)}
    ELSE IF lim.exceeded THEN
        {[r |-> [n |-> 0, err |-> "tooLarge", body |-> body], lim |-> lim]}
    ELSE IF lim.remaining = 0 THEN
        {IF r.n > 0 THEN [r |-> [r EXCEPT !.n = 0, !.err = "tooLarge"],
                          lim |-> [lim EXCEPT !.exceeded = TRUE]]
         ELSE [r |-> r, lim |-> lim] : r \in BodyRead(1)}
    ELSE {[r |-> r, lim |-> [lim EXCEPT !.remaining = @ - r.n]] :
             r \in BodyRead(Least(p, lim.remaining))}

\* Mutant: the hash does not see what the peek read.
TeeAfterPeek(n) == hashed' = IF pc = "peek" THEN hashed ELSE hashed + n

\* The TeeReader: every byte read is hashed.
Tee(n) == hashed' = hashed + n

\* bufio.Reader.fill, through the tee and the limit.
Fill(p) ==
    \E x \in Read(p) :
        /\ Tee(x.r.n)
        /\ buf' = [n |-> buf.n + x.r.n, err |-> x.r.err]
        /\ body' = x.r.body /\ lim' = x.lim

-----------------------------------------------------------------------------
Reply(rep) == pc' = "done" /\ reply' = rep
\* The handler asks the limitReader, not the error, whether the cap was hit.
Fail == Reply(IF lim.exceeded THEN "tooLarge" ELSE "error")

\* uploadTags, when it yields no tags: a malformed X-Metadata header is an
\* error; one of "null" leaves no map for a tag parameter to be copied into,
\* so the handler panics and net/http drops the connection.
uploadTagsFails == {"badRequest", "dropped"}

\* upload: for these, and for too long an Idempotency-Key, nothing is read.
Refuse ==
    /\ pc = "check"
    /\ \E rep \in uploadTagsFails \cup {"badRequest"} : Reply(rep)
    /\ UNCHANGED <<length, sized, cap, body, lim, buf, hashed, stored>>

\* upload: a declared breach is refused up front.
Check ==
    /\ pc = "check"
    /\ IF cap > 0 /\ sized /\ length > cap THEN Reply("tooLarge")
       ELSE pc' \in {"peek", "put"} /\ UNCHANGED reply
    /\ UNCHANGED <<length, sized, cap, body, lim, buf, hashed, stored>>

\* stage, without a content type: Peek fills the buffer as far as it can.
Peek ==
    /\ pc = "peek" /\ buf.n < SniffLen /\ buf.err = "none"
    /\ Fill(SniffLen - buf.n)
    /\ UNCHANGED <<length, sized, cap, pc, stored, reply>>

\* Peek returns; a short peek also hands out, and so clears, the pending
\* error, which stage ignores.
PeekDone ==
    /\ pc = "peek" /\ (buf.n = SniffLen \/ buf.err # "none")
    /\ pc' = "put"
    /\ buf' = IF buf.n < SniffLen THEN [buf EXCEPT !.err = "none"] ELSE buf
    /\ UNCHANGED <<length, sized, cap, body, lim, hashed, stored, reply>>

\* Put has all it wants: the declared number of bytes.
PutHasAll == sized /\ stored = length

\* Put takes what is buffered.
PutTake ==
    /\ pc = "put" /\ ~PutHasAll /\ buf.n > 0
    /\ stored' = stored + buf.n
    /\ buf' = [buf EXCEPT !.n = 0]
    /\ UNCHANGED <<length, sized, cap, pc, body, lim, hashed, reply>>

\* Put reads on.
PutRead ==
    /\ pc = "put" /\ ~PutHasAll /\ buf = [n |-> 0, err |-> "none"]
    /\ Fill(Chunk)
    /\ UNCHANGED <<length, sized, cap, pc, stored, reply>>

\* Put ends: at the declared length, or at EOF when none was declared; any
\* other error (for a declared length, EOF too) fails it.
PutEnd ==
    /\ pc = "put" /\ (PutHasAll \/ (buf.n = 0 /\ buf.err # "none"))
    /\ IF PutHasAll \/ (~sized /\ buf.err = "eof") THEN Reply("created") ELSE Fail
    /\ UNCHANGED <<length, sized, cap, body, lim, buf, hashed, stored>>

\* What is not the reader's doing: the store breaks off the Put or has no
\* answer for the Stat, or the commit fails.
StoreFails ==
    /\ pc = "put"
    /\ Fail
    /\ UNCHANGED <<length, sized, cap, body, lim, buf, hashed, stored>>

Next == Refuse \/ Check \/ Peek \/ PeekDone \/ PutTake \/ PutRead \/ PutEnd \/ StoreFails

Spec == Init /\ [][Next]_vars

-----------------------------------------------------------------------------
\* The cap holds however the reads are cut up and whichever layer swallows
\* the limitReader's error: what is stored under a cap is a whole body no
\* longer than the cap, never one that was cut off there.
CapEnforced == reply = "created" => stored = length /\ (cap > 0 => length <= cap)

\* A body within the cap, one of exactly the cap's length included, is
\* never refused as too large.
FittingBodyNotRefused == reply = "tooLarge" => cap > 0 /\ length > cap

\* The checksum recorded with the file is that of the bytes in the store,
\* peeked-at bytes included: a later verified download does not report a
\* mismatch that is not there.
ChecksumCoversObject == reply = "created" => hashed = stored
=============================================================================
