--------------------------- MODULE RoundTripProofs ---------------------------
(***************************************************************************)
(* Uploads, for bodies, caps and buffers of any size: the cap and the      *)
(* checksum hold, by an inductive invariant that accounts for every byte.  *)
(* And the round trip: what such an upload stored is what RangeProofs'     *)
(* arithmetic cuts ranges from.                                            *)
(***************************************************************************)
EXTENDS RoundTrip, RangeProofs

-----------------------------------------------------------------------------
(* The upload. *)

\* The byte the limitReader spends on finding out that the body goes on.
Probed(l) == IF l.exceeded THEN 1 ELSE 0

\* Every byte is unread, probed or hashed; every hashed one is buffered or
\* stored.
BytesAccounted == hashed + body.left + Probed(lim) = length /\ stored + buf.n = hashed

\* What remains under the cap; the breach is recorded only at the cap.
LimitAccounted ==
    /\ cap > 0 => lim.remaining = cap - hashed
    /\ lim.exceeded => cap > 0 /\ lim.remaining = 0

\* EOF is reported at the end, "too large" only when the breach is recorded.
ErrorsTrue ==
    /\ buf.err = "eof" => body.left = 0 /\ ~lim.exceeded
    /\ buf.err = "tooLarge" => lim.exceeded

\* The two ways to a reply.
RepliesTrue ==
    /\ pc # "done" => reply = "none"
    /\ pc \in {"peek", "put"} => (cap > 0 /\ sized => length <= cap)
    /\ reply = "created" => hashed = stored /\ stored = length /\ (cap > 0 => length <= cap)
    /\ reply = "tooLarge" => cap > 0 /\ length > cap

BodyInv == TypeOK /\ BytesAccounted /\ LimitAccounted /\ ErrorsTrue /\ RepliesTrue

-----------------------------------------------------------------------------
\* What a Read of the body gives: at most what was asked for and what is
\* left, and EOF only at the end.
LEMMA BodyReads ==
    ASSUME TypeOK, NEW p \in Nat, p > 0, NEW r \in BodyRead(p)
    PROVE  /\ r.n \in Nat /\ r.n <= p
           /\ r.err \in {"none", "eof", "broken"}
           /\ r.body \in [left: Nat, broken: BOOLEAN]
           /\ r.body.left + r.n = body.left
           /\ r.err = "eof" => r.body.left = 0
<1> DEFINE R1 == {[n |-> 0, err |-> "broken", body |-> body]}
           R2 == {[n |-> 0, err |-> "broken", body |-> [body EXCEPT !.broken = TRUE]]}
           R3 == {[n |-> 0, err |-> "eof", body |-> body]}
           R4 == {[n |-> n, err |-> "none", body |-> [body EXCEPT !.left = @ - n]] :
                     n \in 1..Least(p, body.left)}
           R5 == {[n |-> body.left, err |-> "eof", body |-> [body EXCEPT !.left = 0]]}
<1>0. body \in [left: Nat, broken: BOOLEAN]
    BY DEF TypeOK
<1>1. \/ r \in R1 \/ r \in R2 \/ r \in R4
      \/ r \in R3 /\ body.left = 0
      \/ r \in R5 /\ body.left <= p
  <2>1. BodyRead(p) = IF body.broken THEN R1
                      ELSE R2 \cup (IF body.left = 0 THEN R3 ELSE R4)
                              \cup (IF body.left = 0 \/ body.left > p THEN {} ELSE R5)
    BY DEF BodyRead
  <2> HIDE DEF R1, R2, R3, R4, R5
  <2>2. CASE body.broken
    BY <2>1, <2>2, Zenon
  <2>3. CASE ~body.broken /\ body.left = 0
    BY <2>1, <2>3, Zenon
  <2>4. CASE ~body.broken /\ body.left # 0 /\ body.left > p
    BY <2>1, <2>4, Zenon
  <2>5. CASE ~body.broken /\ body.left # 0 /\ body.left <= p
    <3>1. ~(body.left > p)
        BY <1>0, <2>5
    <3>2. QED
        BY <2>1, <2>5, <3>1, Zenon
  <2>6. QED
    BY <1>0, <2>2, <2>3, <2>4, <2>5
<1>2. CASE r \in R1
    BY <1>2, <1>0
<1>3. CASE r \in R2
  <2>1. r.n = 0 /\ r.err = "broken" /\ r.body = [body EXCEPT !.broken = TRUE]
    BY <1>3
  <2>2. r.body \in [left: Nat, broken: BOOLEAN] /\ r.body.left = body.left
    BY <1>0, <2>1
  <2>3. QED
    BY <1>0, <2>1, <2>2
<1>4. CASE r \in R3 /\ body.left = 0
    BY <1>4, <1>0
<1>5. CASE r \in R4
  <2>1. PICK n \in 1..Least(p, body.left) :
            r = [n |-> n, err |-> "none", body |-> [body EXCEPT !.left = @ - n]]
    BY <1>5
  <2>2. n \in Nat /\ n <= p /\ n <= body.left
    BY <1>0 DEF Least
  <2>3. QED
    BY <1>0, <2>1, <2>2
<1>6. CASE r \in R5 /\ body.left <= p
    BY <1>6, <1>0
<1>7. QED
    BY <1>1, <1>2, <1>3, <1>4, <1>5, <1>6

\* What a Read through the limitReader gives: it keeps the accounts.
LEMMA LimitReads ==
    ASSUME BodyInv, NEW p \in Nat, p > 0, NEW x \in Read(p)
    PROVE  /\ x.r.n \in Nat /\ x.r.err \in Errors
           /\ x.r.body \in [left: Nat, broken: BOOLEAN]
           /\ x.lim \in [remaining: Nat, exceeded: BOOLEAN]
           /\ hashed + x.r.n + x.r.body.left + Probed(x.lim) = length
           /\ cap > 0 => x.lim.remaining = cap - (hashed + x.r.n)
           /\ x.lim.exceeded => cap > 0 /\ x.lim.remaining = 0
           /\ x.r.err = "eof" => x.r.body.left = 0 /\ ~x.lim.exceeded
           /\ x.r.err = "tooLarge" => x.lim.exceeded
<1>0. /\ TypeOK /\ BytesAccounted /\ LimitAccounted
      /\ lim \in [remaining: Nat, exceeded: BOOLEAN] /\ body \in [left: Nat, broken: BOOLEAN]
      /\ cap \in Nat /\ hashed \in Nat /\ length \in Nat
    BY DEF BodyInv, TypeOK
<1> USE DEF BytesAccounted, LimitAccounted, Errors
<1>1. CASE cap = 0
  <2>1. PICK r \in BodyRead(p) : x = [r |-> r, lim |-> lim]
    BY <1>1 DEF Read
  <2>2. QED
    BY <1>0, <1>1, <2>1, BodyReads
<1>2. CASE cap > 0 /\ lim.exceeded
  <2>1. x = [r |-> [n |-> 0, err |-> "tooLarge", body |-> body], lim |-> lim]
    BY <1>2, <1>0 DEF Read
  <2>2. QED
    BY <1>0, <1>2, <2>1
<1>3. CASE cap > 0 /\ ~lim.exceeded /\ lim.remaining = 0
  <2>1. PICK r \in BodyRead(1) :
            x = IF r.n > 0 THEN [r |-> [r EXCEPT !.n = 0, !.err = "tooLarge"],
                                 lim |-> [lim EXCEPT !.exceeded = TRUE]]
                ELSE [r |-> r, lim |-> lim]
    <3>1. Read(p) = {IF r.n > 0 THEN [r |-> [r EXCEPT !.n = 0, !.err = "tooLarge"],
                                      lim |-> [lim EXCEPT !.exceeded = TRUE]]
                     ELSE [r |-> r, lim |-> lim] : r \in BodyRead(1)}
        <4>1. ~(cap = 0)
            BY <1>0, <1>3
        <4>2. QED
            BY <1>3, <4>1, Zenon DEF Read
    <3>2. QED
        BY <3>1
  <2>2. /\ r.n \in Nat /\ r.n <= 1 /\ r.err \in {"none", "eof", "broken"}
        /\ r.body \in [left: Nat, broken: BOOLEAN] /\ r.body.left + r.n = body.left
        /\ r.err = "eof" => r.body.left = 0
    BY <1>0, BodyReads
  <2>3. CASE r.n > 0
    <3>1. r.n = 1
        BY <2>2, <2>3
    <3>2. x.lim = [lim EXCEPT !.exceeded = TRUE] /\ x.r = [r EXCEPT !.n = 0, !.err = "tooLarge"]
        BY <2>1, <2>3
    <3>3. x.r.n = 0 /\ x.r.err = "tooLarge" /\ x.r.body = r.body
        BY <3>2, BodyReads DEF BodyRead
    <3>4. x.lim \in [remaining: Nat, exceeded: BOOLEAN] /\ x.lim.exceeded /\ x.lim.remaining = 0
        BY <1>0, <1>3, <3>2
    <3>5. Probed(x.lim) = 1 /\ Probed(lim) = 0
        BY <1>3, <3>4 DEF Probed
    <3>6. QED
        BY <1>0, <1>3, <2>2, <3>1, <3>3, <3>4, <3>5
  <2>4. CASE r.n = 0
    <3>1. x.r = r /\ x.lim = lim
        BY <2>1, <2>4
    <3>2. Probed(x.lim) = 0 /\ Probed(lim) = 0
        BY <1>3, <3>1 DEF Probed
    <3>3. hashed + x.r.n + x.r.body.left + Probed(x.lim) = length
        BY <1>0, <2>2, <2>4, <3>1, <3>2
    <3>4. cap > 0 => x.lim.remaining = cap - (hashed + x.r.n)
        BY <1>0, <1>3, <2>4, <3>1
    <3>5. QED
        BY <1>0, <1>3, <2>2, <3>1, <3>3, <3>4
  <2>5. QED
    BY <2>2, <2>3, <2>4
<1>4. CASE cap > 0 /\ ~lim.exceeded /\ lim.remaining > 0
  <2>1. PICK r \in BodyRead(Least(p, lim.remaining)) :
            x = [r |-> r, lim |-> [lim EXCEPT !.remaining = @ - r.n]]
    <3>1. Read(p) = {[r |-> r, lim |-> [lim EXCEPT !.remaining = @ - r.n]] :
                        r \in BodyRead(Least(p, lim.remaining))}
        <4>1. ~(cap = 0) /\ ~(lim.remaining = 0)
            BY <1>0, <1>4
        <4>2. QED
            BY <1>4, <4>1, Zenon DEF Read
    <3>2. QED
        BY <3>1
  <2>2. Least(p, lim.remaining) \in Nat /\ Least(p, lim.remaining) > 0
        /\ Least(p, lim.remaining) <= lim.remaining
    BY <1>0, <1>4 DEF Least
  <2>3. /\ r.n \in Nat /\ r.n <= lim.remaining /\ r.err \in {"none", "eof", "broken"}
        /\ r.body \in [left: Nat, broken: BOOLEAN] /\ r.body.left + r.n = body.left
        /\ r.err = "eof" => r.body.left = 0
    BY <1>0, <2>2, BodyReads
  <2>4. x.r = r /\ x.lim.remaining = lim.remaining - r.n /\ x.lim.exceeded = lim.exceeded
        /\ x.lim \in [remaining: Nat, exceeded: BOOLEAN]
    BY <1>0, <2>1, <2>3
  <2>5. Probed(x.lim) = 0 /\ Probed(lim) = 0
    BY <1>4, <2>4 DEF Probed
  <2>6. QED
    BY <1>0, <1>4, <2>3, <2>4, <2>5
<1>5. QED
    BY <1>0, <1>1, <1>2, <1>3, <1>4

\* A fill keeps the accounts, whichever step asks for it.
LEMMA FillKeeps ==
    ASSUME BodyInv, NEW p \in Nat, p > 0, Fill(p), buf.err = "none",
           pc \in {"peek", "put"}, UNCHANGED <<length, sized, cap, pc, stored, reply>>
    PROVE  BodyInv'
<1>1. PICK x \in Read(p) :
         /\ hashed' = hashed + x.r.n
         /\ buf' = [n |-> buf.n + x.r.n, err |-> x.r.err]
         /\ body' = x.r.body /\ lim' = x.lim
    BY DEF Fill, Tee
<1>2. /\ x.r.n \in Nat /\ x.r.err \in Errors
      /\ x.r.body \in [left: Nat, broken: BOOLEAN]
      /\ x.lim \in [remaining: Nat, exceeded: BOOLEAN]
      /\ hashed + x.r.n + x.r.body.left + Probed(x.lim) = length
      /\ cap > 0 => x.lim.remaining = cap - (hashed + x.r.n)
      /\ x.lim.exceeded => cap > 0 /\ x.lim.remaining = 0
      /\ x.r.err = "eof" => x.r.body.left = 0 /\ ~x.lim.exceeded
      /\ x.r.err = "tooLarge" => x.lim.exceeded
    BY LimitReads
<1>3. TypeOK'
    BY <1>1, <1>2 DEF BodyInv, TypeOK
<1>4. BytesAccounted' /\ LimitAccounted' /\ ErrorsTrue'
    BY <1>1, <1>2 DEF BodyInv, TypeOK, BytesAccounted, LimitAccounted, ErrorsTrue, Probed
<1>5. RepliesTrue'
    BY DEF BodyInv, RepliesTrue
<1>6. QED
    BY <1>3, <1>4, <1>5 DEF BodyInv

\* No step of an upload breaks the accounts.
LEMMA BodyNext == BodyInv /\ [Next]_vars => BodyInv'
<1> SUFFICES ASSUME BodyInv, [Next]_vars
             PROVE  BodyInv'
    OBVIOUS
<1> USE UploadBodyAssumption
<1>0. CASE Refuse
  <2>1. UNCHANGED <<length, sized, cap, body, lim, buf, hashed, stored>>
    BY <1>0 DEF Refuse
  <2>2. pc' = "done" /\ reply' \in {"badRequest", "dropped"}
    BY <1>0 DEF Refuse, uploadTagsFails, Reply
  <2>3. QED
    BY <2>1, <2>2 DEF BodyInv, TypeOK, BytesAccounted, LimitAccounted, ErrorsTrue,
                      RepliesTrue, Probed, Replies
<1>1. CASE Check
  <2>1. UNCHANGED <<length, sized, cap, body, lim, buf, hashed, stored>>
    BY <1>1 DEF Check
  <2>2. TypeOK' /\ BytesAccounted' /\ LimitAccounted' /\ ErrorsTrue'
    BY <1>1, <2>1 DEF Check, Reply, BodyInv, TypeOK, BytesAccounted, LimitAccounted, ErrorsTrue,
                      Probed, Replies
  <2>3. CASE cap > 0 /\ sized /\ length > cap
    <3>1. pc' = "done" /\ reply' = "tooLarge"
        BY <1>1, <2>3 DEF Check, Reply
    <3>2. QED
        BY <2>1, <2>2, <2>3, <3>1 DEF BodyInv, RepliesTrue
  <2>4. CASE ~(cap > 0 /\ sized /\ length > cap)
    <3>1. pc' \in {"peek", "put"} /\ reply' = reply /\ pc = "check"
        BY <1>1, <2>4 DEF Check
    <3>2. QED
        BY <2>1, <2>2, <2>4, <3>1 DEF BodyInv, RepliesTrue, TypeOK
  <2>5. QED
    BY <2>3, <2>4
<1>2. CASE Peek
  <2>1. SniffLen - buf.n \in Nat /\ SniffLen - buf.n > 0
    BY <1>2 DEF Peek, BodyInv, TypeOK
  <2>2. QED
    BY <1>2, <2>1, FillKeeps DEF Peek
<1>3. CASE PeekDone
    BY <1>3 DEF BodyInv, PeekDone, TypeOK, BytesAccounted, LimitAccounted, ErrorsTrue,
                RepliesTrue, Probed, Errors
<1>4. CASE PutTake
    BY <1>4 DEF BodyInv, PutTake, TypeOK, BytesAccounted, LimitAccounted, ErrorsTrue,
                RepliesTrue, Probed
<1>5. CASE PutRead
    BY <1>5, FillKeeps DEF PutRead
<1>6. CASE PutEnd
  <2>1. UNCHANGED <<length, sized, cap, body, lim, buf, hashed, stored>> /\ pc' = "done"
    BY <1>6 DEF PutEnd, Reply, Fail
  <2>2. TypeOK'
    BY <1>6, <2>1 DEF PutEnd, Reply, Fail, BodyInv, TypeOK, Replies
  <2>3. BytesAccounted' /\ LimitAccounted' /\ ErrorsTrue'
    BY <2>1 DEF BodyInv, BytesAccounted, LimitAccounted, ErrorsTrue, Probed
  <2>4. RepliesTrue'
    <3>1. CASE PutHasAll
        BY <1>6, <2>1, <3>1 DEF PutEnd, Reply, PutHasAll, BodyInv, TypeOK, BytesAccounted,
                                LimitAccounted, RepliesTrue, Probed
    <3>2. CASE ~PutHasAll /\ ~sized /\ buf.n = 0 /\ buf.err = "eof"
        BY <1>6, <2>1, <3>2 DEF PutEnd, Reply, BodyInv, TypeOK, BytesAccounted,
                                LimitAccounted, ErrorsTrue, RepliesTrue, Probed
    <3>3. CASE ~PutHasAll /\ ~(~sized /\ buf.err = "eof")
        BY <1>6, <2>1, <3>3 DEF PutEnd, Reply, Fail, BodyInv, TypeOK, BytesAccounted,
                                LimitAccounted, RepliesTrue, Probed
    <3>4. QED
        BY <1>6, <3>1, <3>2, <3>3 DEF PutEnd
  <2>5. QED
    BY <2>2, <2>3, <2>4 DEF BodyInv
<1>7. CASE StoreFails
  <2>1. UNCHANGED <<length, sized, cap, body, lim, buf, hashed, stored>> /\ pc' = "done"
    BY <1>7 DEF StoreFails, Reply, Fail
  <2>2. TypeOK'
    BY <1>7, <2>1 DEF StoreFails, Reply, Fail, BodyInv, TypeOK, Replies
  <2>3. BytesAccounted' /\ LimitAccounted' /\ ErrorsTrue'
    BY <2>1 DEF BodyInv, BytesAccounted, LimitAccounted, ErrorsTrue, Probed
  <2>4. RepliesTrue'
    BY <1>7, <2>1 DEF StoreFails, Reply, Fail, BodyInv, TypeOK, BytesAccounted, LimitAccounted,
                      RepliesTrue, Probed
  <2>5. QED
    BY <2>2, <2>3, <2>4 DEF BodyInv
<1>8. CASE UNCHANGED vars
    BY <1>8 DEF vars, BodyInv, TypeOK, BytesAccounted, LimitAccounted, ErrorsTrue,
                RepliesTrue, Probed
<1>9. QED
    BY <1>0, <1>1, <1>2, <1>3, <1>4, <1>5, <1>6, <1>7, <1>8 DEF Next

LEMMA BodyInit == Init => BodyInv
    BY UploadBodyAssumption
       DEF Init, BodyInv, TypeOK, BytesAccounted, LimitAccounted, ErrorsTrue, RepliesTrue,
           Probed, Errors, Replies

\* The accounts hold throughout an upload.
LEMMA BodyInvariant == Spec => []BodyInv
    BY BodyInit, BodyNext, PTL DEF Spec

\* No counter of an upload leaves its type: in particular, what remains
\* under the cap never becomes negative.
THEOREM BodyTypeCorrect == Spec => []TypeOK
<1>1. BodyInv => TypeOK
    BY DEF BodyInv
<1>2. QED
    BY <1>1, BodyInvariant, PTL

\* The cap is enforced, and nothing is stored cut off at it, whatever the
\* sizes of body, cap, peek and chunks.
THEOREM CapHolds == Spec => []CapEnforced
<1>1. BodyInv => CapEnforced
    BY DEF BodyInv, RepliesTrue, CapEnforced
<1>2. QED
    BY <1>1, BodyInvariant, PTL

\* No body within the cap is refused as too large.
THEOREM NoFalseRefusal == Spec => []FittingBodyNotRefused
<1>1. BodyInv => FittingBodyNotRefused
    BY DEF BodyInv, RepliesTrue, FittingBodyNotRefused
<1>2. QED
    BY <1>1, BodyInvariant, PTL

\* The recorded checksum is that of the stored bytes.
THEOREM ChecksumHolds == Spec => []ChecksumCoversObject
<1>1. BodyInv => ChecksumCoversObject
    BY DEF BodyInv, RepliesTrue, ChecksumCoversObject
<1>2. QED
    BY <1>1, BodyInvariant, PTL

-----------------------------------------------------------------------------
(* The round trip. *)

\* Once there is a response the upload is over, and its recorded size, its
\* stored bytes and the body that was sent are of one length.
TripInv ==
    /\ BodyInv /\ length \in Lengths
    /\ resp # NoResponse =>
          /\ reply = "created" /\ size = length /\ stored = length
          /\ Computed

LEMMA TripNextKeeps == TripInv /\ [TripNext]_tripVars => TripInv'
<1> SUFFICES ASSUME TripInv, [TripNext]_tripVars PROVE TripInv'
    OBVIOUS
<1>1. BodyInv' /\ length' = length
    <2>1. [Next]_vars
        BY DEF TripNext, Upload, Download, tripVars
    <2>2. length' = length
        BY <2>1 DEF Next, Refuse, Check, Peek, PeekDone, PutTake, PutRead, PutEnd, StoreFails, vars
    <2>3. QED
        BY <2>1, <2>2, BodyNext DEF TripInv
<1>2. CASE Upload
    <2>1. pc # "done" /\ UNCHANGED <<header, size, resp>>
        BY <1>2 DEF Upload, Next, Refuse, Check, Peek, PeekDone, PutTake, PutRead, PutEnd,
                    StoreFails, rangeVars
    <2>2. reply = "none"
        BY <2>1 DEF TripInv, BodyInv, RepliesTrue
    <2>3. resp = NoResponse
        BY <2>2 DEF TripInv
    <2>4. QED
        BY <1>1, <2>1, <2>3 DEF TripInv
<1>3. CASE Download
    <2>1. reply = "created" /\ UNCHANGED <<reply, stored, length>>
        BY <1>3 DEF Download, vars
    <2>2. stored = length
        BY <2>1 DEF TripInv, BodyInv, RepliesTrue
    <2>3. size' = length
        BY <1>3, <2>2 DEF Download, RecordedSize
    <2>4. Computed'
        BY <1>3, <2>2, <2>3, RoundTripAssumption DEF Download, Computed, TripInv
    <2>5. QED
        BY <1>1, <2>1, <2>2, <2>3, <2>4 DEF TripInv
<1>4. CASE UNCHANGED tripVars
    BY <1>1, <1>4 DEF TripInv, Computed, tripVars, vars, rangeVars
<1>5. QED
    BY <1>2, <1>3, <1>4 DEF TripNext

LEMMA TripInvariant == TripSpec => []TripInv
<1>1. TripInit => TripInv
    BY BodyInit DEF TripInit, Init, TripInv
<1>2. QED
    BY <1>1, TripNextKeeps, PTL DEF TripSpec

\* A ranged read of a finished upload, of any length and declared in either
\* way, returns the bytes of the body that was sent, cut as the header says.
THEOREM RoundTripHolds == TripSpec => []ServedAsSent
<1>1. TripInv => ServedAsSent
    <2> SUFFICES ASSUME TripInv, resp # NoResponse PROVE ServedAsSent
        BY DEF ServedAsSent
    <2>1. Computed /\ size = length /\ header \in Headers /\ size \in Sizes
          /\ resp = downloadRange(parseSingleRange(header, size), size, size)
        BY DEF TripInv, Computed
    <2>2. resp.status = 416 => Named(header, length) = {}
        <3>1. resp.status = 416 => parseSingleRange(header, size).outcome = "unsatisfiable"
            BY <2>1 DEF downloadRange
        <3>2. QED
            BY <2>1, <3>1, RefusedNamesNothing
    <2>3. resp.status = 200 => resp.body = 0..(length - 1)
        BY <2>1 DEF downloadRange
    <2>4. resp.status = 206 => resp.body = Named(header, length)
        BY <2>1, ComputedIsRight DEF PartialBodyIsNamed
    <2>5. QED
        BY <2>2, <2>3, <2>4 DEF ServedAsSent
<1>2. QED
    BY <1>1, TripInvariant, PTL

\* What holds of uploads and of ranged reads apart holds of the two together:
\* limitReader's cap and stage's checksum, and downloadRange's answers.
THEOREM TripKeepsBoth ==
    TripSpec => /\ [](CapEnforced /\ FittingBodyNotRefused /\ ChecksumCoversObject)
                /\ [](PartialBodyIsNamed /\ BackendsAgree /\ AnswerFollowsHeader)
<1>1. TripInv => CapEnforced /\ FittingBodyNotRefused /\ ChecksumCoversObject
    BY DEF TripInv, BodyInv, RepliesTrue, CapEnforced, FittingBodyNotRefused, ChecksumCoversObject
<1>2. TripInv => PartialBodyIsNamed /\ BackendsAgree /\ AnswerFollowsHeader
    <2>1. CASE resp = NoResponse
        BY <2>1 DEF NoResponse, PartialBodyIsNamed, BackendsAgree, AnswerFollowsHeader
    <2>2. CASE resp # NoResponse
        BY <2>2, ComputedIsRight DEF TripInv
    <2>3. QED
        BY <2>1, <2>2
<1>3. QED
    BY <1>1, <1>2, TripInvariant, PTL
=============================================================================
