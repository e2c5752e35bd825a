--------------------------- MODULE UploadService ---------------------------
(***************************************************************************)
(* The write path of internal/files: Upload and UploadIdempotent, called   *)
(* by the POST /files handler.  Each in-flight request is a process; every *)
(* remote call it makes is one step, so requests interleave with each      *)
(* other and with the collector between any two calls.                     *)
(***************************************************************************)
EXTENDS ObjectStore, Repository

CONSTANTS
    Requests,    \* request slots: how many uploads may run at once
    MaxUpload,   \* the longest upload, from the first call to the last
    LastArrival  \* bound: no request begins later than this

ASSUME UploadAssumption == MaxUpload \in Nat /\ LastArrival \in Nat

VARIABLE req  \* request -> where it is and what it holds

(***************************************************************************)
(* pc      the call the request makes next:                                *)
(*           claim    ClaimIdempotencyKey's insert                         *)
(*           readKey  its select, after a conflict                         *)
(*           replay   Get of the file the key names                        *)
(*           stage    stage: generate id and key                           *)
(*           put      stage: write the object under them                   *)
(*           stat     stage: read the size back (length unknown)           *)
(*           commit   Create or CreateForKey                               *)
(*           cleanup  the best-effort delete of the staged object          *)
(*           release  ReleaseIdempotencyKey                                *)
(* ikey    the Idempotency-Key header, or NoKey                            *)
(* id, key the file's id (staged, or found under the key), its storage key *)
(* start   when the request began                                          *)
(* gone    the request's context is cancelled: the client hung up          *)
(* reply   what the handler answered                                       *)
(***************************************************************************)
Working == {"claim", "readKey", "replay", "stage", "put", "stat", "commit", "cleanup", "release"}
Replies == {"none", "created", "replayed", "conflict", "resultGone", "error"}

NoRequest == [pc |-> "idle", ikey |-> NoKey, id |-> NoID, key |-> NoID,
              start |-> 0, gone |-> FALSE, reply |-> "none"]

UploadTypeOK ==
    req \in [Requests -> [pc: Working \cup {"idle", "done"}, ikey: IdemKeys \cup {NoKey},
                          id: UUID \cup {NoID}, key: UUID \cup {NoID}, start: Nat,
                          gone: BOOLEAN, reply: Replies]]

UploadInit == req = [r \in Requests |-> NoRequest]

InFlight(r) == req[r].pc \in Working
\* The object is written and the request still means to commit it.
Staged(r)   == req[r].pc \in {"stat", "commit"}
\* The request holds the claim on its idempotency key.
OwnsKey(r)  == /\ req[r].ikey # NoKey
               /\ req[r].pc \in {"stage", "put", "stat", "commit", "cleanup", "release"}

Goto(r, pc) == req' = [req EXCEPT ![r].pc = pc]
\* The handler returns: only what it answered is remembered, and only a
\* success names a file.
Answer(r, rep) ==
    req' = [req EXCEPT ![r] =
               [NoRequest EXCEPT !.pc = "done", !.ikey = req[r].ikey, !.reply = rep,
                                 !.id = IF rep \in {"created", "replayed"} THEN req[r].id ELSE NoID]]

\* What a failed upload does once nothing of it is left to clean up: hand
\* the claim back if it has one, then return the error.
GiveUp(r) == IF req[r].ikey = NoKey THEN Answer(r, "error") ELSE Goto(r, "release")

-----------------------------------------------------------------------------
\* The requests that may still need a pair of UUIDs.
Unstaged == {r \in Requests : req[r].pc \in {"claim", "readKey", "replay", "stage"}}

\* POST /files reaches the service.
Begin(r, k) ==
    /\ ~InFlight(r)
    /\ now <= LastArrival
    /\ serial + 2 * (Cardinality(Unstaged) + 1) <= MaxUUID
    /\ req' = [req EXCEPT ![r] =
                  [NoRequest EXCEPT !.pc = IF k = NoKey THEN "stage" ELSE "claim",
                                    !.ikey = k, !.start = now]]
    /\ UNCHANGED <<objects, files, idem, made, serial>>

\* The client hangs up; the server cancels the request's context.
ClientGone(r) ==
    /\ "cancel" \in Faults /\ InFlight(r) /\ ~req[r].gone
    /\ req' = [req EXCEPT ![r].gone = TRUE]
    /\ UNCHANGED <<objects, files, idem, made, serial>>

\* Mutant: an insert that changed no row is taken for a claim.
ClaimKeyIgnoringConflict(r) ==
    /\ req[r].pc = "claim"
    /\ \E o \in CallOutcomes(req[r].gone), at \in Stamps(now) :
          /\ InsertClaim(req[r].ikey, at, o)
          /\ \/ o = "ok" /\ Goto(r, "stage")
             \/ o # "ok" /\ Answer(r, "error")
    /\ UNCHANGED <<objects, serial>>

ClaimKey(r) ==
    /\ req[r].pc = "claim"
    /\ \E o \in CallOutcomes(req[r].gone), at \in Stamps(now) :
          /\ InsertClaim(req[r].ikey, at, o)
          /\ \/ o = "ok" /\ ~Claimed(req[r].ikey) /\ Goto(r, "stage")
             \/ o = "ok" /\ Claimed(req[r].ikey)  /\ Goto(r, "readKey")
             \/ o # "ok" /\ Answer(r, "error")
    /\ UNCHANGED <<objects, serial>>

ReadKey(r) ==
    /\ req[r].pc = "readKey"
    /\ LET rec == idem[req[r].ikey]
       IN  \E o \in CallOutcomes(req[r].gone) :
              \/ o = "ok" /\ rec.status = "completed" /\ rec.file # NoID
                          /\ req' = [req EXCEPT ![r].pc = "replay", ![r].id = rec.file]
              \/ o = "ok" /\ ~(rec.status = "completed" /\ rec.file # NoID)
                          /\ Answer(r, "conflict")
              \/ o # "ok" /\ Answer(r, "error")
    /\ UNCHANGED <<objects, files, idem, made, serial>>

Replay(r) ==
    /\ req[r].pc = "replay"
    /\ \E o \in CallOutcomes(req[r].gone) :
          \/ o = "ok" /\ Live(req[r].id)  /\ Answer(r, "replayed")
          \/ o = "ok" /\ ~Live(req[r].id) /\ Answer(r, "resultGone")
          \/ o # "ok" /\ Answer(r, "error")
    /\ UNCHANGED <<objects, files, idem, made, serial>>

\* stage draws the id and the storage key before it writes anything, so
\* uploads that overlap write their objects in any order of their keys.
\* (uuid.NewV7 fails when the system's randomness does.)
DrawKeys(r) ==
    LET id == serial + 1  key == serial + 2
    IN  /\ req[r].pc = "stage"
        /\ \/ /\ key <= MaxUUID
              /\ serial' = key
              /\ req' = [req EXCEPT ![r].pc = "put", ![r].id = id, ![r].key = key]
           \/ "fail" \in Faults /\ GiveUp(r) /\ UNCHANGED serial
        /\ UNCHANGED <<objects, files, idem, made>>

\* stage, the write.  A store may report any moment of the transfer as
\* LastModified.  A failed write is not cleaned up: what it may have left
\* behind is the collector's.
StageObject(r) ==
    /\ req[r].pc = "put"
    /\ \E o \in CallOutcomes(req[r].gone), at \in Stamps(req[r].start), sizeKnown \in BOOLEAN :
          /\ Put(req[r].key, at, o)
          /\ IF o = "ok" THEN Goto(r, IF sizeKnown THEN "commit" ELSE "stat") ELSE GiveUp(r)
    /\ UNCHANGED <<files, idem, made, serial>>

StatObject(r) ==
    /\ req[r].pc = "stat"
    /\ \E o \in CallOutcomes(req[r].gone) :
          IF o = "ok" /\ Stored(req[r].key) THEN Goto(r, "commit") ELSE Goto(r, "cleanup")
    /\ UNCHANGED <<objects, files, idem, made, serial>>

CommitPlain(r) ==
    /\ req[r].pc = "commit" /\ req[r].ikey = NoKey
    /\ \E o \in CommitOutcomes(req[r].gone) :
          /\ Create(req[r].id, req[r].key, o)
          /\ IF o = "ok" THEN Answer(r, "created") ELSE Goto(r, "cleanup")
    /\ UNCHANGED <<objects, serial>>

CommitForKey(r) ==
    /\ req[r].pc = "commit" /\ req[r].ikey # NoKey
    /\ \E o \in IF Completable(req[r].ikey) THEN CommitOutcomes(req[r].gone) ELSE {"fail"} :
          /\ CreateForKey(req[r].id, req[r].key, req[r].ikey, o)
          /\ IF o = "ok" THEN Answer(r, "created") ELSE Goto(r, "cleanup")
    /\ UNCHANGED <<objects, serial>>

\* The delete after a failed stat or commit: its own error is ignored.
CleanUp(r) ==
    /\ req[r].pc = "cleanup"
    /\ \E o \in CallOutcomes(req[r].gone) : Delete(req[r].key, o)
    /\ GiveUp(r)
    /\ UNCHANGED <<files, idem, made, serial>>

\* The release after a failed upload: its own error is ignored.
ReleaseKey(r) ==
    /\ req[r].pc = "release"
    /\ \E o \in CallOutcomes(req[r].gone) : ReleaseClaim(req[r].ikey, o)
    /\ Answer(r, "error")
    /\ UNCHANGED <<objects, serial>>

RequestStep(r) ==
    \/ ClaimKey(r) \/ ReadKey(r) \/ Replay(r) \/ DrawKeys(r) \/ StageObject(r) \/ StatObject(r)
    \/ CommitPlain(r) \/ CommitForKey(r) \/ CleanUp(r) \/ ReleaseKey(r)
=============================================================================
