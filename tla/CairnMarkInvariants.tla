------------------------ MODULE CairnMarkInvariants ------------------------
(***************************************************************************)
(* The inductive invariants behind the theorems of the *Proofs modules.    *)
(* They are stated apart from the proofs, so that TLC checks them too.     *)
(***************************************************************************)
EXTENDS CairnMark

\* The request has its pair of UUIDs, and no row under them yet.
HasKeys(r) == req[r].pc \in {"put", "stat", "commit", "cleanup"}
HasRow(i)  == files[i] # NoRow

\* The keys somebody relies on: a live file's, or one about to be committed.
Needed(k) ==
    \/ \E i \in UUID : Live(i) /\ files[i].key = k
    \/ \E r \in Requests : Staged(r) /\ req[r].key = k

\* Every request in flight began in the past and is within its time.
RequestsInTime ==
    \A r \in Requests : InFlight(r) => req[r].start <= now /\ now <= req[r].start + MaxUpload

-----------------------------------------------------------------------------
\* TypeOK is inductive once a request's fields are known to be set where it
\* uses them.
StagedTyped ==
    \A r \in Requests :
        /\ HasKeys(r) => req[r].id \in UUID /\ req[r].key \in UUID
        /\ req[r].pc \in {"claim", "readKey", "release"} => req[r].ikey \in IdemKeys

TypeInv == TypeOK /\ StagedTyped

-----------------------------------------------------------------------------
(* Why UUIDs make storage keys private: each is used by one row or by one  *)
(* request, and those above `serial` by none.                              *)

RowsBelowSerial == \A i \in UUID : HasRow(i) => i <= serial /\ files[i].key <= serial

RequestsBelowSerial ==
    \A r \in Requests : HasKeys(r) => req[r].id \in 1..serial /\ req[r].key \in 1..serial

RowKeysUnique ==
    \A i, j \in UUID : HasRow(i) /\ HasRow(j) /\ files[i].key = files[j].key => i = j

RequestKeysUnique ==
    \A r, s \in Requests : HasKeys(r) /\ HasKeys(s) /\ r # s => req[r].key # req[s].key

IdsUnique ==
    \A r, s \in Requests : HasKeys(r) /\ HasKeys(s) /\ r # s => req[r].id # req[s].id

UncommittedHasNoRow ==
    \A r \in Requests : HasKeys(r) =>
        /\ ~HasRow(req[r].id)
        /\ \A j \in UUID : HasRow(j) => files[j].key # req[r].key

KeysPrivate ==
    /\ RowsBelowSerial /\ RequestsBelowSerial /\ RowKeysUnique
    /\ RequestKeysUnique /\ IdsUnique /\ UncommittedHasNoRow

-----------------------------------------------------------------------------
(* Why no object is deleted too early. *)

NeededIsStored == \A k \in UUID : Needed(k) => Stored(k)

\* LastModified of an object still to be committed.
StagedIsRecent ==
    \A r \in Requests : Staged(r) => objects[req[r].key].modified >= req[r].start - MaxSkew

\* What purgeDeleted works on is, and stays, soft-deleted.
BatchDeleted == \A i \in gc.batch : Deleted(i)

RowBeingPurged ==
    gc.pc = "purgeRow" =>
        gc.row \in UUID /\ Deleted(gc.row) /\ ~Stored(files[gc.row].key)

\* Between its two reads: a needed key the table did not show belongs to an
\* upload that was in flight then, or began later.
UnseenIsRecent ==
    gc.pc = "cutoff" =>
        /\ gc.seenAt <= now /\ now <= gc.seenAt + MaxScan
        /\ \A k \in UUID : Needed(k) /\ k \notin gc.seen
              => objects[k].modified >= gc.seenAt - MaxUpload - MaxSkew

\* While listing: such a key is too new to be an orphan.
UnseenIsTooNew ==
    gc.pc = "list" =>
        /\ gc.cutoff <= now - Grace
        /\ \A k \in UUID : Needed(k) /\ k \notin gc.seen => objects[k].modified > gc.cutoff

\* The inductive invariant of durability: reclaimOrphans, purgeDeleted and
\* a failed upload's cleanup only ever delete objects nobody needs.
DurabilityInv ==
    /\ KeysPrivate /\ RequestsInTime
    /\ NeededIsStored /\ StagedIsRecent
    /\ BatchDeleted /\ RowBeingPurged /\ UnseenIsRecent /\ UnseenIsTooNew

-----------------------------------------------------------------------------
(* Why the listing misses no orphan. *)

\* The page is ahead of the cursor, and an object older than the cutoff that
\* is ahead of the cursor is on the page, or beyond it; what an upload adds
\* meanwhile is newer.
OrphansAhead ==
    /\ gc.pc # "list" => gc.page = {}
    /\ \A j \in gc.page : gc.cursor < j
    /\ gc.pc = "list" =>
          \A k \in UUID : Stored(k) /\ ~(objects[k].modified > gc.cutoff) /\ gc.cursor < k
              => k \in gc.page \/ \A j \in gc.page : j < k

-----------------------------------------------------------------------------
(* Why a key makes one file. *)

\* An owner's claim is in the table, no older than its request, and pending
\* until the owner has tried to commit.
OwnerHasClaim ==
    \A r \in Requests : OwnsKey(r) =>
        /\ Claimed(req[r].ikey)
        /\ idem[req[r].ikey].createdAt >= req[r].start - MaxSkew
        /\ req[r].pc \in {"stage", "put", "stat", "commit"} => idem[req[r].ikey].status = "pending"

\* The table knows what was made.
MadeIsRecorded ==
    \A k \in IdemKeys :
        /\ idem[k].status = "completed" => made[k] = {idem[k].file}
        /\ idem[k].status # "completed" => made[k] = {}

\* The inductive invariant of idempotency: the pending row in the table is
\* a lock that one request holds until it commits or gives up.
IdempotencyInv == RequestsInTime /\ ClaimExclusive /\ OwnerHasClaim /\ MadeIsRecorded

\* With keys kept forever, what a keyed request has answered, or is about to
\* replay, is what the table holds under its key.
AnswerRecorded(r) ==
    req[r].ikey # NoKey /\ (req[r].pc = "replay" \/ req[r].reply \in {"created", "replayed"})
        => idem[req[r].ikey].status = "completed" /\ idem[req[r].ikey].file = req[r].id

AnswersRecorded ==
    /\ \A r \in Requests : InFlight(r) => req[r].reply = "none"
    /\ TTL = 0 => \A r \in Requests : AnswerRecorded(r)
=============================================================================
