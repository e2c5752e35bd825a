---------------------------- MODULE Repository -----------------------------
(***************************************************************************)
(* The metadata repository, internal/metadata/postgres: the files table,   *)
(* the idempotency_keys table and the statements the program runs on them. *)
(* Each statement (for CreateForKey, each transaction) is atomic.          *)
(***************************************************************************)
EXTENDS Environment, FiniteSets

CONSTANTS IdemKeys,  \* the client-supplied idempotency keys
          NoKey      \* a request without one

ASSUME RepositoryAssumption == NoKey \notin IdemKeys

VARIABLES
    files,  \* file id -> row
    idem,   \* idempotency key -> row
    made    \* history: the files committed under a key since it last expired

\* "live" is deleted_at null; "deleted" is a stamped deleted_at.
NoRow   == [state |-> "absent", key |-> NoID, deletedAt |-> 0]
NoClaim == [status |-> "absent", file |-> NoID, createdAt |-> 0]

Row   == [state: {"live", "deleted"}, key: UUID, deletedAt: Nat]
Claim == [status: {"pending", "completed"}, file: UUID \cup {NoID}, createdAt: Int]

RepositoryTypeOK ==
    /\ files \in [UUID -> Row \cup {NoRow}]
    /\ idem \in [IdemKeys -> Claim \cup {NoClaim}]
    /\ made \in [IdemKeys -> SUBSET UUID]

RepositoryInit ==
    /\ files = [i \in UUID |-> NoRow]
    /\ idem = [k \in IdemKeys |-> NoClaim]
    /\ made = [k \in IdemKeys |-> {}]

Live(i)    == files[i].state = "live"
Deleted(i) == files[i].state = "deleted"
Claimed(k) == idem[k].status # "absent"

-----------------------------------------------------------------------------
(* The files table. *)

\* Mutant: the row is inserted without its storage key.
InsertFileWithoutKey(i, key) ==
    [files EXCEPT ![i] = [state |-> "live", key |-> NoID, deletedAt |-> 0]]

\* insertFile, which both Create and CreateForKey run.
InsertFile(i, key) ==
    [files EXCEPT ![i] = [state |-> "live", key |-> key, deletedAt |-> 0]]

Create(i, key, o) ==
    /\ files' = IF o = "fail" THEN files ELSE InsertFile(i, key)
    /\ UNCHANGED <<idem, made>>

\* Delete: the soft delete, which only ever stamps a live row.
SoftDelete(i) ==
    /\ Live(i)
    /\ files' = [files EXCEPT ![i].state = "deleted", ![i].deletedAt = now]
    /\ UNCHANGED <<idem, made>>

\* ListDeleted: up to `limit` deleted rows, oldest deletion first; rows
\* deleted at the same instant come in any order.
DeletedBatches(limit) ==
    LET all == {i \in UUID : Deleted(i)}
        n   == IF Cardinality(all) < limit THEN Cardinality(all) ELSE limit
    IN  {b \in SUBSET all :
            /\ Cardinality(b) = n
            /\ \A i \in b, j \in all \ b : files[i].deletedAt <= files[j].deletedAt}

\* Purge: the hard delete, guarded by deleted_at is not null.
Purge(i, o) ==
    /\ files' = IF o # "fail" /\ Deleted(i) THEN [files EXCEPT ![i] = NoRow] ELSE files
    /\ UNCHANGED <<idem, made>>

\* StorageKeys: every key in the table, live or soft-deleted.
StorageKeys == {files[i].key : i \in {j \in UUID : files[j] # NoRow}}

-----------------------------------------------------------------------------
(* The idempotency_keys table. *)

\* Mutant: on conflict do update.
UpsertClaim(k, createdAt, o) ==
    /\ idem' = IF o = "fail" THEN idem
               ELSE [idem EXCEPT ![k] =
                        [status |-> "pending", file |-> NoID, createdAt |-> createdAt]]
    /\ UNCHANGED <<files, made>>

\* ClaimIdempotencyKey, the insert ... on conflict do nothing.
InsertClaim(k, createdAt, o) ==
    /\ idem' = IF o = "fail" \/ Claimed(k) THEN idem
               ELSE [idem EXCEPT ![k] =
                        [status |-> "pending", file |-> NoID, createdAt |-> createdAt]]
    /\ UNCHANGED <<files, made>>

\* CreateForKey: the row and the key's completion in one transaction.  The
\* update names the key alone: not its status, nor who claimed it.  With no
\* row to update the transaction rolls back, which the caller sees as "fail".
Completable(k) == Claimed(k)

CreateForKey(i, key, k, o) ==
    IF o = "fail" THEN UNCHANGED <<files, idem, made>>
    ELSE /\ files' = InsertFile(i, key)
         /\ idem' = [idem EXCEPT ![k].status = "completed", ![k].file = i]
         /\ made' = [made EXCEPT ![k] = @ \cup {i}]

\* Mutant: the delete does not test the status.
ReleasableInAnyStatus(k) == Claimed(k)

\* ReleaseIdempotencyKey: removes the key's row while it is still pending,
\* whoever claimed it.
Releasable(k) == idem[k].status = "pending"

ReleaseClaim(k, o) ==
    /\ idem' = IF o # "fail" /\ Releasable(k) THEN [idem EXCEPT ![k] = NoClaim] ELSE idem
    /\ UNCHANGED <<files, made>>

\* Mutants: a key exactly TTL old expires; pending keys do not.
ExpiredInclusive(k, before) == Claimed(k) /\ idem[k].createdAt <= before
ExpiredCompletedOnly(k, before) ==
    idem[k].status = "completed" /\ idem[k].createdAt < before

\* PurgeIdempotencyKeys: removes every key created before the cutoff,
\* pending or completed.  The key's next life starts with nothing made.
Expired(k, before) == Claimed(k) /\ idem[k].createdAt < before

PurgeIdempotencyKeys(before) ==
    /\ idem' = [k \in IdemKeys |-> IF Expired(k, before) THEN NoClaim ELSE idem[k]]
    /\ made' = [k \in IdemKeys |-> IF Expired(k, before) THEN {} ELSE made[k]]
    /\ UNCHANGED files
=============================================================================
