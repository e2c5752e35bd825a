----------------------------- MODULE Collector -----------------------------
(***************************************************************************)
(* The background reconciliation sweep of internal/gc: purge soft-deleted  *)
(* files, reclaim orphaned objects, expire idempotency keys.  One sweep is *)
(* many remote calls; requests run between any two of them.                *)
(***************************************************************************)
EXTENDS ObjectStore, Repository

CONSTANTS
    Grace,     \* age at which an unreferenced object counts as an orphan
    TTL,       \* how long an idempotency key is kept; 0 disables expiry
    Batch,     \* how many deleted rows one sweep purges
    PageSize,  \* how many keys one page of a listing holds
    MaxScan    \* the longest time between reading the storage keys and the clock

ASSUME CollectorAssumption ==
    /\ Grace \in Nat /\ TTL \in Nat /\ MaxScan \in Nat
    /\ Batch \in Nat \ {0} /\ PageSize \in Nat \ {0}

VARIABLE gc  \* the sweep's progress

(***************************************************************************)
(* pc      idle | purge | purgeRow | cutoff | list | expire                *)
(* batch   ids of deleted rows this sweep has yet to purge                 *)
(* row     the one whose object has just been deleted                      *)
(* seen    the storage keys the table held when the sweep asked            *)
(* seenAt  when it asked                                                   *)
(* cutoff  objects modified after this are too new to be orphans           *)
(* page    the listed keys not visited yet;  cursor  the last one visited  *)
(***************************************************************************)
NoSweep == [pc |-> "idle", batch |-> {}, row |-> NoID, seen |-> {}, seenAt |-> 0,
            cutoff |-> 0, page |-> {}, cursor |-> NoID]

CollectorTypeOK ==
    gc \in [pc: {"idle", "purge", "purgeRow", "cutoff", "list", "expire"},
            batch: SUBSET UUID, row: UUID \cup {NoID}, seen: SUBSET UUID, seenAt: Nat,
            cutoff: Int, page: SUBSET UUID, cursor: UUID \cup {NoID}]

CollectorInit == gc = NoSweep

GCOutcomes == CallOutcomes(FALSE)

-----------------------------------------------------------------------------
\* The ticker fires and RunOnce lists the deleted rows.  (When that query
\* fails the sweep ends where it began.)
StartSweep ==
    /\ gc.pc = "idle"
    /\ \E b \in DeletedBatches(Batch) : gc' = [gc EXCEPT !.pc = "purge", !.batch = b]
    /\ UNCHANGED <<objects, files, idem, made>>

\* Mutants: the row is purged although the object's delete failed; a failed
\* delete ends the sweep.
PurgeObjectIgnoringErrors(o) ==
    /\ gc.pc = "purge"
    /\ \E i \in gc.batch :
          /\ \A j \in gc.batch : files[i].deletedAt <= files[j].deletedAt
          /\ Delete(files[i].key, o)
          /\ gc' = [gc EXCEPT !.pc = "purgeRow", !.row = i]
    /\ UNCHANGED <<files, idem, made>>

PurgeObjectOrStop(o) ==
    /\ gc.pc = "purge"
    /\ \E i \in gc.batch :
          /\ \A j \in gc.batch : files[i].deletedAt <= files[j].deletedAt
          /\ Delete(files[i].key, o)
          /\ gc' = IF o = "ok" THEN [gc EXCEPT !.pc = "purgeRow", !.row = i] ELSE NoSweep
    /\ UNCHANGED <<files, idem, made>>

\* purgeDeleted, oldest row first: delete the object.  On an error the row
\* stays for the next sweep.
PurgeObject(o) ==
    /\ gc.pc = "purge"
    /\ \E i \in gc.batch :
          /\ \A j \in gc.batch : files[i].deletedAt <= files[j].deletedAt
          /\ Delete(files[i].key, o)
          /\ gc' = IF o = "ok" THEN [gc EXCEPT !.pc = "purgeRow", !.row = i]
                   ELSE [gc EXCEPT !.batch = @ \ {i}]
    /\ UNCHANGED <<files, idem, made>>

\* purgeDeleted: then hard-delete its row.
PurgeRow(o) ==
    /\ gc.pc = "purgeRow"
    /\ Purge(gc.row, o)
    /\ gc' = [gc EXCEPT !.pc = "purge", !.batch = @ \ {gc.row}, !.row = NoID]
    /\ UNCHANGED objects

\* reclaimOrphans: read the referenced storage keys.  An error ends the sweep.
ReadStorageKeys(o) ==
    /\ gc.pc = "purge" /\ gc.batch = {}
    /\ gc' = IF o = "ok" THEN [gc EXCEPT !.pc = "cutoff", !.seen = StorageKeys, !.seenAt = now]
             ELSE NoSweep
    /\ UNCHANGED <<objects, files, idem, made>>

\* Mutant: the cutoff is the present.
TakeCutoffWithoutGrace ==
    /\ gc.pc = "cutoff"
    /\ gc' = [gc EXCEPT !.pc = "list", !.cutoff = now, !.seenAt = 0]
    /\ UNCHANGED <<objects, files, idem, made>>

\* reclaimOrphans: only then read the clock.
TakeCutoff ==
    /\ gc.pc = "cutoff"
    /\ gc' = [gc EXCEPT !.pc = "list", !.cutoff = now - Grace, !.seenAt = 0]
    /\ UNCHANGED <<objects, files, idem, made>>

\* Mutant: the listing stops after its first page.
FetchFirstPageOnly(o) ==
    /\ gc.pc = "list" /\ gc.page = {}
    /\ LET page == Page(gc.cursor, PageSize)
       IN  gc' = IF o # "ok" THEN NoSweep
                 ELSE IF page = {} \/ gc.cursor # NoID THEN [NoSweep EXCEPT !.pc = "expire"]
                 ELSE [gc EXCEPT !.page = page]
    /\ UNCHANGED <<objects, files, idem, made>>

\* List: fetch the next page, or finish when there is none.  An error ends
\* the sweep, so it also skips the expiry of idempotency keys.
FetchPage(o) ==
    /\ gc.pc = "list" /\ gc.page = {}
    /\ LET page == Page(gc.cursor, PageSize)
       IN  gc' = IF o # "ok" THEN NoSweep
                 ELSE IF page = {} THEN [NoSweep EXCEPT !.pc = "expire"]
                 ELSE [gc EXCEPT !.page = page]
    /\ UNCHANGED <<objects, files, idem, made>>

\* Mutant: no grace period.
IsOrphanAtAnyAge(k) == k \notin gc.seen

\* The listing callback's verdict on an object: not in the table when the
\* sweep asked, and not newer than the cutoff.
IsOrphan(k) == k \notin gc.seen /\ ~(objects[k].modified > gc.cutoff)

\* List, the callback on the next key of the page.
VisitObject(o) ==
    /\ gc.pc = "list"
    /\ \E k \in gc.page :
          /\ \A j \in gc.page : k <= j
          /\ IF IsOrphan(k) THEN Delete(k, o) ELSE o = "ok" /\ UNCHANGED objects
          /\ gc' = [gc EXCEPT !.page = @ \ {k}, !.cursor = k]
    /\ UNCHANGED <<files, idem, made>>

\* Mutant: a TTL of zero expires every key instead of none.
ExpireKeysAtAnyTTL(o) ==
    /\ gc.pc = "expire"
    /\ IF o # "fail" THEN PurgeIdempotencyKeys(now - TTL) ELSE UNCHANGED <<files, idem, made>>
    /\ gc' = NoSweep
    /\ UNCHANGED objects

\* expireIdempotencyKeys, and the end of the sweep.
ExpireKeys(o) ==
    /\ gc.pc = "expire"
    /\ IF o # "fail" /\ TTL > 0 THEN PurgeIdempotencyKeys(now - TTL)
       ELSE UNCHANGED <<files, idem, made>>
    /\ gc' = NoSweep
    /\ UNCHANGED objects

SweepCall(o) ==
    \/ PurgeObject(o) \/ PurgeRow(o) \/ ReadStorageKeys(o)
    \/ FetchPage(o) \/ VisitObject(o) \/ ExpireKeys(o)

SweepStep == StartSweep \/ TakeCutoff \/ \E o \in GCOutcomes : SweepCall(o)
=============================================================================
