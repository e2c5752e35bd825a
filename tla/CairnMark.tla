----------------------------- MODULE CairnMark -----------------------------
(***************************************************************************)
(* The service: any number of uploads, client deletes and one background   *)
(* collector over the same object store and repository, on one clock, in a *)
(* process that may die and be restarted at any moment.                    *)
(***************************************************************************)
EXTENDS UploadService, Collector

CONSTANT Poisoned  \* storage keys whose deletes may fail on every sweep

ASSUME PoisonedAssumption == Poisoned \subseteq UUID

vars == <<now, serial, crashes, objects, files, idem, made, req, gc>>

TypeOK ==
    /\ now \in Nat /\ serial \in 0..MaxUUID /\ crashes \in Nat
    /\ ObjectStoreTypeOK /\ RepositoryTypeOK /\ UploadTypeOK /\ CollectorTypeOK

Init ==
    /\ now = 0 /\ serial = 0 /\ crashes = 0
    /\ ObjectStoreInit /\ RepositoryInit /\ UploadInit /\ CollectorInit

-----------------------------------------------------------------------------
UploadRequest(r) ==
    /\ (\E k \in IdemKeys \cup {NoKey} : Begin(r, k)) \/ ClientGone(r) \/ RequestStep(r)
    /\ UNCHANGED <<now, crashes, gc>>

\* DELETE /files/{id}.
DeleteFile(i) ==
    /\ SoftDelete(i)
    /\ UNCHANGED <<now, serial, crashes, objects, req, gc>>

Sweep ==
    /\ SweepStep
    /\ UNCHANGED <<now, serial, crashes, req>>

\* Time passes.  MaxUpload and MaxScan are promises of the environment: no
\* upload is still running, and the collector is not still between its two
\* reads, once that much time has gone by.
UploadsInTime == \A r \in Requests : InFlight(r) => now < req[r].start + MaxUpload
ScanInTime    == gc.pc = "cutoff" => now < gc.seenAt + MaxScan

Tick ==
    /\ now < MaxTime /\ UploadsInTime /\ ScanInTime
    /\ now' = now + 1
    /\ UNCHANGED <<serial, crashes, objects, files, idem, made, req, gc>>

\* The process dies and is started again: what it kept in memory is lost,
\* what the servers keep stays.
Crash ==
    /\ "crash" \in Faults /\ crashes < MaxCrashes
    /\ crashes' = crashes + 1
    /\ req' = [r \in Requests |-> NoRequest]
    /\ gc' = NoSweep
    /\ UNCHANGED <<now, serial, objects, files, idem, made>>

Next ==
    \/ \E r \in Requests : UploadRequest(r)
    \/ \E i \in UUID : DeleteFile(i)
    \/ Sweep \/ Tick \/ Crash

Spec == Init /\ [][Next]_vars

(***************************************************************************)
(* Fairness.  The clock runs, goroutines are scheduled, and from some      *)
(* moment on the collector's calls succeed, except for deletes of poisoned *)
(* objects: it retries what failed on the next sweep.  Nothing is assumed  *)
(* of a request's calls, made only once.                                   *)
(***************************************************************************)
PoisonedDeleteFails ==
    \/ PurgeObject("fail") /\ \E i \in gc.batch \ gc'.batch :
          files[i].key \in Poisoned /\ \A j \in gc.batch : files[i].deletedAt <= files[j].deletedAt
    \/ VisitObject("fail") /\ gc'.cursor \in Poisoned

CallsSucceed == StartSweep \/ TakeCutoff \/ SweepCall("ok") \/ PoisonedDeleteFails

Fairness ==
    /\ WF_vars(Tick)
    /\ WF_vars(Sweep)
    /\ <>[][Sweep => CallsSucceed]_vars
    /\ \A r \in Requests : WF_vars(RequestStep(r) /\ UNCHANGED <<now, crashes, gc>>)

FairSpec == Spec /\ Fairness

-----------------------------------------------------------------------------
(* Durability. *)

\* The hypothesis under which the collector's grace period protects an
\* upload: it must cover the longest upload, the wait between reading the
\* storage keys and reading the clock, and the store's clock error.
GraceCoversUpload == MaxUpload + MaxScan + MaxSkew < Grace

\* A file that reads find (its row is not soft-deleted) has its bytes in
\* the store, whatever uploads, deletes, sweeps, failed calls and crashes
\* came before: neither purgeDeleted, nor reclaimOrphans, nor a failed
\* upload's cleanup ever deletes an object a client can still ask for.
LiveRowHasObject == \A i \in UUID : Live(i) => Stored(files[i].key)

\* purgeDeleted never leaves bytes without their row: when a sweep removes
\* a row for good its object is gone already.
PurgedRowHasNoObject ==
    [][\A i \in UUID : files[i] # NoRow /\ files'[i] = NoRow
                          => Deleted(i) /\ ~objects'[files[i].key].there]_vars

-----------------------------------------------------------------------------
(* Idempotency. *)

\* The hypothesis under which a claim outlives the upload that made it.
ClaimOutlivesUpload == TTL = 0 \/ MaxUpload + MaxSkew <= TTL

\* Two requests never both believe they hold the claim on one idempotency
\* key: a claim is given up, or expires, only once its owner is done.
ClaimExclusive ==
    \A r, s \in Requests :
        OwnsKey(r) /\ OwnsKey(s) /\ req[r].ikey = req[s].ikey => r = s

\* However often a client retries a POST under one key, and whichever
\* answers it never received, UploadIdempotent creates at most one file
\* until the key expires.
AtMostOneFilePerKey == \A k \in IdemKeys : \A i, j \in made[k] : i = j

\* The result recorded under a completed key is neither replaced nor
\* forgotten before the key's TTL has passed.
CompletedKeyStable ==
    [][\A k \in IdemKeys :
          idem[k].status = "completed" /\ idem'[k] # idem[k]
              => TTL > 0 /\ idem[k].createdAt + TTL < now]_vars

\* With keys kept forever, every successful answer to a POST under one key
\* names the same file.
OneAnswerPerKey ==
    TTL = 0 =>
        \A r, s \in Requests :
            /\ req[r].reply \in {"created", "replayed"} /\ req[s].reply \in {"created", "replayed"}
            /\ req[r].ikey = req[s].ikey /\ req[r].ikey # NoKey
            => req[r].id = req[s].id

-----------------------------------------------------------------------------
(* Reclamation. *)

\* An object no row refers to (an upload that has yet to commit, or one that
\* failed or crashed) is committed or deleted in the end, whatever other
\* objects the sweep cannot delete.
OrphansReclaimed ==
    \A k \in UUID \ Poisoned :
        Stored(k) /\ k \notin StorageKeys ~> ~Stored(k) \/ k \in StorageKeys

\* The listing behind reclaimOrphans comes in pages, while uploads add and
\* remove objects on either side of its cursor.  It passes an orphan older
\* than the grace period, or ends before it, only when that object's own
\* delete failed.
OrphansNotSkipped ==
    [][\A k \in UUID :
          /\ gc.pc = "list" /\ Stored(k) /\ IsOrphan(k) /\ gc.cursor < k
          /\ gc'.pc = "expire" \/ (gc'.pc = "list" /\ k <= gc'.cursor)
          => ~objects'[k].there \/ (gc'.cursor = k /\ VisitObject("fail"))]_vars

\* A soft-deleted file's row (and, by PurgedRowHasNoObject, before it its
\* object) is gone in the end, however many of the sweep's calls fail.  The
\* oldest rows fill the batch first, so this needs fewer objects that can
\* never be deleted than a batch holds.
DeletedPurged ==
    Cardinality(Poisoned) < Batch =>
        \A i \in UUID : Deleted(i) /\ files[i].key \notin Poisoned ~> files[i] = NoRow

\* A claim that nothing will complete (its owner crashed, or could not
\* release it) does not block its key for good.
StuckClaimExpires ==
    \A k \in IdemKeys : idem[k].status = "pending" ~> idem[k].status # "pending"

-----------------------------------------------------------------------------
(* What comments of the code say, and the code does not do. *)

\* internal/files/idempotency.go, on a failed upload: "On any failure,
\* release the claim (so a retry can proceed)".  A claim is pending only
\* while its owner is at work.
FailedUploadReleasesClaim ==
    \A k \in IdemKeys : idem[k].status = "pending" =>
        \E r \in Requests : InFlight(r) /\ req[r].ikey = k
=============================================================================
