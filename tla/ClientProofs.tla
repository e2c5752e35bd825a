---------------------------- MODULE ClientProofs ----------------------------
(***************************************************************************)
(* What clients see: the service implements FileStore, whatever uploads,   *)
(* sweeps, failed calls and crashes go on behind it.                       *)
(*                                                                         *)
(* Most steps change nothing that FileStore speaks of, except that ids are *)
(* drawn and given up: they are its Retire.  The others are one step of    *)
(* FileStore each, because keys are private, what is needed is stored and  *)
(* an owner's claim is pending (DurabilityInv and IdempotencyInv).         *)
(***************************************************************************)
EXTENDS CairnMarkRefinement, Download, DurabilityProofs, IdempotencyProofs

-----------------------------------------------------------------------------
(* Steps that clients cannot see. *)

\* Whatever only uses up ids is a Retire.
LEMMA InvisibleStep ==
    ASSUME UNCHANGED <<LiveFiles, TrashFiles, WithBytes, Results>>, FreshIds' \subseteq FreshIds
    PROVE  FS!FSNext
<1>1. FreshIds' = FreshIds \ (FreshIds \ FreshIds')
    OBVIOUS
<1>2. FS!Retire
    BY <1>1 DEF FS!Retire
<1>3. QED
    BY <1>2 DEF FS!FSNext

\* Ids above serial, and those of uploads under way, only become fewer.
LEMMA FreshShrinks ==
    ASSUME TypeInv, TypeInv', serial <= serial',
           \A r \in Requests : HasKeys(r)' =>
               req'[r].id > serial \/ (HasKeys(r) /\ req'[r].id = req[r].id)
    PROVE  FreshIds' \subseteq FreshIds
<1>1. serial \in Nat /\ serial' \in Nat /\ \A i \in UUID : i \in Nat
    BY EnvironmentAssumption DEF TypeInv, TypeOK, UUID
<1>2. QED
    BY <1>1 DEF FreshIds

\* The files are as they were when the table is, and the objects of its rows.
LEMMA SameFiles ==
    ASSUME UNCHANGED files,
           \A i \in UUID : HasRow(i) => objects'[files[i].key].there = objects[files[i].key].there
    PROVE  UNCHANGED <<LiveFiles, TrashFiles, WithBytes>>
BY DEF LiveFiles, TrashFiles, WithBytes, Live, Deleted, HasRow, Stored

\* A key's result is as it was when no completed row appears or goes.
LEMMA SameResults ==
    ASSUME \A k \in IdemKeys :
               \/ idem'[k] = idem[k]
               \/ idem'[k].status # "completed" /\ idem[k].status # "completed"
    PROVE  UNCHANGED Results
BY DEF Results

\* A request step that draws nothing and touches no row's object.
LEMMA InvisibleRequest ==
    ASSUME TypeInv, TypeInv', NoNewKeys, serial <= serial', UNCHANGED files,
           \A i \in UUID : HasRow(i) => objects'[files[i].key].there = objects[files[i].key].there,
           UNCHANGED Results
    PROVE  FS!FSNext
<1>1. FreshIds' \subseteq FreshIds
    BY FreshShrinks DEF NoNewKeys
<1>2. QED
    BY <1>1, SameFiles, InvisibleStep

\* A step that leaves requests and serial alone.
LEMMA SameIds ==
    ASSUME UNCHANGED <<serial, req>>
    PROVE  UNCHANGED FreshIds
BY DEF FreshIds, HasKeys

\* The steps of a request that change neither the store nor a row: a claim
\* that is made or released is pending.
LEMMA QuietRequestInvisible ==
    ASSUME TypeInv, TypeInv', NEW r \in Requests, QuietRequestStep(r)
    PROVE  FS!FSNext
<1>1. /\ NoNewKeys /\ NoNewStaged
      /\ UNCHANGED <<serial, objects, files>>
    BY QuietRequestSteps
<1>2. UNCHANGED Results
    <2> USE DEF TypeInv, TypeOK, RepositoryTypeOK
    <2>1. CASE ClaimKey(r)
        <3>1. PICK o \in CallOutcomes(req[r].gone), at \in Stamps(now) : InsertClaim(req[r].ikey, at, o)
            BY <2>1 DEF ClaimKey
        <3>2. UNCHANGED idem \/ (~Claimed(req[r].ikey) /\
                 idem' = [idem EXCEPT ![req[r].ikey] = [status |-> "pending", file |-> NoID, createdAt |-> at]])
            BY <3>1 DEF InsertClaim
        <3>3. \A k \in IdemKeys : idem'[k] = idem[k]
                 \/ (idem'[k].status = "pending" /\ idem[k].status = "absent")
            BY <3>2 DEF Claimed
        <3>4. QED
            BY <3>3, SameResults
    <2>2. CASE ReleaseKey(r)
        BY <2>2, SameResults DEF ReleaseKey, ReleaseClaim, Releasable, NoClaim
    <2>3. CASE ~ClaimKey(r) /\ ~ReleaseKey(r)
        <3>1. UNCHANGED idem
            BY <2>3 DEF QuietRequestStep, Begin, ClientGone, ReadKey, Replay, StatObject
        <3>2. QED
            BY <3>1, SameResults
    <2>4. QED
        BY <2>1, <2>2, <2>3
<1>3. serial <= serial'
    BY <1>1 DEF TypeInv, TypeOK
<1>4. QED
    BY <1>1, <1>2, <1>3, InvisibleRequest

\* stage draws an id that was still to be drawn.
LEMMA DrawInvisible ==
    ASSUME TypeInv, TypeInv', NEW r \in Requests, DrawKeys(r)
    PROVE  FS!FSNext
<1>1. req[r].pc = "stage" /\ InFlight(r) /\ UNCHANGED <<objects, files, idem>>
    BY DEF DrawKeys, InFlight, Working
<1>2. UNCHANGED Results
    BY <1>1, SameResults
<1>3. CASE GiveUp(r) /\ UNCHANGED serial
    <2>1. NoNewKeys /\ serial <= serial'
        BY <1>1, <1>3, GivesUp DEF TypeInv, TypeOK
    <2>2. QED
        BY <1>1, <1>2, <2>1, InvisibleRequest
<1>4. CASE /\ serial' = serial + 2
           /\ req' = [req EXCEPT ![r].pc = "put", ![r].id = serial + 1, ![r].key = serial + 2]
    <2>1. serial \in Nat
        BY EnvironmentAssumption DEF TypeInv, TypeOK
    <2>2. /\ req'[r].id = serial + 1
          /\ \A s \in Requests : s # r => req'[s] = req[s]
        BY <1>4 DEF TypeInv, TypeOK, UploadTypeOK
    <2>3. FreshIds' \subseteq FreshIds
        <3>1. \A s \in Requests : HasKeys(s)' =>
                 req'[s].id > serial \/ (HasKeys(s) /\ req'[s].id = req[s].id)
            BY <2>1, <2>2 DEF HasKeys
        <3>2. serial <= serial'
            BY <1>4, <2>1
        <3>3. QED
            BY <3>1, <3>2, FreshShrinks
    <2>4. QED
        BY <1>1, <1>2, <2>3, SameFiles, InvisibleStep
<1>5. QED
    BY <1>3, <1>4 DEF DrawKeys

\* stage writes the object under a key no row has.
LEMMA StageInvisible ==
    ASSUME TypeInv, TypeInv', KeysPrivate, NEW r \in Requests, StageObject(r)
    PROVE  FS!FSNext
<1>1. /\ InFlight(r) /\ HasKeys(r) /\ UNCHANGED <<serial, files, idem>>
      /\ Goto(r, "stat") \/ Goto(r, "commit") \/ GiveUp(r)
    BY DEF StageObject, InFlight, HasKeys, Working
<1>2. NoNewKeys
    <2>1. CASE GiveUp(r)
        BY <1>1, <2>1, GivesUp
    <2>2. CASE Goto(r, "stat") \/ Goto(r, "commit")
        BY <1>1, <2>2 DEF Goto, NoNewKeys, HasKeys, TypeInv, TypeOK, UploadTypeOK
    <2>3. QED
        BY <1>1, <2>1, <2>2
<1>3. \A k : k # req[r].key => objects'[k] = objects[k]
    BY DEF StageObject, Put, TypeInv, TypeOK, ObjectStoreTypeOK
<1>4. \A i \in UUID : HasRow(i) => files[i].key # req[r].key
    BY <1>1 DEF KeysPrivate, UncommittedHasNoRow
<1>5. serial <= serial' /\ UNCHANGED Results
    BY <1>1, SameResults DEF TypeInv, TypeOK
<1>6. QED
    BY <1>1, <1>2, <1>3, <1>4, <1>5, InvisibleRequest

\* The cleanup of a failed upload deletes an object no row has.
LEMMA CleanUpInvisible ==
    ASSUME TypeInv, TypeInv', KeysPrivate, NEW r \in Requests, CleanUp(r)
    PROVE  FS!FSNext
<1>1. /\ InFlight(r) /\ HasKeys(r) /\ GiveUp(r)
      /\ UNCHANGED <<serial, files, idem>>
    BY DEF CleanUp, InFlight, HasKeys, Working
<1>2. NoNewKeys /\ NoNewStaged
    BY <1>1, GivesUp
<1>3. \A k : k # req[r].key => objects'[k] = objects[k]
    BY DEF CleanUp, Delete, TypeInv, TypeOK, ObjectStoreTypeOK
<1>4. \A i \in UUID : HasRow(i) => files[i].key # req[r].key
    BY <1>1 DEF KeysPrivate, UncommittedHasNoRow
<1>5. serial <= serial'
    BY <1>1 DEF TypeInv, TypeOK
<1>6. UNCHANGED Results
    BY <1>1, SameResults
<1>7. QED
    BY <1>1, <1>2, <1>3, <1>4, <1>5, <1>6, InvisibleRequest

-----------------------------------------------------------------------------
(* Steps that clients see. *)

\* A commit publishes: the id is still fresh, its bytes are there and, under
\* a key, the claim is pending.
LEMMA CommitPublishes ==
    ASSUME TypeInv, TypeInv', DurabilityInv, NEW r \in Requests, Staged(r),
           files' = InsertFile(req[r].id, req[r].key), Answer(r, "created"),
           UNCHANGED <<serial, objects>>,
           NEW k \in IdemKeys \cup {NoKey},
           \/ k = NoKey /\ UNCHANGED Results
           \/ k \in IdemKeys /\ Results[k] = NoID /\ Results' = [Results EXCEPT ![k] = req[r].id]
    PROVE  FS!FSNext
<1> DEFINE id == req[r].id
           key == req[r].key
<1>1. HasKeys(r) /\ id \in UUID /\ key \in UUID
    BY DEF Staged, HasKeys, TypeInv, StagedTyped
<1>2. /\ files'[id] = [state |-> "live", key |-> key, deletedAt |-> 0]
      /\ \A i \in UUID : i # id => files'[i] = files[i]
    BY <1>1 DEF InsertFile, TypeInv, TypeOK, RepositoryTypeOK
<1>3. ~HasRow(id)
    BY <1>1 DEF DurabilityInv, KeysPrivate, UncommittedHasNoRow
<1>4. Stored(key)
    BY <1>1 DEF DurabilityInv, NeededIsStored, Needed
<1>5. LiveFiles' = LiveFiles \cup {id}
    BY <1>1, <1>2 DEF LiveFiles, Live
<1>6. UNCHANGED TrashFiles
    BY <1>1, <1>2, <1>3 DEF TrashFiles, Deleted, HasRow, NoRow
<1>7. WithBytes' = WithBytes \cup {id}
    <2>1. files'[id].key = key /\ files'[id] # NoRow /\ objects'[key].there
        BY <1>2, <1>4 DEF NoRow, Stored
    <2>2. \A i \in UUID : i # id => /\ HasRow(i)' <=> HasRow(i)
                                    /\ Stored(files[i].key)' <=> Stored(files[i].key)
        BY <1>2 DEF HasRow, Stored
    <2>3. QED
        BY <1>1, <2>1, <2>2 DEF WithBytes, HasRow, Stored
<1>8. id \in FreshIds
    BY <1>1 DEF FreshIds
<1>9. FreshIds' = FreshIds \ {id}
    <2>1. ~HasKeys(r)' /\ \A s \in Requests : s # r => req'[s] = req[s]
        BY DEF Answer, NoRequest, HasKeys, TypeInv, TypeOK, UploadTypeOK
    <2>2. \A s \in Requests : s # r => (HasKeys(s)' <=> HasKeys(s)) /\ req'[s].id = req[s].id
        BY <2>1 DEF HasKeys
    <2>3. \A s \in Requests : s # r /\ HasKeys(s) => req[s].id # id
        BY <1>1 DEF DurabilityInv, KeysPrivate, IdsUnique
    <2>4. ~(id > serial)
        BY <1>1 DEF DurabilityInv, KeysPrivate, RequestsBelowSerial, TypeInv, TypeOK
    <2>5. QED
        BY <2>1, <2>2, <2>3, <2>4 DEF FreshIds
<1>10. FS!Publish(id, k)
    BY <1>5, <1>6, <1>7, <1>8, <1>9 DEF FS!Publish
<1>11. QED
    BY <1>1, <1>10 DEF FS!FSNext

\* With no answer lost a commit is a Publish, or changes nothing.
LEMMA CommitVisible ==
    ASSUME DurabilityHypothesis, TypeInv, TypeInv', DurabilityInv, IdempotencyInv,
           NEW r \in Requests, CommitPlain(r) \/ CommitForKey(r)
    PROVE  FS!FSNext
<1>1. InFlight(r) /\ Staged(r) /\ HasKeys(r) /\ UNCHANGED <<serial, objects>>
    BY DEF CommitPlain, CommitForKey, InFlight, Staged, HasKeys, Working
<1>2. \A o \in CommitOutcomes(req[r].gone) : o = "ok" \/ o = "fail"
    BY DEF CommitOutcomes, DurabilityHypothesis
<1>3. ASSUME UNCHANGED <<files, idem>>, Goto(r, "cleanup")
      PROVE  FS!FSNext
    <2>1. NoNewKeys /\ NoNewStaged
        BY <1>1, <1>3, Moves DEF Working
    <2>2. serial <= serial'
        BY <1>1 DEF TypeInv, TypeOK
    <2>3. QED
        BY <1>1, <1>3, <2>1, <2>2, SameResults, InvisibleRequest
<1>4. CASE CommitPlain(r)
    <2>1. \/ files' = InsertFile(req[r].id, req[r].key) /\ Answer(r, "created") /\ UNCHANGED idem
          \/ UNCHANGED <<files, idem>> /\ Goto(r, "cleanup")
        BY <1>2, <1>4 DEF CommitPlain, Create
    <2>2. UNCHANGED idem => UNCHANGED Results
        BY SameResults
    <2>3. QED
        BY <1>1, <1>3, <2>1, <2>2, CommitPublishes
<1>5. CASE CommitForKey(r)
    <2> DEFINE k == req[r].ikey
    <2>1. \/ UNCHANGED <<files, idem>> /\ Goto(r, "cleanup")
          \/ /\ files' = InsertFile(req[r].id, req[r].key) /\ Answer(r, "created")
             /\ idem' = [idem EXCEPT ![k].status = "completed", ![k].file = req[r].id]
        BY <1>2, <1>5 DEF CommitForKey, CreateForKey
    <2>2. OwnsKey(r) /\ req[r].pc = "commit"
        BY <1>5 DEF CommitForKey, OwnsKey
    <2>3. k \in IdemKeys /\ idem[k].status = "pending"
        BY <2>2, OwnedKeyIsKey DEF IdempotencyInv, OwnerHasClaim
    <2>4. ASSUME idem' = [idem EXCEPT ![k].status = "completed", ![k].file = req[r].id]
          PROVE  Results[k] = NoID /\ Results' = [Results EXCEPT ![k] = req[r].id]
        <3>1. /\ idem'[k].status = "completed" /\ idem'[k].file = req[r].id
              /\ \A j \in IdemKeys : j # k => idem'[j] = idem[j]
            <4>1. DOMAIN idem = IdemKeys /\ DOMAIN idem[k] = DOMAIN NoClaim
                BY <2>3 DEF TypeInv, TypeOK, RepositoryTypeOK, Claim, NoClaim
            <4>2. "status" \in DOMAIN idem[k] /\ "file" \in DOMAIN idem[k]
                BY <4>1 DEF NoClaim
            <4>3. QED
                BY <2>3, <2>4, <4>1, <4>2
        <3>2. QED
            BY <2>3, <3>1 DEF Results
    <2>5. QED
        BY <1>1, <1>3, <2>1, <2>3, <2>4, CommitPublishes
<1>6. QED
    BY <1>4, <1>5

\* A client's delete removes a live file; its bytes stay.
LEMMA DeleteVisible ==
    ASSUME TypeInv, NEW i \in UUID, DeleteFile(i)
    PROVE  FS!FSNext
<1>1. Live(i) /\ UNCHANGED <<serial, objects, req, idem>>
    BY DEF DeleteFile, SoftDelete
<1>2. /\ files'[i].state = "deleted" /\ files'[i].key = files[i].key
      /\ \A j \in UUID : j # i => files'[j] = files[j]
    BY DEF DeleteFile, SoftDelete, TypeInv, TypeOK, RepositoryTypeOK, Row, NoRow
<1>3. LiveFiles' = LiveFiles \ {i} /\ TrashFiles' = TrashFiles \cup {i}
    BY <1>2 DEF LiveFiles, TrashFiles, Live, Deleted
<1>4. UNCHANGED WithBytes
    BY <1>1, <1>2 DEF WithBytes, HasRow, NoRow, Live, Stored
<1>5. UNCHANGED <<FreshIds, Results>>
    BY <1>1, SameIds, SameResults
<1>6. FS!Remove(i)
    BY <1>1, <1>3, <1>4, <1>5 DEF FS!Remove, LiveFiles
<1>7. QED
    BY <1>6 DEF FS!FSNext

\* An object that goes, and that nobody needs, was a removed file's or
\* nobody's.
LEMMA ObjectGoes ==
    ASSUME TypeInv, KeysPrivate, UNCHANGED <<serial, files, req, idem>>,
           NEW key \in UUID, ~Needed(key),
           \A k \in UUID : k # key => objects'[k] = objects[k],
           objects'[key] \in {objects[key], NoObject}
    PROVE  FS!FSNext
<1>1. UNCHANGED <<FreshIds, Results>>
    BY SameIds, SameResults
<1>2. \A i \in UUID : HasRow(i) => files[i].key \in UUID
    BY DEF HasRow, TypeInv, TypeOK, RepositoryTypeOK, Row
<1>3. UNCHANGED <<LiveFiles, TrashFiles>>
    BY DEF LiveFiles, TrashFiles, Live, Deleted
<1>4. ASSUME NEW i \in UUID, HasRow(i), files[i].key = key, Stored(key), ~objects'[key].there
      PROVE  FS!FSNext
    <2>1. Deleted(i)
        BY <1>4 DEF Needed, Live, Deleted, HasRow, TypeInv, TypeOK, RepositoryTypeOK, Row
    <2>2. \A j \in UUID : HasRow(j) /\ j # i => files[j].key # key
        BY <1>4 DEF KeysPrivate, RowKeysUnique
    <2>3. i \in WithBytes /\ WithBytes' = WithBytes \ {i}
        BY <1>2, <1>4, <2>2 DEF WithBytes, HasRow, Stored
    <2>4. FS!Discard(i)
        BY <1>1, <1>3, <2>1, <2>3 DEF FS!Discard, TrashFiles
    <2>5. QED
        BY <2>4 DEF FS!FSNext
<1>5. ASSUME \A i \in UUID : HasRow(i) /\ files[i].key = key =>
                 objects'[key].there = objects[key].there
      PROVE  FS!FSNext
    <2>1. \A i \in UUID : HasRow(i) => objects'[files[i].key].there = objects[files[i].key].there
        BY <1>2, <1>5
    <2>2. QED
        BY <1>1, <2>1, SameFiles, InvisibleStep
<1>6. objects[key].there \in BOOLEAN
    BY DEF TypeInv, TypeOK, ObjectStoreTypeOK
<1>7. objects'[key].there = objects[key].there \/ (objects[key].there /\ ~objects'[key].there)
    <2>1. CASE objects'[key] = objects[key]
        BY <2>1
    <2>2. CASE objects'[key] = NoObject
        <3>1. objects'[key].there = FALSE
            BY <2>2 DEF NoObject
        <3>2. CASE objects[key].there = FALSE
            BY <3>1, <3>2
        <3>3. CASE objects[key].there = TRUE
            BY <3>1, <3>3
        <3>4. QED
            BY <1>6, <3>2, <3>3
    <2>3. QED
        BY <2>1, <2>2
<1>8. QED
    BY <1>4, <1>5, <1>7 DEF Stored

\* purgeDeleted: the object of a removed file, and then its row.
LEMMA PurgeVisible ==
    ASSUME TypeInv, DurabilityInv, UNCHANGED <<serial, req>>, NEW o,
           PurgeObject(o) \/ PurgeRow(o)
    PROVE  FS!FSNext
<1>1. CASE PurgeObject(o)
    <2>1. PICK i \in gc.batch : Delete(files[i].key, o)
        BY <1>1 DEF PurgeObject
    <2>2. UNCHANGED <<files, idem>>
        BY <1>1 DEF PurgeObject
    <2>3. i \in UUID /\ Deleted(i) /\ HasRow(i) /\ files[i].key \in UUID
        BY DEF DurabilityInv, BatchDeleted, Deleted, HasRow, NoRow,
               TypeInv, TypeOK, CollectorTypeOK, RepositoryTypeOK, Row
    <2>4. ~Needed(files[i].key)
        <3>1. \A j \in UUID : Live(j) => files[j].key # files[i].key
            BY <2>3 DEF DurabilityInv, KeysPrivate, RowKeysUnique, Live, Deleted, HasRow, NoRow
        <3>2. \A r \in Requests : Staged(r) => req[r].key # files[i].key
            BY <2>3 DEF DurabilityInv, KeysPrivate, UncommittedHasNoRow, Staged, HasKeys
        <3>3. QED
            BY <3>1, <3>2 DEF Needed
    <2>5. /\ \A k \in UUID : k # files[i].key => objects'[k] = objects[k]
          /\ objects'[files[i].key] \in {objects[files[i].key], NoObject}
        BY <2>1, <2>3 DEF Delete, TypeInv, TypeOK, ObjectStoreTypeOK
    <2>6. QED
        BY <2>2, <2>3, <2>4, <2>5, ObjectGoes DEF DurabilityInv
<1>2. CASE PurgeRow(o)
    <2> DEFINE i == gc.row
    <2>1. i \in UUID /\ Deleted(i) /\ ~Stored(files[i].key) /\ UNCHANGED <<objects, idem>>
        BY <1>2 DEF PurgeRow, Purge, DurabilityInv, RowBeingPurged
    <2>2. UNCHANGED <<FreshIds, Results>>
        BY <2>1, SameIds, SameResults
    <2>3. CASE UNCHANGED files
        BY <2>1, <2>2, <2>3, SameFiles, InvisibleStep
    <2>4. CASE files' = [files EXCEPT ![i] = NoRow]
        <3>1. files'[i] = NoRow /\ \A j \in UUID : j # i => files'[j] = files[j]
            BY <2>1, <2>4 DEF TypeInv, TypeOK, RepositoryTypeOK
        <3>2. TrashFiles' = TrashFiles \ {i} /\ UNCHANGED LiveFiles
            BY <2>1, <3>1 DEF TrashFiles, LiveFiles, Live, Deleted, NoRow
        <3>3. i \notin WithBytes /\ UNCHANGED WithBytes
            BY <2>1, <3>1 DEF WithBytes, HasRow, Stored
        <3>4. FS!Forget(i)
            BY <2>1, <2>2, <3>2, <3>3 DEF FS!Forget, TrashFiles
        <3>5. QED
            BY <2>1, <3>4 DEF FS!FSNext
    <2>5. QED
        BY <1>2, <2>3, <2>4 DEF PurgeRow, Purge
<1>3. QED
    BY <1>1, <1>2

\* reclaimOrphans and expireIdempotencyKeys.
LEMMA ReclaimVisible ==
    ASSUME TypeInv, DurabilityInv, UNCHANGED <<serial, req>>, NEW o,
           VisitObject(o) \/ ExpireKeys(o)
    PROVE  FS!FSNext
<1>1. CASE VisitObject(o)
    <2>1. PICK k \in gc.page : IF IsOrphan(k) THEN Delete(k, o) ELSE UNCHANGED objects
        BY <1>1 DEF VisitObject
    <2>2. UNCHANGED <<files, idem>> /\ gc.pc = "list"
        BY <1>1 DEF VisitObject
    <2>3. k \in UUID
        BY DEF TypeInv, TypeOK, CollectorTypeOK
    <2>4. CASE IsOrphan(k)
        <3>1. ~Needed(k)
            BY <2>2, <2>3, <2>4 DEF IsOrphan, DurabilityInv, UnseenIsTooNew
        <3>2. /\ \A j \in UUID : j # k => objects'[j] = objects[j]
              /\ objects'[k] \in {objects[k], NoObject}
            BY <2>1, <2>3, <2>4 DEF Delete, TypeInv, TypeOK, ObjectStoreTypeOK
        <3>3. QED
            BY <2>2, <2>3, <3>1, <3>2, ObjectGoes DEF DurabilityInv
    <2>5. CASE ~IsOrphan(k)
        BY <2>1, <2>2, <2>5, SameFiles, SameIds, SameResults, InvisibleStep
    <2>6. QED
        BY <2>4, <2>5
<1>2. CASE ExpireKeys(o)
    <2>1. UNCHANGED <<objects, files>>
        BY <1>2 DEF ExpireKeys, PurgeIdempotencyKeys
    <2>2. UNCHANGED <<LiveFiles, TrashFiles, WithBytes, FreshIds>>
        BY <2>1, SameFiles, SameIds
    <2>3. PICK gone \in SUBSET IdemKeys :
             idem' = [k \in IdemKeys |-> IF k \in gone THEN NoClaim ELSE idem[k]]
        <3>1. CASE UNCHANGED idem
            <4> DEFINE gone == {}
            <4>1. idem' = [k \in IdemKeys |-> IF k \in gone THEN NoClaim ELSE idem[k]]
                BY <3>1 DEF TypeInv, TypeOK, RepositoryTypeOK
            <4>2. gone \in SUBSET IdemKeys
                OBVIOUS
            <4> HIDE DEF gone
            <4>3. QED
                BY <4>1, <4>2
        <3>2. CASE PurgeIdempotencyKeys(now - TTL)
            <4> DEFINE gone == {k \in IdemKeys : Expired(k, now - TTL)}
            <4>1. idem' = [k \in IdemKeys |-> IF k \in gone THEN NoClaim ELSE idem[k]]
                BY <3>2 DEF PurgeIdempotencyKeys
            <4>2. QED
                BY <4>1
        <3>3. QED
            BY <1>2, <3>1, <3>2 DEF ExpireKeys
    <2>4. Results' = [k \in IdemKeys |-> IF k \in gone THEN NoID ELSE Results[k]]
        BY <2>3 DEF Results, NoClaim
    <2>5. FS!Expire
        BY <2>2, <2>4 DEF FS!Expire
    <2>6. QED
        BY <2>5 DEF FS!FSNext
<1>3. QED
    BY <1>1, <1>2

-----------------------------------------------------------------------------
(* The refinement. *)

\* At the start there is no file, no result, and every id is to be drawn.
LEMMA RefinementInit == Init => FS!FSInit
<1> SUFFICES ASSUME Init PROVE FS!FSInit
    OBVIOUS
<1>1. LiveFiles = {} /\ TrashFiles = {} /\ WithBytes = {}
    BY DEF Init, RepositoryInit, LiveFiles, TrashFiles, WithBytes, Live, Deleted, HasRow, NoRow
<1>2. FreshIds = UUID
    BY EnvironmentAssumption DEF Init, FreshIds, UUID
<1>3. Results = [k \in IdemKeys |-> NoID]
    BY DEF Init, RepositoryInit, Results, NoClaim
<1>4. QED
    BY <1>1, <1>2, <1>3 DEF FS!FSInit

\* Every step is a step of FileStore.
LEMMA RefinementNext ==
    ASSUME DurabilityHypothesis, TypeInv, TypeInv', DurabilityInv, IdempotencyInv, [Next]_vars
    PROVE  [FS!FSNext]_(FS!fsVars)
<1>1. ASSUME NEW r \in Requests, UploadRequest(r) PROVE FS!FSNext
    <2>1. CASE QuietRequestStep(r)
        BY <2>1, QuietRequestInvisible
    <2>2. CASE DrawKeys(r)
        BY <2>2, DrawInvisible
    <2>3. CASE StageObject(r)
        BY <2>3, StageInvisible DEF DurabilityInv
    <2>4. CASE CommitPlain(r) \/ CommitForKey(r)
        BY <2>4, CommitVisible
    <2>5. CASE CleanUp(r)
        BY <2>5, CleanUpInvisible DEF DurabilityInv
    <2>6. QED
        BY <1>1, <2>1, <2>2, <2>3, <2>4, <2>5 DEF UploadRequest, RequestStep, QuietRequestStep
<1>2. ASSUME NEW i \in UUID, DeleteFile(i) PROVE FS!FSNext
    BY <1>2, DeleteVisible
<1>3. ASSUME UNCHANGED <<serial, objects, files, idem, req>> PROVE FS!FSNext
    BY <1>3, SameFiles, SameIds, SameResults, InvisibleStep
<1>4. CASE Sweep
    <2>1. UNCHANGED <<serial, req>>
        BY <1>4 DEF Sweep
    <2>2. ASSUME NEW o \in GCOutcomes, SweepCall(o) PROVE FS!FSNext
        <3>1. CASE PurgeObject(o) \/ PurgeRow(o)
            BY <2>1, <3>1, PurgeVisible
        <3>2. CASE VisitObject(o) \/ ExpireKeys(o)
            BY <2>1, <3>2, ReclaimVisible
        <3>3. CASE ReadStorageKeys(o) \/ FetchPage(o)
            BY <1>3, <2>1, <3>3 DEF ReadStorageKeys, FetchPage
        <3>4. QED
            BY <2>2, <3>1, <3>2, <3>3 DEF SweepCall
    <2>3. CASE StartSweep \/ TakeCutoff
        BY <1>3, <2>1, <2>3 DEF StartSweep, TakeCutoff
    <2>4. QED
        BY <1>4, <2>2, <2>3 DEF Sweep, SweepStep
<1>5. CASE Tick
    BY <1>3, <1>5 DEF Tick
<1>6. CASE Crash
    <2>1. \A r \in Requests : ~HasKeys(r)'
        BY <1>6 DEF Crash, NoRequest, HasKeys
    <2>2. serial <= serial' /\ UNCHANGED <<objects, files, idem>>
        BY <1>6 DEF Crash, TypeInv, TypeOK
    <2>3. QED
        BY <2>1, <2>2, FreshShrinks, SameFiles, SameResults, InvisibleStep
<1>7. CASE UNCHANGED vars
    BY <1>3, <1>7 DEF vars
<1>8. QED
    BY <1>1, <1>2, <1>4, <1>5, <1>6, <1>7 DEF Next

\* Where the grace period covers an upload, no commit's answer is lost and no
\* upload outlives its claim, the service implements FileStore: an upload
\* takes effect at its commit or not at all, a file loses its bytes only after
\* a delete and its row only after its bytes, and a key's result is replaced
\* only after it expired.
THEOREM Refinement ==
    DurabilityHypothesis /\ ClaimOutlivesUpload => (Spec => ImplementsFileStore)
<1> SUFFICES ASSUME DurabilityHypothesis, ClaimOutlivesUpload
             PROVE  Spec => ImplementsFileStore
    OBVIOUS
<1>1. Spec => [](TypeInv /\ DurabilityInv)
    BY DurabilityInvariant
<1>2. Spec => [](TypeInv /\ IdempotencyInv)
    BY IdempotencyInvariant
<1>3. Init => FS!FSInit
    BY RefinementInit
<1>4. TypeInv /\ TypeInv' /\ DurabilityInv /\ IdempotencyInv /\ [Next]_vars
         => [FS!FSNext]_(FS!fsVars)
    BY RefinementNext
<1>5. QED
    BY <1>1, <1>2, <1>3, <1>4, PTL DEF Spec, ImplementsFileStore, FS!FSSpec

-----------------------------------------------------------------------------
(* Downloads.  An id and a storage key that a row has had belong to no     *)
(* upload any more, so that key is never written again: what a read found  *)
(* in the row stays true of the file until it is deleted.                  *)

Spent(i)    == i <= serial /\ \A r \in Requests : HasKeys(r) => req[r].id # i
SpentKey(k) == k <= serial /\ \A r \in Requests : HasKeys(r) => req[r].key # k

\* What a step of the service does to old ids, rows and objects.
OldIdsKept ==
    \A r \in Requests : HasKeys(r)' =>
        \/ req'[r].id > serial /\ req'[r].key > serial
        \/ HasKeys(r) /\ req'[r].id = req[r].id /\ req'[r].key = req[r].key
OldObjectsKept == \A k \in UUID : SpentKey(k) => objects'[k] \in {objects[k], NoObject}
RowsComeFromUploads ==
    \A i \in UUID : \/ HasRow(i)' => HasRow(i) /\ files'[i].key = files[i].key
                                               /\ (Live(i)' => Live(i))
                    \/ \E r \in Requests : HasKeys(r) /\ req[r].id = i

LEMMA UploadKeepsTheOld ==
    ASSUME TypeInv, NEW r \in Requests, UploadRequest(r)
    PROVE  OldIdsKept /\ OldObjectsKept /\ RowsComeFromUploads /\ serial <= serial'
<1> USE DEF TypeInv, TypeOK
<1>1. serial \in 0..MaxUUID /\ MaxUUID \in Nat
    BY EnvironmentAssumption
<1>2. NoNewKeys => OldIdsKept
    BY DEF NoNewKeys, OldIdsKept
<1>3. UNCHANGED files => RowsComeFromUploads
    BY DEF RowsComeFromUploads, HasRow, Live
<1>4. UNCHANGED objects => OldObjectsKept
    BY DEF OldObjectsKept
<1>5. CASE QuietRequestStep(r)
    BY <1>1, <1>2, <1>3, <1>4, <1>5, QuietRequestSteps
<1>d. CASE DrawKeys(r)
    <2>1. req[r].pc = "stage" /\ UNCHANGED <<files, objects>>
        BY <1>d DEF DrawKeys
    <2>2. CASE GiveUp(r) /\ UNCHANGED serial
        BY <1>1, <1>2, <1>3, <1>4, <2>1, <2>2, GivesUp DEF InFlight, Working
    <2>3. CASE /\ serial' = serial + 2
               /\ req' = [req EXCEPT ![r].pc = "put", ![r].id = serial + 1, ![r].key = serial + 2]
        <3>1. OldIdsKept
            BY <1>1, <2>3 DEF OldIdsKept, HasKeys, UploadTypeOK
        <3>2. QED
            BY <1>1, <1>3, <1>4, <2>1, <2>3, <3>1
    <2>4. QED
        BY <1>d, <2>2, <2>3 DEF DrawKeys
<1>6. CASE StageObject(r)
    <2>1. InFlight(r) /\ HasKeys(r) /\ UNCHANGED <<serial, files>>
        BY <1>6 DEF StageObject, InFlight, HasKeys, Working
    <2>2. \A k \in UUID : k # req[r].key => objects'[k] = objects[k]
        BY <1>6 DEF StageObject, Put, ObjectStoreTypeOK
    <2>3. OldObjectsKept
        BY <2>1, <2>2 DEF OldObjectsKept, SpentKey
    <2>4. NoNewKeys
        <3>1. CASE GiveUp(r)
            BY <2>1, <3>1, GivesUp
        <3>2. CASE Goto(r, "stat") \/ Goto(r, "commit")
            BY <2>1, <3>2 DEF Goto, NoNewKeys, HasKeys, UploadTypeOK
        <3>3. QED
            BY <1>6, <3>1, <3>2 DEF StageObject
    <2>5. QED
        BY <1>1, <1>2, <1>3, <2>1, <2>3, <2>4
<1>7. CASE CommitPlain(r) \/ CommitForKey(r)
    <2>1. InFlight(r) /\ HasKeys(r) /\ UNCHANGED <<serial, objects>>
        BY <1>7 DEF CommitPlain, CommitForKey, InFlight, HasKeys, Working
    <2>2. Answer(r, "created") \/ Goto(r, "cleanup")
        BY <1>7 DEF CommitPlain, CommitForKey
    <2>3. UNCHANGED files \/ files' = InsertFile(req[r].id, req[r].key)
        BY <1>7 DEF CommitPlain, Create, CommitForKey, CreateForKey
    <2>4. RowsComeFromUploads
        BY <1>3, <2>1, <2>3 DEF RowsComeFromUploads, InsertFile, HasRow, Live, RepositoryTypeOK
    <2>5. NoNewKeys
        BY <2>1, <2>2, Moves DEF Working
    <2>6. QED
        BY <1>1, <1>2, <1>4, <2>1, <2>4, <2>5
<1>8. CASE CleanUp(r)
    <2>1. InFlight(r) /\ GiveUp(r) /\ UNCHANGED <<serial, files>>
        BY <1>8 DEF CleanUp, InFlight, Working
    <2>2. OldObjectsKept
        BY <1>8 DEF CleanUp, Delete, OldObjectsKept, ObjectStoreTypeOK
    <2>3. QED
        BY <1>1, <1>2, <1>3, <2>1, <2>2, GivesUp
<1>9. QED
    BY <1>5, <1>d, <1>6, <1>7, <1>8 DEF UploadRequest, RequestStep, QuietRequestStep

LEMMA StepKeepsTheOld ==
    ASSUME TypeInv, [Next]_vars
    PROVE  OldIdsKept /\ OldObjectsKept /\ RowsComeFromUploads /\ serial <= serial'
<1> USE DEF TypeInv, TypeOK
<1>1. UNCHANGED serial => serial <= serial'
    OBVIOUS
<1>2. UNCHANGED req => OldIdsKept
    BY DEF OldIdsKept, HasKeys
<1>3. UNCHANGED files => RowsComeFromUploads
    BY DEF RowsComeFromUploads, HasRow, Live
<1>4. UNCHANGED objects => OldObjectsKept
    BY DEF OldObjectsKept
<1>5. ASSUME NEW i \in UUID, DeleteFile(i)
      PROVE  OldIdsKept /\ OldObjectsKept /\ RowsComeFromUploads /\ serial <= serial'
    <2>1. RowsComeFromUploads
        BY <1>5 DEF DeleteFile, SoftDelete, RowsComeFromUploads, HasRow, Live,
                    RepositoryTypeOK, Row, NoRow
    <2>2. QED
        BY <1>1, <1>2, <1>4, <1>5, <2>1 DEF DeleteFile
<1>6. CASE Sweep
    <2>1. UNCHANGED <<serial, req>>
        BY <1>6 DEF Sweep
    <2>2. RowsComeFromUploads
        <3>1. ASSUME NEW o, PurgeRow(o) PROVE RowsComeFromUploads
            BY <3>1 DEF PurgeRow, Purge, RowsComeFromUploads, HasRow, Live, NoRow, RepositoryTypeOK
        <3>2. QED
            BY <1>3, <1>6, <3>1 DEF Sweep, SweepStep, SweepCall, StartSweep, TakeCutoff, PurgeObject,
                   ReadStorageKeys, FetchPage, VisitObject, ExpireKeys, PurgeIdempotencyKeys
    <2>3. OldObjectsKept
        <3>1. ASSUME NEW k, NEW o, Delete(k, o) PROVE OldObjectsKept
            BY <3>1 DEF Delete, OldObjectsKept, ObjectStoreTypeOK
        <3>2. QED
            BY <1>4, <1>6, <3>1 DEF Sweep, SweepStep, SweepCall, StartSweep, TakeCutoff, PurgeObject,
                   PurgeRow, ReadStorageKeys, FetchPage, VisitObject, ExpireKeys
    <2>4. QED
        BY <1>1, <1>2, <2>1, <2>2, <2>3
<1>7. CASE Crash
    <2>1. OldIdsKept
        BY <1>7 DEF Crash, NoRequest, OldIdsKept, HasKeys
    <2>2. QED
        BY <1>1, <1>3, <1>4, <1>7, <2>1 DEF Crash
<1>8. CASE Tick \/ UNCHANGED vars
    BY <1>1, <1>2, <1>3, <1>4, <1>8 DEF Tick, vars
<1>9. QED
    BY <1>5, <1>6, <1>7, <1>8, UploadKeepsTheOld DEF Next

\* A spent id stays spent, its row only ever loses: it is deleted, then
\* purged, and does not come back; and a spent key that was emptied stays so.
LEMMA SpentStaysSpent ==
    ASSUME TypeInv, TypeInv', [Next]_vars, NEW i \in UUID, Spent(i)
    PROVE  /\ Spent(i)'
           /\ HasRow(i)' => HasRow(i) /\ files'[i].key = files[i].key
           /\ Live(i)' => Live(i)
<1>1. serial \in Nat /\ serial' \in Nat /\ i \in Nat
    BY EnvironmentAssumption DEF TypeInv, TypeOK, UUID
<1>2. OldIdsKept /\ RowsComeFromUploads /\ serial <= serial'
    BY StepKeepsTheOld
<1>3. Spent(i)'
    BY <1>1, <1>2 DEF Spent, OldIdsKept
<1>4. HasRow(i)' => HasRow(i) /\ files'[i].key = files[i].key /\ (Live(i)' => Live(i))
    BY <1>2 DEF Spent, RowsComeFromUploads
<1>5. Live(i)' => HasRow(i)'
    BY DEF Live, HasRow, NoRow
<1>6. QED
    BY <1>3, <1>4, <1>5

LEMMA EmptiedStaysEmpty ==
    ASSUME TypeInv, TypeInv', [Next]_vars, NEW k \in UUID, SpentKey(k)
    PROVE  SpentKey(k)' /\ (~Stored(k) => ~Stored(k)')
<1>1. OldIdsKept /\ OldObjectsKept /\ serial <= serial'
    BY StepKeepsTheOld
<1>2. serial \in Nat /\ serial' \in Nat /\ k \in Nat
    BY EnvironmentAssumption DEF TypeInv, TypeOK, UUID
<1>3. SpentKey(k)'
    BY <1>1, <1>2 DEF SpentKey, OldIdsKept
<1>4. ~Stored(k) => ~Stored(k)'
    BY <1>1 DEF OldObjectsKept, Stored, NoObject
<1>5. QED
    BY <1>3, <1>4

\* A status is never computed with: its set is named, and kept folded, so that
\* an update of the read is a matter of records alone.
StatusCodes == Nat

\* The inductive invariant of a read.  Where it is, what it has answered:
ReadPlaces == {"idle", "lookup", "open", "body", "copy", "url", "done"}

ReadTyped ==
    get \in [pc: ReadPlaces,
             mode: {"redirect", "stream", "range"}, id: UUID \cup {NoID}, key: UUID \cup {NoID},
             status: StatusCodes, failed: BOOLEAN, cut: BOOLEAN,
             bad: BOOLEAN, badHash: BOOLEAN, alarm: BOOLEAN]

ReadPath ==
    /\ get.pc \in {"idle", "lookup", "open"} => get.status = 0
    /\ get.pc = "url" => get.status = 302
    /\ get.pc \in {"body", "copy"} => get.status \in {200, 206}
    /\ get.pc # "done" => ~get.failed /\ ~get.cut

\* what is hashed is what was sent;
ReadHash ==
    /\ get.pc \notin {"copy", "done"} => ~get.bad /\ ~get.badHash
    /\ get.pc = "copy" => (get.bad <=> get.badHash)

\* and the key it found is the row's while there is one, and empty after.
ReadFile ==
    /\ get.pc # "idle" => get.id \in UUID /\ Spent(get.id)
    /\ get.pc \in {"open", "body", "copy", "url"} =>
          /\ get.key \in UUID /\ SpentKey(get.key)
          /\ HasRow(get.id) => files[get.id].key = get.key
          /\ ~HasRow(get.id) => ~Stored(get.key)

ReadInv ==
    /\ ReadTyped /\ ReadPath /\ ReadHash /\ ReadFile
    /\ LiveFileIsServed /\ DeleteIsNotAnError /\ StreamIsVerified

\* The service's own steps: only what the read knows of the file can change.
LEMMA ReadKeptByService ==
    ASSUME TypeInv, TypeInv', DurabilityInv, ReadInv, [Next]_vars, UNCHANGED get
    PROVE  ReadInv'
<1> USE DEF ReadInv
<1>1. ReadTyped' /\ ReadPath' /\ ReadHash' /\ DeleteIsNotAnError' /\ StreamIsVerified'
    BY DEF ReadTyped, ReadPath, ReadHash, DeleteIsNotAnError, StreamIsVerified
<1>2. ASSUME get.pc # "idle"
      PROVE  /\ get.id \in UUID /\ Spent(get.id)'
             /\ HasRow(get.id)' => HasRow(get.id) /\ files'[get.id].key = files[get.id].key
             /\ Live(get.id)' => Live(get.id)
    BY <1>2, SpentStaysSpent DEF ReadFile, Spent, HasRow, Live
<1>3. LiveFileIsServed'
    BY <1>2 DEF LiveFileIsServed
<1>4. ASSUME get.pc \in {"open", "body", "copy", "url"}
      PROVE  /\ get.key \in UUID /\ SpentKey(get.key)'
             /\ HasRow(get.id)' => files'[get.id].key = get.key
             /\ ~HasRow(get.id)' => ~Stored(get.key)'
    <2>1. get.key \in UUID /\ SpentKey(get.key) /\ get.id \in UUID
        BY <1>4 DEF ReadFile
    <2>2. SpentKey(get.key)'
        BY <2>1, EmptiedStaysEmpty DEF SpentKey
    <2>3. HasRow(get.id)' => files'[get.id].key = get.key
        BY <1>2, <1>4 DEF ReadFile
    <2>4. ASSUME ~HasRow(get.id)' PROVE ~Stored(get.key)'
        <3>1. CASE HasRow(get.id)
            BY <1>4, <2>1, <2>4, <3>1, PurgeOrderStep DEF ReadFile, HasRow, Stored
        <3>2. CASE ~HasRow(get.id)
            <4>1. ~Stored(get.key)
                BY <1>4, <3>2 DEF ReadFile
            <4>2. ASSUME NEW k \in UUID, k = get.key PROVE ~Stored(k)'
                BY <2>1, <4>1, <4>2, EmptiedStaysEmpty
            <4>3. QED
                BY <2>1, <4>2 DEF Stored
        <3>3. QED
            BY <3>1, <3>2
    <2>5. QED
        BY <2>1, <2>2, <2>3, <2>4
<1>5. ReadFile'
    BY <1>2, <1>4 DEF ReadFile, HasRow, Stored, Spent, SpentKey
<1>6. QED
    BY <1>1, <1>3, <1>5

\* What the fields of a read hold.
LEMMA GetFlags ==
    ASSUME ReadTyped
    PROVE  /\ get.pc \in ReadPlaces /\ get.key \in UUID \cup {NoID} /\ get.status \in StatusCodes
           /\ get.failed \in BOOLEAN /\ get.cut \in BOOLEAN /\ get.bad \in BOOLEAN
           /\ get.badHash \in BOOLEAN /\ get.alarm \in BOOLEAN
BY DEF ReadTyped

\* How a step updates the read: it finds the key, with a status or without one;
LEMMA ReadFinds ==
    ASSUME ReadTyped, NEW pc \in ReadPlaces, NEW key \in UUID \cup {NoID}, NEW status \in StatusCodes,
           get' = [get EXCEPT !.pc = pc, !.key = key, !.status = status]
    PROVE  /\ ReadTyped' /\ get'.pc = pc /\ get'.key = key /\ get'.status = status
           /\ get'.id = get.id /\ get'.failed = get.failed /\ get'.cut = get.cut
           /\ get'.bad = get.bad /\ get'.badHash = get.badHash
BY DEF ReadTyped

LEMMA ReadOpens ==
    ASSUME ReadTyped, NEW pc \in ReadPlaces, NEW key \in UUID \cup {NoID},
           get' = [get EXCEPT !.pc = pc, !.key = key]
    PROVE  /\ ReadTyped' /\ get'.pc = pc /\ get'.key = key /\ get'.status = get.status
           /\ get'.id = get.id /\ get'.failed = get.failed /\ get'.cut = get.cut
           /\ get'.bad = get.bad /\ get'.badHash = get.badHash
BY DEF ReadTyped

\* it answers with a status,
LEMMA ReadAnswers ==
    ASSUME ReadTyped, NEW pc \in ReadPlaces, NEW status \in StatusCodes,
           get' = [get EXCEPT !.pc = pc, !.status = status]
    PROVE  /\ ReadTyped' /\ get'.pc = pc /\ get'.key = get.key /\ get'.status = status
           /\ get'.id = get.id /\ get'.failed = get.failed /\ get'.cut = get.cut
           /\ get'.bad = get.bad /\ get'.badHash = get.badHash
BY DEF ReadTyped

\* or with an error;
LEMMA ReadFails ==
    ASSUME ReadTyped, NEW status \in StatusCodes,
           get' = [get EXCEPT !.pc = "done", !.status = status, !.failed = TRUE]
    PROVE  /\ ReadTyped' /\ get'.pc = "done" /\ get'.status = status /\ get'.failed
           /\ get'.cut = get.cut /\ get'.id = get.id
BY DEF ReadTyped, ReadPlaces

\* its body ends early;
LEMMA ReadBreaks ==
    ASSUME ReadTyped, NEW failed \in BOOLEAN,
           get' = [get EXCEPT !.pc = "done", !.cut = TRUE, !.failed = failed]
    PROVE  /\ ReadTyped' /\ get'.pc = "done" /\ get'.status = get.status /\ get'.failed = failed
           /\ get'.cut /\ get'.id = get.id
BY DEF ReadTyped, ReadPlaces

\* and what it copied and hashed.
LEMMA ReadCopies ==
    ASSUME ReadTyped, NEW pc \in ReadPlaces, NEW bad \in BOOLEAN, NEW badHash \in BOOLEAN,
           NEW alarm \in BOOLEAN,
           get' = [get EXCEPT !.pc = pc, !.bad = bad, !.badHash = badHash, !.alarm = alarm]
    PROVE  /\ ReadTyped' /\ get'.pc = pc /\ get'.bad = bad /\ get'.badHash = badHash
           /\ get'.alarm = alarm /\ get'.id = get.id /\ get'.key = get.key
           /\ get'.mode = get.mode /\ get'.status = get.status /\ get'.failed = get.failed
           /\ get'.cut = get.cut
BY DEF ReadTyped

\* A read's own steps change nothing but the read.  While the file is live
\* the object is where the row said, so nothing is found missing.
LEMMA ReadStepKeeps ==
    ASSUME TypeInv, DurabilityInv, ReadInv, ReadStep
    PROVE  ReadInv'
<1> USE DEF ReadInv
<1>0. /\ 0 \in StatusCodes /\ 200 \in StatusCodes /\ 206 \in StatusCodes /\ 302 \in StatusCodes
      /\ 404 \in StatusCodes /\ 416 \in StatusCodes /\ 500 \in StatusCodes
    BY DEF StatusCodes
<1>1. UNCHANGED <<vars, rotten>> /\ UNCHANGED <<serial, objects, files, req>>
    BY DEF ReadStep, vars
<1>2. ASSUME get.pc \in {"open", "body", "copy", "url"}, ~Stored(get.key)
      PROVE  ~Live(get.id)
    <2>1. Live(get.id) => HasRow(get.id) /\ Needed(files[get.id].key)
        BY <1>2 DEF ReadFile, Needed, Live, HasRow, NoRow
    <2>2. QED
        BY <1>2, <2>1 DEF ReadFile, DurabilityInv, NeededIsStored
<1>3. ASSUME NEW i \in UUID, HasRow(i)
      PROVE  Spent(i) /\ files[i].key \in UUID /\ SpentKey(files[i].key)
    BY <1>3 DEF Spent, SpentKey, DurabilityInv, KeysPrivate, RowsBelowSerial, UncommittedHasNoRow,
                HasRow, TypeInv, TypeOK, RepositoryTypeOK, Row
<1>4. ASSUME get'.id = get.id, get'.key = get.key,
             get'.pc # "idle" => get.pc # "idle",
             get'.pc \in {"open", "body", "copy", "url"} => get.pc \in {"open", "body", "copy", "url"}
      PROVE  ReadFile'
    BY <1>1, <1>4 DEF ReadFile, HasRow, Stored, Spent, SpentKey, HasKeys
<1>5. ASSUME get.pc = "lookup", Live(get.id), get'.id = get.id, get'.key = files[get.id].key,
             get'.pc # "idle"
      PROVE  ReadFile'
    <2>1. HasRow(get.id) /\ get.id \in UUID /\ Spent(get.id)
        BY <1>5 DEF ReadFile, Live, HasRow, NoRow
    <2>2. files[get.id].key \in UUID /\ SpentKey(files[get.id].key)
        BY <1>3, <2>1
    <2>3. QED
        BY <1>1, <1>5, <2>1, <2>2 DEF ReadFile, HasRow, Spent, SpentKey, HasKeys
\* A step after which the read goes on,
<1>6. ASSUME ReadTyped', get'.pc # "done", ReadPath', ReadHash', ReadFile' PROVE ReadInv'
    <2>1. ~get'.cut /\ get'.status # 500
        BY <1>6 DEF ReadTyped, ReadPlaces, ReadPath
    <2>2. LiveFileIsServed' /\ DeleteIsNotAnError' /\ StreamIsVerified'
        BY <1>6, <2>1 DEF LiveFileIsServed, DeleteIsNotAnError, StreamIsVerified
    <2>3. QED
        BY <1>6, <2>2
\* and one that ends it.
<1>7. ASSUME ReadTyped', get'.pc = "done", get.pc # "idle", get'.id = get.id,
             get'.status = 500 => get'.failed,
             ~get'.failed /\ (get'.status = 404 \/ get'.cut) => ~Live(get.id),
             get'.mode = "stream" /\ get'.status = 200 /\ ~get'.cut => get'.alarm = get'.bad
      PROVE  ReadInv'
    <2>1. ReadFile'
        BY <1>1, <1>7 DEF ReadFile, Spent, HasKeys
    <2>2. ReadPath' /\ ReadHash'
        BY <1>7 DEF ReadPath, ReadHash
    <2>3. LiveFileIsServed'
        BY <1>1, <1>7 DEF LiveFileIsServed, Live
    <2>4. DeleteIsNotAnError' /\ StreamIsVerified'
        BY <1>7 DEF DeleteIsNotAnError, StreamIsVerified
    <2>5. QED
        BY <1>7, <2>1, <2>2, <2>3, <2>4
<1>8. ASSUME Fails \/ Cut(TRUE), get.pc # "idle", get.pc # "done" PROVE ReadInv'
    <2>1. /\ ReadTyped' /\ get'.pc = "done" /\ get'.id = get.id /\ get'.failed
          /\ get'.status = 500 \/ get'.cut
        <3>1. CASE Fails
            <4>1. PICK s \in StatusCodes :
                    s = 500 /\ get' = [get EXCEPT !.pc = "done", !.status = s, !.failed = TRUE]
                BY <1>0, <3>1, Zenon DEF Fails
            <4>2. get' = [get EXCEPT !.pc = "done", !.status = s, !.failed = TRUE]
                BY <4>1, Zenon
            <4>3. ReadTyped' /\ get'.pc = "done" /\ get'.id = get.id /\ get'.failed /\ get'.status = s
                BY <4>2, ReadFails
            <4>4. QED
                BY <4>1, <4>3
        <3>2. CASE Cut(TRUE)
            BY <3>2, ReadBreaks DEF Cut
        <3>3. QED
            BY <1>8, <3>1, <3>2
    <2>2. QED
        BY <1>7, <1>8, <2>1
<1>9. ASSUME NEW status \in StatusCodes, Respond(status), get.pc \in {"lookup", "open"},
             status \in {404, 416}, status = 404 => ~Live(get.id)
      PROVE  ReadInv'
    <2>1. /\ ReadTyped' /\ get'.pc = "done" /\ get'.id = get.id /\ get'.status = status
          /\ get'.cut = get.cut /\ get'.failed = get.failed
        <3>1. "done" \in ReadPlaces
            BY DEF ReadPlaces
        <3>2. get' = [get EXCEPT !.pc = "done", !.status = status]
            BY <1>9, Zenon DEF Respond
        <3>3. QED
            BY <3>1, <3>2, ReadAnswers
    <2>2. ~get.cut
        BY <1>9 DEF ReadPath
    <2>3. QED
        BY <1>7, <1>9, <2>1, <2>2
<1>10. ASSUME NEW i \in UUID, NEW mode \in {"redirect", "stream", "range"}, BeginRead(i, mode)
      PROVE  ReadInv'
    <2>1. HasRow(i) /\ Spent(i)
        BY <1>3, <1>10 DEF BeginRead, HasRow
    <2>2. ReadTyped' /\ get'.pc = "lookup" /\ get'.id = i
        <3>1. get' = [get EXCEPT !.pc = "lookup", !.mode = mode, !.id = i]
            BY <1>10 DEF BeginRead
        <3>2. QED
            BY <3>1 DEF ReadTyped, ReadPlaces
    <2>3. ReadFile'
        BY <1>1, <2>1, <2>2 DEF ReadFile, Spent, HasKeys
    <2>4. ReadPath' /\ ReadHash'
        BY <1>10 DEF BeginRead, ReadPath, ReadHash
    <2>5. QED
        BY <1>6, <2>2, <2>3, <2>4
\* The lookup found the row: its key is noted.
<1>11. ASSUME get.pc = "lookup", Live(get.id),
              \/ get' = [get EXCEPT !.pc = "url", !.key = files[get.id].key, !.status = 302]
              \/ get' = [get EXCEPT !.pc = "open", !.key = files[get.id].key]
              \/ get' = [get EXCEPT !.pc = "body", !.key = files[get.id].key, !.status = 206]
       PROVE  ReadInv'
    <2>1. files[get.id].key \in UUID
        BY <1>3, <1>11 DEF ReadFile, Live, HasRow, NoRow
    <2>2. /\ "url" \in ReadPlaces /\ "open" \in ReadPlaces /\ "body" \in ReadPlaces
          /\ files[get.id].key \in UUID \cup {NoID}
        BY <2>1 DEF ReadPlaces
    <2>3. /\ ReadTyped' /\ get'.id = get.id /\ get'.key = files[get.id].key
          /\ get'.failed = get.failed /\ get'.cut = get.cut
          /\ get'.bad = get.bad /\ get'.badHash = get.badHash
          /\ \/ get'.pc = "url" /\ get'.status = 302
             \/ get'.pc = "open" /\ get'.status = get.status
             \/ get'.pc = "body" /\ get'.status = 206
        <3>1. CASE get' = [get EXCEPT !.pc = "url", !.key = files[get.id].key, !.status = 302]
            <4>1. PICK s \in StatusCodes :
                    /\ s = 302
                    /\ get' = [get EXCEPT !.pc = "url", !.key = files[get.id].key, !.status = s]
                BY <1>0, <3>1, Zenon
            <4>2. get' = [get EXCEPT !.pc = "url", !.key = files[get.id].key, !.status = s]
                BY <4>1, Zenon
            <4>3. /\ ReadTyped' /\ get'.id = get.id /\ get'.key = files[get.id].key
                  /\ get'.failed = get.failed /\ get'.cut = get.cut
                  /\ get'.bad = get.bad /\ get'.badHash = get.badHash
                  /\ get'.pc = "url" /\ get'.status = s
                BY <2>2, <4>2, ReadFinds
            <4>4. QED
                BY <4>1, <4>3
        <3>2. CASE get' = [get EXCEPT !.pc = "open", !.key = files[get.id].key]
            <4>1. /\ ReadTyped' /\ get'.id = get.id /\ get'.key = files[get.id].key
                  /\ get'.failed = get.failed /\ get'.cut = get.cut
                  /\ get'.bad = get.bad /\ get'.badHash = get.badHash
                  /\ get'.pc = "open" /\ get'.status = get.status
                BY ONLY ReadTyped, <2>2, <3>2, ReadOpens
            <4>2. QED
                BY <4>1
        <3>3. CASE get' = [get EXCEPT !.pc = "body", !.key = files[get.id].key, !.status = 206]
            <4>1. PICK s \in StatusCodes :
                    /\ s = 206
                    /\ get' = [get EXCEPT !.pc = "body", !.key = files[get.id].key, !.status = s]
                BY <1>0, <3>3, Zenon
            <4>2. get' = [get EXCEPT !.pc = "body", !.key = files[get.id].key, !.status = s]
                BY <4>1, Zenon
            <4>3. /\ ReadTyped' /\ get'.id = get.id /\ get'.key = files[get.id].key
                  /\ get'.failed = get.failed /\ get'.cut = get.cut
                  /\ get'.bad = get.bad /\ get'.badHash = get.badHash
                  /\ get'.pc = "body" /\ get'.status = s
                BY <2>2, <4>2, ReadFinds
            <4>4. QED
                BY <4>1, <4>3
        <3>4. QED
            BY <1>11, <3>1, <3>2, <3>3
    <2>4. ReadPath' /\ ReadHash'
        BY <1>11, <2>3 DEF ReadPath, ReadHash
    <2>5. ReadFile'
        BY <1>5, <1>11, <2>3
    <2>6. QED
        BY <1>6, <2>3, <2>4, <2>5
\* The read moves on with the key it has.
<1>12. ASSUME get'.id = get.id, get'.key = get.key, get'.pc # "done", get'.pc # "idle",
              get.pc # "idle", get.pc = get'.pc \/ get.pc \in {"open", "body"},
              ReadTyped', ReadPath', ReadHash'
       PROVE  ReadInv'
    <2>1. ReadFile'
        BY <1>4, <1>12
    <2>2. QED
        BY <1>6, <1>12, <2>1
<1>13. CASE LookupFile \/ LookupRange
    <2>1. get.pc = "lookup"
        BY <1>13 DEF LookupFile, LookupRange
    <2>2. ASSUME NEW mode \in {"redirect", "stream"}, get' = [get EXCEPT !.mode = mode]
          PROVE  ReadInv'
        <3>1. /\ ReadTyped' /\ get'.id = get.id /\ get'.key = get.key /\ get'.pc = get.pc
              /\ get'.status = get.status /\ get'.failed = get.failed /\ get'.cut = get.cut
              /\ get'.bad = get.bad /\ get'.badHash = get.badHash
            BY <2>2 DEF ReadTyped
        <3>2. ReadPath' /\ ReadHash'
            BY <3>1 DEF ReadPath, ReadHash
        <3>3. QED
            BY <1>12, <2>1, <3>1, <3>2
    <2>3. CASE \/ ~Live(get.id) /\ Respond(404)
               \/ Respond(416)
        BY <1>0, <1>9, <2>1, <2>3
    <2>4. CASE Fails
        BY <1>8, <2>1, <2>4
    <2>5. CASE LookupFile
        <3>1. \/ /\ Live(get.id)
                 /\ \/ get' = [get EXCEPT !.pc = "url", !.key = files[get.id].key, !.status = 302]
                    \/ get' = [get EXCEPT !.pc = "open", !.key = files[get.id].key]
              \/ ~Live(get.id) /\ Respond(404)
              \/ Fails
            BY <2>5, Zenon DEF LookupFile, NotFound
        <3>2. QED
            BY <1>11, <2>1, <2>3, <2>4, <3>1, Zenon
    <2>6. CASE LookupRange
        <3>1. \/ /\ Live(get.id)
                 /\ \/ \E mode \in {"redirect", "stream"} : get' = [get EXCEPT !.mode = mode]
                    \/ Respond(416)
                    \/ get' = [get EXCEPT !.pc = "body", !.key = files[get.id].key, !.status = 206]
              \/ ~Live(get.id) /\ Respond(404)
              \/ Fails
            BY <2>6, Zenon DEF LookupRange, NotFound
        <3>2. QED
            BY <1>11, <2>1, <2>2, <2>3, <2>4, <3>1, Zenon
    <2>7. QED
        BY <1>13, <2>5, <2>6
<1>14. CASE OpenObject
    <2>1. get.pc = "open"
        BY <1>14 DEF OpenObject
    <2>2. CASE get' = [get EXCEPT !.pc = "body", !.status = 200]
        <3>1. "body" \in ReadPlaces
            BY DEF ReadPlaces
        <3>2. /\ ReadTyped' /\ get'.id = get.id /\ get'.key = get.key /\ get'.pc = "body"
              /\ get'.status = 200 /\ get'.failed = get.failed /\ get'.cut = get.cut
              /\ get'.bad = get.bad /\ get'.badHash = get.badHash
            <4>1. PICK s \in StatusCodes : s = 200 /\ get' = [get EXCEPT !.pc = "body", !.status = s]
                BY <1>0, <2>2, Zenon
            <4>2. get' = [get EXCEPT !.pc = "body", !.status = s]
                BY <4>1, Zenon
            <4>3. /\ ReadTyped' /\ get'.id = get.id /\ get'.key = get.key /\ get'.pc = "body"
                  /\ get'.status = s /\ get'.failed = get.failed /\ get'.cut = get.cut
                  /\ get'.bad = get.bad /\ get'.badHash = get.badHash
                BY <3>1, <4>2, ReadAnswers
            <4>4. QED
                BY <4>1, <4>3
        <3>3. ReadPath' /\ ReadHash'
            BY <2>1, <3>2 DEF ReadPath, ReadHash
        <3>4. QED
            BY <1>12, <2>1, <3>2, <3>3
    <2>3. CASE ~Stored(get.key) /\ Respond(404)
        BY <1>0, <1>2, <1>9, <2>1, <2>3
    <2>4. QED
        BY <1>8, <1>14, <2>1, <2>2, <2>3 DEF OpenObject, NotFound
<1>15. ASSUME get.pc = "body", ~Stored(get.key), Cut(get.failed) PROVE ReadInv'
    <2>1. /\ ReadTyped' /\ get'.pc = "done" /\ get'.id = get.id /\ get'.cut
          /\ get'.status = get.status
        BY <1>15, GetFlags, ReadBreaks DEF Cut
    <2>2. get.status \in {200, 206}
        BY <1>15 DEF ReadPath
    <2>3. QED
        BY <1>2, <1>7, <1>15, <2>1, <2>2
<1>16. CASE FirstRead
    <2>1. get.pc = "body"
        BY <1>16 DEF FirstRead
    <2>2. CASE get' = [get EXCEPT !.pc = "copy"]
        <3>1. /\ ReadTyped' /\ get'.id = get.id /\ get'.key = get.key /\ get'.pc = "copy"
              /\ get'.status = get.status /\ get'.failed = get.failed /\ get'.cut = get.cut
              /\ get'.bad = get.bad /\ get'.badHash = get.badHash
            BY <2>2 DEF ReadTyped, ReadPlaces
        <3>2. ReadPath' /\ ReadHash'
            BY <2>1, <3>1 DEF ReadPath, ReadHash
        <3>3. QED
            BY <1>12, <2>1, <3>1, <3>2
    <2>3. QED
        BY <1>8, <1>15, <1>16, <2>1, <2>2 DEF FirstRead
<1>17. ASSUME get.pc = "copy", NEW eof \in BOOLEAN, NEW bad \in BOOLEAN,
              get' = [get EXCEPT !.pc = IF eof THEN "done" ELSE "copy",
                         !.bad = @ \/ bad, !.badHash = @ \/ bad,
                         !.alarm = eof /\ get.mode = "stream" /\ (get.badHash \/ bad)]
       PROVE  ReadInv'
    <2>1. /\ ReadTyped' /\ get'.id = get.id /\ get'.key = get.key /\ get'.mode = get.mode
          /\ get'.status = get.status /\ get'.failed = get.failed /\ get'.cut = get.cut
          /\ get'.pc = IF eof THEN "done" ELSE "copy"
          /\ get'.bad = (get.bad \/ bad) /\ get'.badHash = (get.badHash \/ bad)
          /\ get'.alarm = (eof /\ get.mode = "stream" /\ (get.badHash \/ bad))
        <3>1. (IF eof THEN "done" ELSE "copy") \in ReadPlaces
            BY DEF ReadPlaces
        <3>2. /\ (get.bad \/ bad) \in BOOLEAN /\ (get.badHash \/ bad) \in BOOLEAN
              /\ (eof /\ get.mode = "stream" /\ (get.badHash \/ bad)) \in BOOLEAN
            OBVIOUS
        <3>3. PICK p \in ReadPlaces, b \in BOOLEAN, h \in BOOLEAN, a \in BOOLEAN :
                 /\ p = (IF eof THEN "done" ELSE "copy")
                 /\ b = (get.bad \/ bad) /\ h = (get.badHash \/ bad)
                 /\ a = (eof /\ get.mode = "stream" /\ (get.badHash \/ bad))
            BY <3>1, <3>2, Zenon
        <3>4. get' = [get EXCEPT !.pc = p, !.bad = b, !.badHash = h, !.alarm = a]
            BY <1>17, <3>3, Zenon
        <3>5. /\ ReadTyped' /\ get'.id = get.id /\ get'.key = get.key /\ get'.mode = get.mode
              /\ get'.status = get.status /\ get'.failed = get.failed /\ get'.cut = get.cut
              /\ get'.pc = p /\ get'.bad = b /\ get'.badHash = h /\ get'.alarm = a
            BY <3>4, ReadCopies
        <3>6. QED
            BY <3>3, <3>5, Zenon
    <2>2. get.status \in {200, 206} /\ ~get.failed /\ ~get.cut /\ (get.bad <=> get.badHash)
        BY <1>17 DEF ReadPath, ReadHash
    <2>3. /\ get'.bad <=> get'.badHash
          /\ eof /\ get.mode = "stream" => get'.alarm = get'.bad
        BY <2>1, <2>2, Zenon
    <2>4. CASE eof
        <3>1. get'.mode = "stream" => get'.alarm = get'.bad
            BY <2>1, <2>3, <2>4
        <3>2. QED
            BY <1>7, <1>17, <2>1, <2>2, <2>4, <3>1
    <2>5. CASE ~eof
        <3>1. ReadFile'
            BY <1>4, <1>17, <2>1, <2>5
        <3>2. ReadPath' /\ ReadHash'
            BY <2>1, <2>2, <2>3, <2>5 DEF ReadPath, ReadHash
        <3>3. QED
            BY <1>6, <2>1, <2>5, <3>1, <3>2
    <2>6. QED
        BY <2>4, <2>5
<1>18. CASE CopyBytes
    <2>1. get.pc = "copy"
        BY <1>18 DEF CopyBytes
    <2>2. CASE Cut(TRUE)
        BY <1>8, <2>1, <2>2
    <2>3. CASE ~Cut(TRUE)
        <3>1. PICK eof \in BOOLEAN, some \in BOOLEAN :
                 get' = [get EXCEPT !.pc = IF eof THEN "done" ELSE "copy",
                            !.bad = @ \/ (some /\ get.key \in rotten),
                            !.badHash = @ \/ (some /\ get.key \in rotten),
                            !.alarm = eof /\ get.mode = "stream"
                                          /\ (get.badHash \/ (some /\ get.key \in rotten))]
            BY <1>18, <2>3 DEF CopyBytes, Verify
        <3>2. (some /\ get.key \in rotten) \in BOOLEAN
            OBVIOUS
        <3>3. QED
            BY <1>17, <2>1, <3>1, <3>2
    <2>4. QED
        BY <2>2, <2>3
<1>19. CASE FollowURL
    <2>1. get.pc = "url" /\ get.status = 302 /\ ~get.failed /\ ~get.cut
        BY <1>19 DEF FollowURL, ReadPath
    <2>2. /\ ReadTyped' /\ get'.pc = "done" /\ get'.id = get.id /\ get'.status = 302
          /\ get'.cut => ~Stored(get.key)
        <3>1. CASE get' = [get EXCEPT !.pc = "done", !.bad = get.key \in rotten]
            <4>1. (get.key \in rotten) \in BOOLEAN
                OBVIOUS
            <4>2. QED
                BY <2>1, <3>1, <4>1 DEF ReadTyped, ReadPlaces
        <3>2. CASE ~Stored(get.key) /\ get' = [get EXCEPT !.pc = "done", !.cut = TRUE]
            BY <2>1, <3>2 DEF ReadTyped, ReadPlaces
        <3>3. QED
            BY <1>19, <3>1, <3>2 DEF FollowURL
    <2>3. QED
        BY <1>2, <1>7, <2>1, <2>2
<1>20. QED
    BY <1>10, <1>13, <1>14, <1>16, <1>18, <1>19 DEF ReadStep

LEMMA ReadInit == DownloadInit => ReadInv
<1> SUFFICES ASSUME DownloadInit PROVE ReadInv
    OBVIOUS
<1>1. get = NoRead /\ 0 \in StatusCodes
    BY DEF DownloadInit, StatusCodes
<1>2. ReadTyped
    BY <1>1 DEF ReadTyped, ReadPlaces, NoRead
<1>3. get.pc = "idle" /\ get.status = 0 /\ ~get.failed /\ ~get.cut /\ ~get.bad /\ ~get.badHash
    BY <1>1 DEF NoRead
<1>4. ReadPath /\ ReadHash /\ ReadFile
    BY <1>3 DEF ReadPath, ReadHash, ReadFile
<1>5. LiveFileIsServed /\ DeleteIsNotAnError /\ StreamIsVerified
    BY <1>3 DEF LiveFileIsServed, DeleteIsNotAnError, StreamIsVerified
<1>6. QED
    BY <1>2, <1>4, <1>5 DEF ReadInv

\* Seen from the service, a read and the decay of bytes are stuttering.
LEMMA ReadsDisturbNothing == [DownloadNext]_allVars => [Next]_vars
    BY DEF DownloadNext, ReadStep, Rot, allVars

LEMMA ReadNext ==
    ASSUME TypeInv, TypeInv', DurabilityInv, ReadInv, [DownloadNext]_allVars
    PROVE  ReadInv'
<1>1. CASE ReadStep
    BY <1>1, ReadStepKeeps
<1>2. CASE ~ReadStep
    <2>1. UNCHANGED get
        BY <1>2 DEF DownloadNext, Rot, allVars
    <2>2. QED
        BY <2>1, ReadsDisturbNothing, ReadKeptByService
<1>3. QED
    BY <1>1, <1>2

LEMMA ReadInvariant == DurabilityHypothesis => (DownloadSpec => []ReadInv)
<1> SUFFICES ASSUME DurabilityHypothesis PROVE DownloadSpec => []ReadInv
    OBVIOUS
<1>1. DownloadInit => Init
    BY DEF DownloadInit
<1>2. [DownloadNext]_allVars => [Next]_vars
    BY ReadsDisturbNothing
<1>3. DownloadSpec => Spec
    BY <1>1, <1>2, PTL DEF DownloadSpec, Spec
<1>4. Spec => [](TypeInv /\ DurabilityInv)
    BY DurabilityInvariant
<1>5. DownloadInit => ReadInv
    BY ReadInit
<1>6. TypeInv /\ TypeInv' /\ DurabilityInv /\ ReadInv /\ [DownloadNext]_allVars => ReadInv'
    BY ReadNext
<1>7. QED
    BY <1>3, <1>4, <1>5, <1>6, PTL DEF DownloadSpec

\* Under DurabilityHypothesis a download finds no row, no object or a body cut
\* short, without one of its own calls having failed, only when its file was
\* deleted meanwhile: no sweep and no failed upload takes a live file away
\* between Metadata, Get and the reads of the body.
THEOREM LiveFilesAreServed == DurabilityHypothesis => (DownloadSpec => []LiveFileIsServed)
<1>1. ReadInv => LiveFileIsServed
    BY DEF ReadInv
<1>2. QED
    BY <1>1, ReadInvariant, PTL

\* Under DurabilityHypothesis translateNotFound leaves 500 to failed calls: a
\* download that races a delete or a purge is not answered with it.
THEOREM DeletesAreNoErrors == DurabilityHypothesis => (DownloadSpec => []DeleteIsNotAnError)
<1>1. ReadInv => DeleteIsNotAnError
    BY DEF ReadInv
<1>2. QED
    BY <1>1, ReadInvariant, PTL

\* Under DurabilityHypothesis verifyingReader raises the alarm for exactly the
\* complete streams that carried a wrong byte, whenever the bytes decayed.
THEOREM StreamsAreVerified == DurabilityHypothesis => (DownloadSpec => []StreamIsVerified)
<1>1. ReadInv => StreamIsVerified
    BY DEF ReadInv
<1>2. QED
    BY <1>1, ReadInvariant, PTL

\* Under DurabilityHypothesis neither a presigned URL nor a request that has
\* read the file's row opens the object once a sweep has purged that row.
THEOREM PurgedFilesAreNotOpened ==
    DurabilityHypothesis => (DownloadSpec => PurgedIsNotOpened)
<1> DEFINE Opened == \/ get.pc = "open" /\ get'.pc = "body"
                     \/ get.pc = "body" /\ get'.pc = "copy"
                     \/ get.pc = "url" /\ get'.pc = "done" /\ ~get'.cut
<1>1. ASSUME ReadInv, [DownloadNext]_allVars, Opened PROVE files[get.id] # NoRow
    <2>1. ASSUME get' = get PROVE FALSE
        BY <1>1, <2>1
    <2>2. ReadStep
        BY <1>1, <2>1 DEF DownloadNext, Rot, allVars
    <2>3. ASSUME get.pc \in {"open", "body", "url"}, Stored(get.key) PROVE files[get.id] # NoRow
        BY <1>1, <2>3 DEF ReadInv, ReadFile, HasRow
    <2>4. ASSUME NEW status, Cut(status) \/ Respond(status) \/ Fails PROVE get'.pc = "done"
        BY <1>1, <2>4 DEF Cut, Respond, Fails, ReadInv, ReadTyped
    <2>5. CASE get.pc = "open" /\ get'.pc = "body"
        <3>1. OpenObject
            BY <2>2, <2>5 DEF ReadStep, BeginRead, LookupFile, LookupRange, FirstRead,
                              CopyBytes, FollowURL
        <3>2. QED
            BY <2>3, <2>4, <2>5, <3>1 DEF OpenObject
    <2>6. CASE get.pc = "body" /\ get'.pc = "copy"
        <3>1. FirstRead
            BY <2>2, <2>6 DEF ReadStep, BeginRead, LookupFile, LookupRange, OpenObject,
                              CopyBytes, FollowURL
        <3>2. QED
            BY <2>3, <2>4, <2>6, <3>1 DEF FirstRead
    <2>7. CASE get.pc = "url" /\ get'.pc = "done" /\ ~get'.cut
        <3>1. FollowURL
            BY <2>2, <2>7 DEF ReadStep, BeginRead, LookupFile, LookupRange, OpenObject,
                              CopyBytes, FirstRead
        <3>2. CASE Stored(get.key)
            BY <2>3, <2>7, <3>2
        <3>3. CASE ~Stored(get.key)
            BY <1>1, <2>7, <3>1, <3>3 DEF FollowURL, ReadInv, ReadTyped
        <3>4. QED
            BY <3>2, <3>3
    <2>8. QED
        BY <1>1, <2>5, <2>6, <2>7
<1>2. ReadInv /\ [DownloadNext]_allVars => [Opened => files[get.id] # NoRow]_allVars
    BY <1>1
<1>3. QED
    BY <1>2, ReadInvariant, PTL DEF DownloadSpec, PurgedIsNotOpened
=============================================================================
