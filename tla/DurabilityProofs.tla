------------------------- MODULE DurabilityProofs --------------------------
(***************************************************************************)
(* No file a client can still read loses its object, for every value of    *)
(* the constants under which the grace period covers an upload.            *)
(*                                                                         *)
(* A step is judged by what it does to the keys somebody needs.  All but a *)
(* successful write leave the set of needed keys as it is or smaller, and  *)
(* the steps that delete an object delete one nobody needs.                *)
(***************************************************************************)
EXTENDS TypeProofs, FiniteSetTheorems, WellFoundedInduction

\* What the theorems assume of the configuration and of the environment.
DurabilityHypothesis == GraceCoversUpload /\ "lostCommit" \notin Faults

-----------------------------------------------------------------------------
(* What most steps do not do. *)

NoNewRows == \A i \in UUID : HasRow(i)' => HasRow(i) /\ files'[i].key = files[i].key

NoNewKeys ==
    \A r \in Requests : HasKeys(r)' => HasKeys(r) /\ req'[r].id = req[r].id
                                                  /\ req'[r].key = req[r].key

NoNewStaged ==
    \A r \in Requests : Staged(r)' => Staged(r) /\ req'[r].key = req[r].key
                                                /\ req'[r].start = req[r].start

NoNewNeed == \A k \in UUID : Needed(k)' => Needed(k)

NeededObjectsKept == \A k \in UUID : Needed(k) => objects'[k] = objects[k]

DeletedKept ==
    \A i \in UUID : Deleted(i) =>
        Deleted(i)' /\ files'[i].key = files[i].key
                    /\ (~Stored(files[i].key) => ~Stored(files[i].key)')

\* No row and no request gets a key: keys stay private.
LEMMA KeysStayPrivate ==
    ASSUME TypeInv, TypeInv', KeysPrivate, NoNewRows, NoNewKeys, serial <= serial'
    PROVE  KeysPrivate'
<1> USE DEF KeysPrivate
<1>1. serial \in Nat /\ serial' \in Nat
    BY EnvironmentAssumption DEF TypeInv, TypeOK
<1>2. \A i \in UUID : i \in Nat /\ (HasRow(i) => files[i].key \in Nat)
    BY EnvironmentAssumption DEF UUID, HasRow, TypeInv, TypeOK, RepositoryTypeOK, Row
<1>3. RowsBelowSerial'
    BY <1>1, <1>2 DEF RowsBelowSerial, NoNewRows
<1>4. RequestsBelowSerial'
    BY <1>1 DEF RequestsBelowSerial, NoNewKeys
<1>5. RowKeysUnique'
    BY DEF RowKeysUnique, NoNewRows
<1>6. RequestKeysUnique' /\ IdsUnique'
    BY DEF RequestKeysUnique, IdsUnique, NoNewKeys
<1>7. UncommittedHasNoRow'
    <2> SUFFICES ASSUME NEW r \in Requests, HasKeys(r)'
                 PROVE  /\ ~HasRow(req[r].id)'
                        /\ \A j \in UUID : HasRow(j)' => files'[j].key # req'[r].key
        BY DEF UncommittedHasNoRow
    <2>1. HasKeys(r) /\ req'[r].id = req[r].id /\ req'[r].key = req[r].key
        BY DEF NoNewKeys
    <2>2. req[r].id \in UUID
        BY <2>1 DEF TypeInv, StagedTyped
    <2>3. ~HasRow(req[r].id)'
        BY <2>1, <2>2 DEF UncommittedHasNoRow, NoNewRows, HasRow
    <2>4. QED
        BY <2>1, <2>3 DEF UncommittedHasNoRow, NoNewRows
<1>8. QED
    BY <1>3, <1>4, <1>5, <1>6, <1>7

\* A step that takes no time, moves no sweep, makes no key needed and
\* touches no needed object keeps the rest of the invariant.
LEMMA QuietStep ==
    ASSUME TypeInv, TypeInv', DurabilityInv, KeysPrivate',
           NoNewStaged, StartsKept, NoNewNeed, NeededObjectsKept, DeletedKept,
           now' = now, gc' = gc
    PROVE  DurabilityInv'
<1> USE DEF DurabilityInv
<1>1. RequestsInTime'
    BY UploadAssumption DEF RequestsInTime, StartsKept, InFlight, TypeInv, TypeOK
<1>2. NeededIsStored'
    BY DEF NeededIsStored, NoNewNeed, NeededObjectsKept, Stored
<1>3. StagedIsRecent'
    <2> SUFFICES ASSUME NEW r \in Requests, Staged(r)'
                 PROVE  objects'[req'[r].key].modified >= req'[r].start - MaxSkew
        BY DEF StagedIsRecent
    <2>1. Staged(r) /\ req'[r].key = req[r].key /\ req'[r].start = req[r].start
        BY DEF NoNewStaged
    <2>2. req[r].key \in UUID /\ Needed(req[r].key)
        BY <2>1 DEF TypeInv, StagedTyped, HasKeys, Staged, Needed
    <2>3. QED
        BY <2>1, <2>2 DEF StagedIsRecent, NeededObjectsKept
<1>4. BatchDeleted' /\ RowBeingPurged'
    BY DEF BatchDeleted, RowBeingPurged, DeletedKept, Stored, TypeInv, TypeOK, CollectorTypeOK
<1>5. UnseenIsRecent' /\ UnseenIsTooNew'
    BY DEF UnseenIsRecent, UnseenIsTooNew, NoNewNeed, NeededObjectsKept
<1>6. QED
    BY <1>1, <1>2, <1>3, <1>4, <1>5

-----------------------------------------------------------------------------
(* Requests. *)

\* No live row, no staged request: nothing newly needed.
LEMMA NeedShrinks ==
    ASSUME NoNewStaged,
           \A i \in UUID : Live(i)' => Live(i) /\ files'[i].key = files[i].key
    PROVE  NoNewNeed
BY DEF NoNewNeed, NoNewStaged, Needed

\* Answering, or moving on without a new pair of UUIDs.
LEMMA Moves ==
    ASSUME TypeInv, NEW r \in Requests, InFlight(r), NEW pc \in Working, NEW rep,
           \/ Answer(r, rep)
           \/ /\ Goto(r, pc)
              /\ pc \in {"stat", "commit"} => Staged(r)
              /\ pc \in {"put", "cleanup"} => HasKeys(r)
    PROVE  NoNewKeys /\ NoNewStaged /\ StartsKept
<1> USE DEF TypeInv, TypeOK, UploadTypeOK
<1>1. CASE Answer(r, rep)
    BY <1>1 DEF Answer, NoNewKeys, NoNewStaged, StartsKept, HasKeys, Staged, InFlight,
                NoRequest, Working
<1>2. CASE /\ Goto(r, pc)
           /\ pc \in {"stat", "commit"} => Staged(r)
           /\ pc \in {"put", "cleanup"} => HasKeys(r)
    BY <1>2 DEF Goto, NoNewKeys, NoNewStaged, StartsKept, HasKeys, Staged, InFlight
<1>3. QED
    BY <1>1, <1>2

\* GiveUp either answers or goes on to the release: it stages nothing.
LEMMA GivesUp ==
    ASSUME TypeInv, NEW r \in Requests, InFlight(r), GiveUp(r)
    PROVE  NoNewKeys /\ NoNewStaged /\ StartsKept
BY Moves DEF GiveUp, Working

\* A request step that leaves the store and the files table alone.
LEMMA QuietRequest ==
    ASSUME TypeInv, TypeInv', DurabilityInv,
           NoNewKeys, NoNewStaged, StartsKept, UNCHANGED <<now, serial, objects, files, gc>>
    PROVE  DurabilityInv'
<1>1. NoNewNeed
    BY NeedShrinks DEF Live
<1>2. NoNewRows /\ NeededObjectsKept /\ DeletedKept
    BY DEF NoNewRows, NeededObjectsKept, DeletedKept, HasRow, Deleted, Stored
<1>3. serial <= serial'
    BY DEF TypeInv, TypeOK
<1>4. KeysPrivate'
    BY <1>2, <1>3, KeysStayPrivate DEF DurabilityInv
<1>5. QED
    BY <1>1, <1>2, <1>4, QuietStep

\* Keys above serial are nobody's.
LEMMA NewKeyIsFree ==
    ASSUME TypeInv, KeysPrivate, NEW k \in UUID, k > serial
    PROVE  /\ ~Needed(k)
           /\ \A i \in UUID : HasRow(i) => i # k /\ files[i].key # k
<1>1. serial \in Nat /\ k \in Nat
    BY EnvironmentAssumption DEF TypeInv, TypeOK, UUID
<1>2. \A i \in UUID : HasRow(i) => i # k /\ files[i].key # k
    BY <1>1 DEF KeysPrivate, RowsBelowSerial
<1>3. \A r \in Requests : Staged(r) => req[r].key # k
    BY <1>1 DEF KeysPrivate, RequestsBelowSerial, Staged, HasKeys
<1>4. QED
    BY <1>2, <1>3 DEF Needed, Live, HasRow, NoRow

\* The steps of a request that change neither the store nor a row.
QuietRequestStep(r) ==
    \/ \E k \in IdemKeys \cup {NoKey} : Begin(r, k)
    \/ ClientGone(r) \/ ClaimKey(r) \/ ReadKey(r) \/ Replay(r)
    \/ StatObject(r) \/ ReleaseKey(r)

LEMMA QuietRequestSteps ==
    ASSUME TypeInv, NEW r \in Requests, QuietRequestStep(r)
    PROVE  /\ NoNewKeys /\ NoNewStaged /\ StartsKept
           /\ UNCHANGED <<serial, objects, files>>
<1> USE DEF TypeInv, TypeOK, UploadTypeOK
<1>1. ASSUME NEW k \in IdemKeys \cup {NoKey}, Begin(r, k)
      PROVE  /\ NoNewKeys /\ NoNewStaged /\ StartsKept
             /\ UNCHANGED <<serial, objects, files>>
    BY <1>1 DEF Begin, NoRequest, NoNewKeys, NoNewStaged, StartsKept, HasKeys, Staged, InFlight
<1>2. CASE ClientGone(r)
    BY <1>2 DEF ClientGone, NoNewKeys, NoNewStaged, StartsKept, HasKeys, Staged, InFlight
<1>3. CASE ClaimKey(r)
    <2>1. InFlight(r) /\ UNCHANGED <<serial, objects, files>>
        BY <1>3 DEF ClaimKey, InsertClaim, InFlight, Working
    <2>2. Goto(r, "stage") \/ Goto(r, "readKey") \/ Answer(r, "error")
        BY <1>3 DEF ClaimKey
    <2>3. QED
        BY <2>1, <2>2, Moves DEF Working
<1>4. CASE ReadKey(r)
    <2>1. InFlight(r) /\ UNCHANGED <<serial, objects, files>>
        BY <1>4 DEF ReadKey, InFlight, Working
    <2>2. \/ Answer(r, "conflict") \/ Answer(r, "error")
          \/ req' = [req EXCEPT ![r].pc = "replay", ![r].id = idem[req[r].ikey].file]
        BY <1>4 DEF ReadKey
    <2>3. CASE req' = [req EXCEPT ![r].pc = "replay", ![r].id = idem[req[r].ikey].file]
        BY <2>1, <2>3 DEF NoNewKeys, NoNewStaged, StartsKept, HasKeys, Staged, InFlight
    <2>4. QED
        BY <2>1, <2>2, <2>3, Moves DEF Working
<1>5. CASE Replay(r)
    <2>1. InFlight(r) /\ UNCHANGED <<serial, objects, files>>
        BY <1>5 DEF Replay, InFlight, Working
    <2>2. Answer(r, "replayed") \/ Answer(r, "resultGone") \/ Answer(r, "error")
        BY <1>5 DEF Replay
    <2>3. QED
        BY <2>1, <2>2, Moves DEF Working
<1>6. CASE StatObject(r)
    <2>1. InFlight(r) /\ Staged(r) /\ HasKeys(r) /\ UNCHANGED <<serial, objects, files>>
        BY <1>6 DEF StatObject, InFlight, Staged, HasKeys, Working
    <2>2. Goto(r, "commit") \/ Goto(r, "cleanup")
        BY <1>6 DEF StatObject
    <2>3. QED
        BY <2>1, <2>2, Moves DEF Working
<1>7. CASE ReleaseKey(r)
    <2>1. InFlight(r) /\ UNCHANGED <<serial, objects, files>>
        BY <1>7 DEF ReleaseKey, ReleaseClaim, InFlight, Working
    <2>2. QED
        BY <1>7, <2>1, Moves DEF ReleaseKey, Working
<1>8. QED
    BY <1>1, <1>2, <1>3, <1>4, <1>5, <1>6, <1>7 DEF QuietRequestStep

LEMMA DurabilityQuietRequests ==
    ASSUME TypeInv, TypeInv', DurabilityInv, NEW r \in Requests, UNCHANGED <<now, gc>>,
           QuietRequestStep(r)
    PROVE  DurabilityInv'
BY QuietRequestSteps, QuietRequest

\* Drawing a pair of UUIDs gives the request an id and a key nobody has.
LEMMA DurabilityDraw ==
    ASSUME TypeInv, TypeInv', DurabilityInv, NEW r \in Requests,
           UNCHANGED <<now, gc>>, DrawKeys(r)
    PROVE  DurabilityInv'
<1> DEFINE id == serial + 1
           key == serial + 2
<1>1. req[r].pc = "stage" /\ UNCHANGED <<objects, files>>
    BY DEF DrawKeys
<1>2. InFlight(r) /\ ~HasKeys(r) /\ ~Staged(r)
    BY <1>1 DEF InFlight, HasKeys, Staged, Working
<1>3. CASE GiveUp(r) /\ UNCHANGED serial
    BY <1>1, <1>2, <1>3, GivesUp, QuietRequest
<1>4. CASE /\ key <= MaxUUID /\ serial' = key
           /\ req' = [req EXCEPT ![r].pc = "put", ![r].id = id, ![r].key = key]
    <2>1. /\ serial \in Nat /\ serial' \in Nat /\ id \in UUID /\ key \in UUID /\ key > serial /\ id > serial
          /\ serial <= serial' /\ id <= serial' /\ id # key
        <3>1. serial \in 0..MaxUUID /\ MaxUUID \in Nat
            BY EnvironmentAssumption DEF TypeInv, TypeOK
        <3>2. QED
            BY <1>4, <3>1 DEF UUID
    <2>2. /\ ~HasRow(id)
          /\ \A i \in UUID : HasRow(i) => files[i].key # key
        BY <2>1, NewKeyIsFree DEF DurabilityInv
    <2>3. serial' = key
        BY <1>4
    <2> HIDE DEF id, key
    <2>4. /\ req'[r].pc = "put" /\ req'[r].id = id /\ req'[r].key = key
          /\ req'[r].start = req[r].start
          /\ \A s \in Requests : s # r => req'[s] = req[s]
        BY <1>4 DEF TypeInv, TypeOK, UploadTypeOK
    <2>5. \A s \in Requests : s # r => /\ HasKeys(s)' <=> HasKeys(s)
                                       /\ Staged(s)' <=> Staged(s)
        BY <2>4 DEF HasKeys, Staged
    <2>6. KeysPrivate'
        <3> USE DEF DurabilityInv, KeysPrivate
        <3>1. \A i \in UUID : i \in Nat /\ (HasRow(i) => files[i].key \in Nat)
            BY EnvironmentAssumption DEF UUID, HasRow, TypeInv, TypeOK, RepositoryTypeOK, Row
        <3>2. RowsBelowSerial'
            BY <1>1, <2>1, <3>1 DEF RowsBelowSerial, HasRow
        <3>3. id \in 1..serial' /\ key \in 1..serial'
            BY <2>1, <2>3 DEF UUID
        <3>4. RequestsBelowSerial'
            <4>1. ASSUME NEW s \in Requests, HasKeys(s)', s # r
                  PROVE  req'[s].id \in 1..serial' /\ req'[s].key \in 1..serial'
                <5>1. req'[s] = req[s] /\ req[s].id \in 1..serial /\ req[s].key \in 1..serial
                    BY <2>4, <2>5, <4>1 DEF RequestsBelowSerial
                <5>2. QED
                    BY <2>1, <5>1
            <4>2. QED
                BY <2>4, <3>3, <4>1 DEF RequestsBelowSerial
        <3>5. RowKeysUnique'
            BY <1>1 DEF RowKeysUnique, HasRow
        <3>6. \A s \in Requests : HasKeys(s) => req[s].key # key /\ req[s].id # id
            BY <2>1 DEF RequestsBelowSerial
        <3>7. RequestKeysUnique' /\ IdsUnique'
            BY <2>4, <2>5, <3>6 DEF RequestKeysUnique, IdsUnique
        <3>8. UncommittedHasNoRow'
            BY <1>1, <2>2, <2>4, <2>5 DEF UncommittedHasNoRow, HasRow
        <3>9. QED
            BY <3>2, <3>4, <3>5, <3>7, <3>8
    <2>7. NoNewStaged /\ StartsKept
        BY <1>2, <2>4, <2>5 DEF NoNewStaged, StartsKept, Staged, InFlight
    <2>8. NoNewNeed
        BY <1>1, <2>7, NeedShrinks DEF Live
    <2>9. NeededObjectsKept /\ DeletedKept
        BY <1>1 DEF NeededObjectsKept, DeletedKept, Deleted, Stored
    <2>10. QED
        BY <2>6, <2>7, <2>8, <2>9, QuietStep
<1>5. QED
    BY <1>3, <1>4 DEF DrawKeys

\* A write that failed, or whose answer was lost, may leave an object under
\* a key nobody else has; one that succeeded makes a recent key needed.
LEMMA DurabilityStage ==
    ASSUME DurabilityHypothesis, TypeInv, TypeInv', DurabilityInv, NEW r \in Requests,
           UNCHANGED <<now, gc>>, StageObject(r)
    PROVE  DurabilityInv'
<1> DEFINE key == req[r].key
<1>1. /\ req[r].pc = "put" /\ serial' = serial /\ files' = files
      /\ InFlight(r) /\ HasKeys(r) /\ ~Staged(r) /\ key \in UUID
    BY DEF StageObject, InFlight, HasKeys, Staged, Working, TypeInv, StagedTyped
<1>2. PICK o \in CallOutcomes(req[r].gone), at \in Stamps(req[r].start), sizeKnown \in BOOLEAN :
            /\ Put(key, at, o)
            /\ o = "ok" => Goto(r, IF sizeKnown THEN "commit" ELSE "stat")
            /\ o # "ok" => GiveUp(r)
    BY DEF StageObject
<1>3. serial <= serial'
    BY <1>1 DEF TypeInv, TypeOK
<1>5. /\ ~Needed(key)
      /\ \A i \in UUID : HasRow(i) => files[i].key # key
    <2>1. \A i \in UUID : HasRow(i) => files[i].key # key
        BY <1>1 DEF DurabilityInv, KeysPrivate, UncommittedHasNoRow
    <2>2. \A s \in Requests : Staged(s) => req[s].key # key
        BY <1>1 DEF DurabilityInv, KeysPrivate, RequestKeysUnique, HasKeys, Staged
    <2>3. QED
        BY <2>1, <2>2 DEF Needed, Live, HasRow, NoRow
<1> HIDE DEF key
<1>6. \A k \in UUID : k # key => objects'[k] = objects[k]
    BY <1>2 DEF Put, TypeInv, TypeOK, ObjectStoreTypeOK
<1>7. NeededObjectsKept
    BY <1>5, <1>6 DEF NeededObjectsKept
<1>8. DeletedKept
    <2> SUFFICES ASSUME NEW i \in UUID, Deleted(i)
                 PROVE  files[i].key \in UUID /\ files[i].key # key
        BY <1>1, <1>6 DEF DeletedKept, Deleted, Stored
    <2>1. HasRow(i)
        BY DEF HasRow, Deleted, NoRow
    <2>2. files[i].key \in UUID
        BY <2>1 DEF HasRow, TypeInv, TypeOK, RepositoryTypeOK, Row
    <2>3. QED
        BY <1>5, <2>1, <2>2
<1>9. NoNewRows
    BY <1>1 DEF NoNewRows, HasRow
<1>10. CASE o # "ok"
    <2>1. NoNewKeys /\ NoNewStaged /\ StartsKept
        BY <1>1, <1>2, <1>10, GivesUp
    <2>2. KeysPrivate'
        BY <1>3, <1>9, <2>1, KeysStayPrivate DEF DurabilityInv
    <2>3. NoNewNeed
        BY <1>1, <2>1, NeedShrinks DEF Live
    <2>4. QED
        BY <1>7, <1>8, <2>1, <2>2, <2>3, QuietStep
<1>11. CASE o = "ok"
    <2>1. PICK pc \in {"stat", "commit"} : Goto(r, pc)
        BY <1>2, <1>11
    <2>2. /\ req'[r].pc = pc /\ req'[r].id = req[r].id /\ req'[r].key = key
          /\ req'[r].start = req[r].start
          /\ \A s \in Requests : s # r => req'[s] = req[s]
        BY <2>1 DEF Goto, key, TypeInv, TypeOK, UploadTypeOK
    <2>3. \A s \in Requests : s # r => /\ HasKeys(s)' <=> HasKeys(s)
                                       /\ Staged(s)' <=> Staged(s)
        BY <2>2 DEF HasKeys, Staged
    <2>4. KeysPrivate'
        <3>1. NoNewKeys
            BY <1>1, <2>2, <2>3 DEF NoNewKeys, key
        <3>2. QED
            BY <1>3, <1>9, <3>1, KeysStayPrivate DEF DurabilityInv
    <2>5. objects'[key].there /\ objects'[key].modified = at
        BY <1>1, <1>2, <1>11 DEF Put, TypeInv, TypeOK, ObjectStoreTypeOK
    <2>6. /\ at \in Int /\ req[r].start \in Nat /\ now \in Nat
          /\ at >= req[r].start - MaxSkew
        BY <1>2, StampsAreIntegers DEF TypeInv, TypeOK, UploadTypeOK
    <2>7. \A k \in UUID : Needed(k)' => k = key \/ (Needed(k) /\ k # key)
        BY <1>1, <1>5, <2>2, <2>3 DEF Needed, Live
    <2>8. StartsKept
        BY <1>1, <2>2 DEF StartsKept, InFlight
    <2>9. RequestsInTime'
        BY <2>8, UploadAssumption DEF DurabilityInv, RequestsInTime, StartsKept, InFlight, TypeInv, TypeOK
    <2>10. NeededIsStored'
        BY <1>6, <2>5, <2>7 DEF DurabilityInv, NeededIsStored, Stored
    <2>11. StagedIsRecent'
        <3>1. ASSUME NEW s \in Requests, Staged(s)', s # r
              PROVE  objects'[req'[s].key].modified >= req'[s].start - MaxSkew
            <4>1. Staged(s) /\ req'[s] = req[s]
                BY <2>2, <2>3, <3>1
            <4>2. req[s].key \in UUID /\ Needed(req[s].key)
                BY <4>1 DEF TypeInv, StagedTyped, HasKeys, Staged, Needed
            <4>3. QED
                BY <1>7, <4>1, <4>2 DEF NeededObjectsKept, DurabilityInv, StagedIsRecent
        <3>2. QED
            BY <2>2, <2>5, <2>6, <3>1 DEF StagedIsRecent
    <2>12. BatchDeleted' /\ RowBeingPurged'
        BY <1>8 DEF DurabilityInv, BatchDeleted, RowBeingPurged, DeletedKept, Stored,
                    TypeInv, TypeOK, CollectorTypeOK
    <2>13. now <= req[r].start + MaxUpload
        BY <1>1 DEF DurabilityInv, RequestsInTime
    <2>14. UnseenIsRecent'
        <3>1. CASE gc.pc = "cutoff"
            <4>1. gc.seenAt \in Nat /\ gc.seenAt <= now
                BY <3>1 DEF DurabilityInv, UnseenIsRecent, TypeInv, TypeOK, CollectorTypeOK
            <4>2. at >= gc.seenAt - MaxUpload - MaxSkew
                BY <2>6, <2>13, <4>1, UploadAssumption, EnvironmentAssumption
            <4>3. QED
                BY <1>6, <2>5, <2>7, <4>2 DEF DurabilityInv, UnseenIsRecent
        <3>2. QED
            BY <3>1 DEF UnseenIsRecent
    <2>15. UnseenIsTooNew'
        <3>1. CASE gc.pc = "list"
            <4>1. gc.cutoff \in Int /\ gc.cutoff <= now - Grace
                BY <3>1 DEF DurabilityInv, UnseenIsTooNew, TypeInv, TypeOK, CollectorTypeOK
            <4>2. at > gc.cutoff
                BY <2>6, <2>13, <4>1, UploadAssumption, EnvironmentAssumption, CollectorAssumption
                   DEF DurabilityHypothesis, GraceCoversUpload
            <4>3. QED
                BY <1>6, <2>5, <2>7, <4>2 DEF DurabilityInv, UnseenIsTooNew
        <3>2. QED
            BY <3>1 DEF UnseenIsTooNew
    <2>16. QED
        BY <2>4, <2>9, <2>10, <2>11, <2>12, <2>14, <2>15 DEF DurabilityInv
<1>12. QED
    BY <1>10, <1>11

\* A commit turns a staged request's key into a live row's.
LEMMA DurabilityCommit ==
    ASSUME TypeInv, TypeInv', DurabilityInv, NEW r \in Requests, NEW rep,
           UNCHANGED <<now, serial, objects, gc>>,
           Staged(r), Answer(r, rep), files' = InsertFile(req[r].id, req[r].key)
    PROVE  DurabilityInv'
<1> DEFINE id == req[r].id
           key == req[r].key
<1>1. InFlight(r) /\ HasKeys(r) /\ id \in UUID /\ key \in UUID
    BY DEF Staged, InFlight, HasKeys, Working, TypeInv, StagedTyped
<1>2. /\ files'[id] = [state |-> "live", key |-> key, deletedAt |-> 0]
      /\ \A i \in UUID : i # id => files'[i] = files[i]
    BY <1>1 DEF InsertFile, TypeInv, TypeOK, RepositoryTypeOK
<1>3. NoNewKeys /\ NoNewStaged /\ StartsKept
    BY <1>1, Moves DEF Working
<1>4. ~HasKeys(r)' /\ \A s \in Requests : s # r => req'[s] = req[s]
    BY DEF Answer, NoRequest, HasKeys, TypeInv, TypeOK, UploadTypeOK
<1>5. ~HasRow(id) /\ \A j \in UUID : HasRow(j) => files[j].key # key
    BY <1>1 DEF DurabilityInv, KeysPrivate, UncommittedHasNoRow
<1>6. files'[id] # NoRow /\ \A i \in UUID : i # id => (HasRow(i)' <=> HasRow(i))
    BY <1>1, <1>2 DEF HasRow, NoRow
<1>7. KeysPrivate'
    <2> USE DEF DurabilityInv, KeysPrivate
    <2>1. id \in 1..serial /\ key \in 1..serial /\ serial \in Nat
        BY <1>1 DEF RequestsBelowSerial, TypeInv, TypeOK
    <2>2. RowsBelowSerial'
        BY <1>2, <1>6, <2>1 DEF RowsBelowSerial
    <2>3. RequestsBelowSerial'
        BY <1>3 DEF RequestsBelowSerial, NoNewKeys
    <2>4. RowKeysUnique'
        BY <1>2, <1>5, <1>6 DEF RowKeysUnique
    <2>5. RequestKeysUnique' /\ IdsUnique'
        BY <1>3 DEF RequestKeysUnique, IdsUnique, NoNewKeys
    <2>6. UncommittedHasNoRow'
        <3> SUFFICES ASSUME NEW s \in Requests, HasKeys(s)'
                     PROVE  /\ ~HasRow(req[s].id)'
                            /\ \A j \in UUID : HasRow(j)' => files'[j].key # req'[s].key
            BY DEF UncommittedHasNoRow
        <3>1. HasKeys(s) /\ s # r /\ req'[s] = req[s]
            BY <1>3, <1>4 DEF NoNewKeys
        <3>2. req[s].id \in UUID /\ req[s].id # id /\ req[s].key # key
            BY <1>1, <3>1 DEF IdsUnique, RequestKeysUnique, TypeInv, StagedTyped
        <3>3. QED
            BY <1>2, <1>6, <3>1, <3>2 DEF UncommittedHasNoRow, HasRow
    <2>7. QED
        BY <2>2, <2>3, <2>4, <2>5, <2>6
<1>8. NoNewNeed
    BY <1>2, <1>3 DEF NoNewNeed, Needed, NoNewStaged, Live
<1>9. NeededObjectsKept
    BY DEF NeededObjectsKept
<1>10. DeletedKept
    BY <1>2, <1>5 DEF DeletedKept, Deleted, HasRow, NoRow, Stored
<1>11. QED
    BY <1>3, <1>7, <1>8, <1>9, <1>10, QuietStep

\* With no answer lost, a commit reported as failed was not applied.
LEMMA DurabilityCommits ==
    ASSUME DurabilityHypothesis, TypeInv, TypeInv', DurabilityInv, NEW r \in Requests,
           UNCHANGED <<now, gc>>, CommitPlain(r) \/ CommitForKey(r)
    PROVE  DurabilityInv'
<1>1. InFlight(r) /\ Staged(r) /\ HasKeys(r) /\ UNCHANGED <<serial, objects>>
    BY DEF CommitPlain, CommitForKey, InFlight, Staged, HasKeys, Working
<1>2. \A o \in CommitOutcomes(req[r].gone) : o = "ok" \/ o = "fail"
    BY DEF CommitOutcomes, DurabilityHypothesis
<1>3. \/ files' = InsertFile(req[r].id, req[r].key) /\ Answer(r, "created")
      \/ files' = files /\ Goto(r, "cleanup")
    <2>1. CASE CommitPlain(r)
        BY <1>2, <2>1 DEF CommitPlain, Create
    <2>2. CASE CommitForKey(r)
        BY <1>2, <2>2 DEF CommitForKey, CreateForKey
    <2>3. QED
        BY <2>1, <2>2
<1>4. CASE files' = InsertFile(req[r].id, req[r].key) /\ Answer(r, "created")
    BY <1>1, <1>4, DurabilityCommit
<1>5. CASE files' = files /\ Goto(r, "cleanup")
    <2>1. NoNewKeys /\ NoNewStaged /\ StartsKept
        BY <1>1, <1>5, Moves DEF Working
    <2>2. QED
        BY <1>1, <1>5, <2>1, QuietRequest
<1>6. QED
    BY <1>3, <1>4, <1>5

\* The cleanup of a failed upload deletes an object only it knows of.
LEMMA DurabilityCleanUp ==
    ASSUME TypeInv, TypeInv', DurabilityInv, NEW r \in Requests,
           UNCHANGED <<now, gc>>, CleanUp(r)
    PROVE  DurabilityInv'
<1>1. /\ InFlight(r) /\ HasKeys(r) /\ ~Staged(r) /\ GiveUp(r)
      /\ UNCHANGED <<serial, files>>
    BY DEF CleanUp, InFlight, HasKeys, Staged, Working
<1>2. NoNewKeys /\ NoNewStaged /\ StartsKept
    BY <1>1, GivesUp
<1>3. NoNewRows
    BY <1>1 DEF NoNewRows, HasRow
<1>4. NoNewNeed
    BY <1>1, <1>2, NeedShrinks DEF Live
<1>5. \A k \in UUID : \/ objects'[k] = objects[k]
                      \/ k = req[r].key /\ ~objects'[k].there
    BY DEF CleanUp, Delete, NoObject, TypeInv, TypeOK, ObjectStoreTypeOK
<1>6. ~Needed(req[r].key)
    <2>1. \A j \in UUID : Live(j) => files[j].key # req[r].key
        BY <1>1 DEF DurabilityInv, KeysPrivate, UncommittedHasNoRow, Live, HasRow, NoRow
    <2>2. \A s \in Requests : Staged(s) => req[s].key # req[r].key
        BY <1>1 DEF DurabilityInv, KeysPrivate, RequestKeysUnique, Staged, HasKeys
    <2>3. QED
        BY <2>1, <2>2 DEF Needed
<1>7. NeededObjectsKept
    BY <1>5, <1>6 DEF NeededObjectsKept
<1>8. DeletedKept
    <2> SUFFICES ASSUME NEW i \in UUID, Deleted(i)
                 PROVE  files[i].key \in UUID
        BY <1>1, <1>5 DEF DeletedKept, Deleted, Stored
    <2>1. QED
        BY DEF Deleted, NoRow, TypeInv, TypeOK, RepositoryTypeOK, Row
<1>9. serial <= serial'
    BY <1>1 DEF TypeInv, TypeOK
<1>10. KeysPrivate'
    BY <1>2, <1>3, <1>9, KeysStayPrivate DEF DurabilityInv
<1>11. QED
    BY <1>2, <1>4, <1>7, <1>8, <1>10, QuietStep

-----------------------------------------------------------------------------
(* The collector. *)

LiveKept == \A i \in UUID : Live(i)' => Live(i) /\ files'[i].key = files[i].key

\* What a step of the sweep, or a client's delete, owes the requests and the
\* table: to add nothing and to touch no object that is needed.
LEMMA SweepFrame ==
    ASSUME TypeInv, TypeInv', DurabilityInv, UNCHANGED <<now, serial, req>>,
           NoNewRows, LiveKept, NeededObjectsKept
    PROVE  KeysPrivate' /\ RequestsInTime' /\ NeededIsStored' /\ StagedIsRecent' /\ NoNewNeed
<1>1. NoNewKeys /\ NoNewStaged
    BY DEF NoNewKeys, NoNewStaged, HasKeys, Staged
<1>2. NoNewNeed
    BY <1>1, NeedShrinks DEF LiveKept
<1>3. KeysPrivate'
    <2>1. serial <= serial'
        BY DEF TypeInv, TypeOK
    <2>2. QED
        BY <1>1, <2>1, KeysStayPrivate DEF DurabilityInv
<1>4. RequestsInTime'
    BY DEF DurabilityInv, RequestsInTime, InFlight
<1>5. NeededIsStored'
    BY <1>2 DEF DurabilityInv, NeededIsStored, NoNewNeed, NeededObjectsKept, Stored
<1>6. StagedIsRecent'
    <2> SUFFICES ASSUME NEW r \in Requests, Staged(r)
                 PROVE  objects'[req[r].key].modified >= req[r].start - MaxSkew
        BY DEF StagedIsRecent, Staged
    <2>1. req[r].key \in UUID /\ Needed(req[r].key)
        BY DEF TypeInv, StagedTyped, HasKeys, Staged, Needed
    <2>2. QED
        BY <2>1 DEF DurabilityInv, StagedIsRecent, NeededObjectsKept
<1>7. QED
    BY <1>2, <1>3, <1>4, <1>5, <1>6

\* The same where neither the table nor the store changes.
LEMMA SweepReads ==
    ASSUME TypeInv, TypeInv', DurabilityInv, UNCHANGED <<now, serial, req, objects, files>>
    PROVE  KeysPrivate' /\ RequestsInTime' /\ NeededIsStored' /\ StagedIsRecent' /\ NoNewNeed
<1>1. NoNewRows /\ LiveKept /\ NeededObjectsKept
    BY DEF NoNewRows, LiveKept, NeededObjectsKept, HasRow, Live
<1>2. QED
    BY <1>1, SweepFrame

\* purgeDeleted: the list of rows, each row's object, each row.
LEMMA DurabilityPurge ==
    ASSUME TypeInv, TypeInv', DurabilityInv, UNCHANGED <<now, serial, req>>, NEW o,
           StartSweep \/ PurgeObject(o) \/ PurgeRow(o)
    PROVE  DurabilityInv'
<1> USE DEF DurabilityInv
<1>t. gc.batch \subseteq UUID
    BY DEF TypeInv, TypeOK, CollectorTypeOK
<1>1. CASE StartSweep
    <2>1. PICK b \in DeletedBatches(Batch) : gc' = [gc EXCEPT !.pc = "purge", !.batch = b]
        BY <1>1 DEF StartSweep
    <2>2. \A i \in b : Deleted(i)
        BY DEF DeletedBatches
    <2>3. gc'.pc = "purge" /\ gc'.batch = b
        BY <2>1 DEF TypeInv, TypeOK, CollectorTypeOK
    <2>4. UNCHANGED <<objects, files>>
        BY <1>1 DEF StartSweep
    <2>5. BatchDeleted' /\ RowBeingPurged' /\ UnseenIsRecent' /\ UnseenIsTooNew'
        BY <2>2, <2>3, <2>4 DEF BatchDeleted, RowBeingPurged, UnseenIsRecent, UnseenIsTooNew, Deleted
    <2>6. QED
        BY <2>4, <2>5, SweepReads
<1>2. CASE PurgeObject(o)
    <2>1. PICK i \in gc.batch :
             /\ Delete(files[i].key, o)
             /\ gc' = IF o = "ok" THEN [gc EXCEPT !.pc = "purgeRow", !.row = i]
                      ELSE [gc EXCEPT !.batch = @ \ {i}]
        BY <1>2 DEF PurgeObject
    <2>2. UNCHANGED files /\ gc.pc = "purge"
        BY <1>2 DEF PurgeObject
    <2>3. i \in UUID /\ Deleted(i) /\ HasRow(i) /\ files[i].key \in UUID
        BY <1>t DEF BatchDeleted, Deleted, HasRow, NoRow, TypeInv, TypeOK, RepositoryTypeOK, Row
    <2>4. /\ \A k \in UUID : k # files[i].key => objects'[k] = objects[k]
          /\ o = "ok" => ~objects'[files[i].key].there
        BY <2>1, <2>3 DEF Delete, NoObject, TypeInv, TypeOK, ObjectStoreTypeOK
    <2>5. ~Needed(files[i].key)
        <3>1. \A j \in UUID : Live(j) => files[j].key # files[i].key
            BY <2>3 DEF KeysPrivate, RowKeysUnique, Live, Deleted, HasRow, NoRow
        <3>2. \A r \in Requests : Staged(r) => req[r].key # files[i].key
            BY <2>3 DEF KeysPrivate, UncommittedHasNoRow, Staged, HasKeys
        <3>3. QED
            BY <3>1, <3>2 DEF Needed
    <2>6. NoNewRows /\ LiveKept /\ NeededObjectsKept
        BY <2>2, <2>4, <2>5 DEF NoNewRows, LiveKept, NeededObjectsKept, HasRow, Live
    <2>7. /\ gc'.batch \subseteq gc.batch
          /\ gc'.pc = "purge" \/ (o = "ok" /\ gc'.pc = "purgeRow" /\ gc'.row = i)
        BY <2>1, <2>2 DEF TypeInv, TypeOK, CollectorTypeOK
    <2>8. BatchDeleted' /\ RowBeingPurged' /\ UnseenIsRecent' /\ UnseenIsTooNew'
        BY <2>2, <2>3, <2>4, <2>7
           DEF BatchDeleted, RowBeingPurged, UnseenIsRecent, UnseenIsTooNew, Deleted, Stored
    <2>9. QED
        BY <2>6, <2>8, SweepFrame
<1>3. CASE PurgeRow(o)
    <2>1. UNCHANGED objects
        BY <1>3 DEF PurgeRow
    <2>2. gc'.pc = "purge" /\ gc'.batch = gc.batch \ {gc.row}
        BY <1>3 DEF PurgeRow, TypeInv, TypeOK, CollectorTypeOK
    <2>3. \A i \in UUID : files'[i] = files[i] \/ (i = gc.row /\ files'[i] = NoRow)
        BY <1>3 DEF PurgeRow, Purge, TypeInv, TypeOK, RepositoryTypeOK
    <2>4. NoNewRows /\ LiveKept /\ NeededObjectsKept
        BY <2>1, <2>3 DEF NoNewRows, LiveKept, NeededObjectsKept, HasRow, Live, NoRow
    <2>5. BatchDeleted'
        BY <1>t, <2>2, <2>3 DEF BatchDeleted, Deleted
    <2>6. RowBeingPurged' /\ UnseenIsRecent' /\ UnseenIsTooNew'
        BY <2>2 DEF RowBeingPurged, UnseenIsRecent, UnseenIsTooNew
    <2>7. QED
        BY <2>4, <2>5, <2>6, SweepFrame
<1>4. QED
    BY <1>1, <1>2, <1>3

\* reclaimOrphans: the keys, then the clock, then the listing.
LEMMA DurabilityReclaim ==
    ASSUME DurabilityHypothesis, TypeInv, TypeInv', DurabilityInv,
           UNCHANGED <<now, serial, req>>, NEW o,
           ReadStorageKeys(o) \/ TakeCutoff \/ FetchPage(o) \/ VisitObject(o) \/ ExpireKeys(o)
    PROVE  DurabilityInv'
<1> USE DEF DurabilityInv
<1>n. ASSUME gc' = NoSweep \/ gc' = [NoSweep EXCEPT !.pc = "expire"]
      PROVE  BatchDeleted' /\ RowBeingPurged' /\ UnseenIsRecent' /\ UnseenIsTooNew'
    BY <1>n DEF NoSweep, BatchDeleted, RowBeingPurged, UnseenIsRecent, UnseenIsTooNew
<1>1. CASE ReadStorageKeys(o)
    <2>1. UNCHANGED <<objects, files>>
        BY <1>1 DEF ReadStorageKeys
    <2>2. CASE gc' = NoSweep
        BY <1>n, <2>1, <2>2, SweepReads
    <2>3. CASE gc' = [gc EXCEPT !.pc = "cutoff", !.seen = StorageKeys, !.seenAt = now]
        <3>1. /\ gc'.pc = "cutoff" /\ gc'.seen = StorageKeys /\ gc'.seenAt = now
              /\ gc'.batch = gc.batch
            BY <2>3 DEF TypeInv, TypeOK, CollectorTypeOK
        <3>2. ASSUME NEW k \in UUID, Needed(k), k \notin StorageKeys
              PROVE  objects[k].modified >= now - MaxUpload - MaxSkew
            <4>1. PICK r \in Requests : Staged(r) /\ req[r].key = k
                BY <3>2 DEF Needed, StorageKeys, Live, NoRow
            <4>2. InFlight(r)
                BY <4>1 DEF Staged, InFlight, Working
            <4>3. now <= req[r].start + MaxUpload /\ objects[k].modified >= req[r].start - MaxSkew
                BY <4>1, <4>2 DEF RequestsInTime, StagedIsRecent
            <4>4. now \in Nat /\ req[r].start \in Nat /\ objects[k].modified \in Int
                BY DEF TypeInv, TypeOK, UploadTypeOK, ObjectStoreTypeOK
            <4>5. QED
                BY <4>3, <4>4, UploadAssumption, EnvironmentAssumption
        <3>3. NoNewNeed
            BY <2>1, SweepReads
        <3>4. UnseenIsRecent'
            BY <2>1, <3>1, <3>2, <3>3, CollectorAssumption
               DEF UnseenIsRecent, NoNewNeed, TypeInv, TypeOK
        <3>5. BatchDeleted' /\ RowBeingPurged' /\ UnseenIsTooNew'
            BY <2>1, <3>1 DEF BatchDeleted, RowBeingPurged, UnseenIsTooNew, Deleted
        <3>6. QED
            BY <2>1, <3>4, <3>5, SweepReads
    <2>4. QED
        BY <1>1, <2>2, <2>3 DEF ReadStorageKeys
<1>2. CASE TakeCutoff
    <2>1. UNCHANGED <<objects, files>> /\ gc.pc = "cutoff"
        BY <1>2 DEF TakeCutoff
    <2>2. /\ gc'.pc = "list" /\ gc'.cutoff = now - Grace
          /\ gc'.seen = gc.seen /\ gc'.batch = gc.batch
        BY <1>2 DEF TakeCutoff, TypeInv, TypeOK, CollectorTypeOK
    <2>3. ASSUME NEW k \in UUID, Needed(k), k \notin gc.seen
          PROVE  objects[k].modified > now - Grace
        <3>1. now \in Nat /\ gc.seenAt \in Nat /\ objects[k].modified \in Int
            BY DEF TypeInv, TypeOK, CollectorTypeOK, ObjectStoreTypeOK
        <3>2. /\ now <= gc.seenAt + MaxScan
              /\ objects[k].modified >= gc.seenAt - MaxUpload - MaxSkew
            BY <2>1, <2>3 DEF UnseenIsRecent
        <3>3. QED
            BY <3>1, <3>2, UploadAssumption, EnvironmentAssumption, CollectorAssumption
               DEF DurabilityHypothesis, GraceCoversUpload
    <2>4. NoNewNeed
        BY <2>1, SweepReads
    <2>5. UnseenIsTooNew'
        BY <2>1, <2>2, <2>3, <2>4, CollectorAssumption
           DEF UnseenIsTooNew, NoNewNeed, TypeInv, TypeOK
    <2>6. BatchDeleted' /\ RowBeingPurged' /\ UnseenIsRecent'
        BY <2>1, <2>2 DEF BatchDeleted, RowBeingPurged, UnseenIsRecent, Deleted
    <2>7. QED
        BY <2>1, <2>5, <2>6, SweepReads
<1>3. CASE FetchPage(o)
    <2>1. UNCHANGED <<objects, files>> /\ gc.pc = "list"
        BY <1>3 DEF FetchPage
    <2>2. CASE gc' = NoSweep \/ gc' = [NoSweep EXCEPT !.pc = "expire"]
        BY <1>n, <2>1, <2>2, SweepReads
    <2>3. CASE gc' = [gc EXCEPT !.page = Page(gc.cursor, PageSize)]
        <3>1. /\ gc'.pc = "list" /\ gc'.cutoff = gc.cutoff
              /\ gc'.seen = gc.seen /\ gc'.batch = gc.batch
            BY <2>1, <2>3 DEF TypeInv, TypeOK, CollectorTypeOK
        <3>2. NoNewNeed
            BY <2>1, SweepReads
        <3>3. BatchDeleted' /\ RowBeingPurged' /\ UnseenIsRecent' /\ UnseenIsTooNew'
            BY <2>1, <3>1, <3>2 DEF BatchDeleted, RowBeingPurged, UnseenIsRecent,
                                    UnseenIsTooNew, Deleted, NoNewNeed
        <3>4. QED
            BY <2>1, <3>3, SweepReads
    <2>4. QED
        BY <1>3, <2>2, <2>3 DEF FetchPage
<1>4. CASE VisitObject(o)
    <2>1. PICK k \in gc.page :
             /\ IF IsOrphan(k) THEN Delete(k, o) ELSE o = "ok" /\ UNCHANGED objects
             /\ gc' = [gc EXCEPT !.page = @ \ {k}, !.cursor = k]
        BY <1>4 DEF VisitObject
    <2>2. UNCHANGED files /\ gc.pc = "list"
        BY <1>4 DEF VisitObject
    <2>3. k \in UUID
        BY DEF TypeInv, TypeOK, CollectorTypeOK
    <2>4. /\ gc'.pc = "list" /\ gc'.cutoff = gc.cutoff
          /\ gc'.seen = gc.seen /\ gc'.batch = gc.batch
        BY <2>1, <2>2 DEF TypeInv, TypeOK, CollectorTypeOK
    <2>5. IsOrphan(k) => ~Needed(k)
        BY <2>2, <2>3 DEF IsOrphan, UnseenIsTooNew
    <2>6. \A j \in UUID : objects'[j] = objects[j] \/ (j = k /\ IsOrphan(k))
        BY <2>1 DEF Delete, TypeInv, TypeOK, ObjectStoreTypeOK
    <2>7. NoNewRows /\ LiveKept /\ NeededObjectsKept
        BY <2>2, <2>5, <2>6 DEF NoNewRows, LiveKept, NeededObjectsKept, HasRow, Live
    <2>8. NoNewNeed
        BY <2>7, SweepFrame
    <2>9. BatchDeleted' /\ RowBeingPurged' /\ UnseenIsRecent' /\ UnseenIsTooNew'
        BY <2>2, <2>4, <2>7, <2>8 DEF BatchDeleted, RowBeingPurged, UnseenIsRecent,
                                UnseenIsTooNew, Deleted, NoNewNeed, NeededObjectsKept
    <2>10. QED
        BY <2>7, <2>9, SweepFrame
<1>5. CASE ExpireKeys(o)
    <2>1. UNCHANGED <<objects, files>> /\ gc' = NoSweep
        BY <1>5 DEF ExpireKeys, PurgeIdempotencyKeys
    <2>2. QED
        BY <1>n, <2>1, SweepReads
<1>6. QED
    BY <1>1, <1>2, <1>3, <1>4, <1>5

-----------------------------------------------------------------------------
(* The whole service. *)

\* The inductive invariant holds at the start, when nothing is stored.
LEMMA DurabilityInit == Init => DurabilityInv
<1> SUFFICES ASSUME Init PROVE DurabilityInv
    OBVIOUS
<1>1. \A i \in UUID : files[i] = NoRow /\ ~HasRow(i) /\ ~Live(i)
    BY DEF Init, RepositoryInit, HasRow, Live, NoRow
<1>2. \A r \in Requests : ~HasKeys(r) /\ ~Staged(r) /\ ~InFlight(r)
    BY DEF Init, UploadInit, NoRequest, HasKeys, Staged, InFlight, Working
<1>3. KeysPrivate
    BY <1>1, <1>2 DEF KeysPrivate, RowsBelowSerial, RequestsBelowSerial, RowKeysUnique,
                      RequestKeysUnique, IdsUnique, UncommittedHasNoRow
<1>4. RequestsInTime /\ NeededIsStored /\ StagedIsRecent
    BY <1>1, <1>2 DEF RequestsInTime, NeededIsStored, StagedIsRecent, Needed
<1>5. BatchDeleted /\ RowBeingPurged /\ UnseenIsRecent /\ UnseenIsTooNew
    BY DEF Init, CollectorInit, NoSweep, BatchDeleted, RowBeingPurged, UnseenIsRecent,
           UnseenIsTooNew
<1>6. QED
    BY <1>3, <1>4, <1>5 DEF DurabilityInv

\* No step of the service breaks the inductive invariant.
LEMMA DurabilityNext ==
    ASSUME DurabilityHypothesis, TypeInv, TypeInv', DurabilityInv, [Next]_vars
    PROVE  DurabilityInv'
<1>1. ASSUME NEW r \in Requests, UploadRequest(r) PROVE DurabilityInv'
    <2>1. UNCHANGED <<now, gc>>
        BY <1>1 DEF UploadRequest
    <2>2. CASE QuietRequestStep(r)
        BY <2>1, <2>2, DurabilityQuietRequests
    <2>3. CASE DrawKeys(r)
        BY <2>1, <2>3, DurabilityDraw
    <2>4. CASE StageObject(r)
        BY <2>1, <2>4, DurabilityStage
    <2>5. CASE CommitPlain(r) \/ CommitForKey(r)
        BY <2>1, <2>5, DurabilityCommits
    <2>6. CASE CleanUp(r)
        BY <2>1, <2>6, DurabilityCleanUp
    <2>7. QED
        BY <1>1, <2>2, <2>3, <2>4, <2>5, <2>6 DEF UploadRequest, RequestStep, QuietRequestStep
<1>2. ASSUME NEW i \in UUID, DeleteFile(i) PROVE DurabilityInv'
    <2>1. /\ UNCHANGED <<now, serial, objects, req, gc>> /\ Live(i)
          /\ files' = [files EXCEPT ![i].state = "deleted", ![i].deletedAt = now]
        BY <1>2 DEF DeleteFile, SoftDelete
    <2>2. files[i] \in Row
        BY <2>1 DEF Live, NoRow, TypeInv, TypeOK, RepositoryTypeOK
    <2>3. /\ files'[i].state = "deleted" /\ files'[i].key = files[i].key
          /\ \A j \in UUID : j # i => files'[j] = files[j]
        BY <2>1, <2>2 DEF Row, TypeInv, TypeOK, RepositoryTypeOK
    <2>4. NoNewRows /\ LiveKept /\ NeededObjectsKept
        <3>1. HasRow(i)
            BY <2>1 DEF HasRow, Live, NoRow
        <3>2. NoNewRows
            BY <2>3, <3>1 DEF NoNewRows, HasRow
        <3>3. LiveKept
            BY <2>3 DEF LiveKept, Live
        <3>4. NeededObjectsKept
            BY <2>1 DEF NeededObjectsKept
        <3>5. QED
            BY <3>2, <3>3, <3>4
    <2>5. DeletedKept
        BY <2>1, <2>3 DEF DeletedKept, Deleted, Live, Stored
    <2>6. KeysPrivate' /\ NoNewNeed
        BY <2>1, <2>4, SweepFrame
    <2>7. NoNewStaged /\ StartsKept
        BY <2>1 DEF NoNewStaged, StartsKept, Staged, InFlight
    <2>8. QED
        BY <2>1, <2>4, <2>5, <2>6, <2>7, QuietStep
<1>3. CASE Sweep
    <2>1. UNCHANGED <<now, serial, req>>
        BY <1>3 DEF Sweep
    <2>2. PICK o : StartSweep \/ TakeCutoff \/ SweepCall(o)
        BY <1>3 DEF Sweep, SweepStep
    <2>3. CASE StartSweep \/ PurgeObject(o) \/ PurgeRow(o)
        BY <2>1, <2>3, DurabilityPurge
    <2>4. CASE ReadStorageKeys(o) \/ TakeCutoff \/ FetchPage(o) \/ VisitObject(o) \/ ExpireKeys(o)
        BY <2>1, <2>4, DurabilityReclaim
    <2>5. QED
        BY <2>2, <2>3, <2>4 DEF SweepCall
<1>4. CASE Tick
    <2>1. now' = now + 1 /\ UNCHANGED <<serial, objects, files, req, gc>>
        BY <1>4 DEF Tick
    <2>2. KeysPrivate' /\ NeededIsStored' /\ StagedIsRecent' /\ BatchDeleted' /\ RowBeingPurged'
        BY <2>1 DEF DurabilityInv, KeysPrivate, RowsBelowSerial, RequestsBelowSerial,
                    RowKeysUnique, RequestKeysUnique, IdsUnique, UncommittedHasNoRow, HasRow,
                    HasKeys, NeededIsStored, Needed, Live, Staged, Stored, StagedIsRecent,
                    BatchDeleted, Deleted, RowBeingPurged
    <2>3. now \in Nat /\ gc.seenAt \in Nat /\ gc.cutoff \in Int
          /\ \A r \in Requests : req[r].start \in Nat
        BY DEF TypeInv, TypeOK, UploadTypeOK, CollectorTypeOK
    <2>4. RequestsInTime'
        BY <1>4, <2>1, <2>3, UploadAssumption
           DEF Tick, UploadsInTime, DurabilityInv, RequestsInTime, InFlight
    <2>5. UnseenIsRecent'
        BY <1>4, <2>1, <2>3, CollectorAssumption
           DEF Tick, ScanInTime, DurabilityInv, UnseenIsRecent, Needed, Live, Staged
    <2>6. UnseenIsTooNew'
        BY <2>1, <2>3, CollectorAssumption DEF DurabilityInv, UnseenIsTooNew, Needed, Live, Staged
    <2>7. QED
        BY <2>2, <2>4, <2>5, <2>6 DEF DurabilityInv
<1>5. CASE Crash
    <2>1. UNCHANGED <<now, serial, objects, files>> /\ gc' = NoSweep
        BY <1>5 DEF Crash
    <2>2. \A r \in Requests : ~HasKeys(r)' /\ ~Staged(r)' /\ ~InFlight(r)'
        BY <1>5 DEF Crash, NoRequest, HasKeys, Staged, InFlight, Working
    <2>3. NoNewKeys /\ NoNewStaged /\ NoNewRows
        BY <2>1, <2>2 DEF NoNewKeys, NoNewStaged, NoNewRows, HasRow
    <2>4. KeysPrivate'
        <3>1. serial <= serial'
            BY <2>1 DEF TypeInv, TypeOK
        <3>2. QED
            BY <2>3, <3>1, KeysStayPrivate DEF DurabilityInv
    <2>5. NoNewNeed
        BY <2>1, <2>3, NeedShrinks DEF Live
    <2>6. RequestsInTime' /\ NeededIsStored' /\ StagedIsRecent'
        BY <2>1, <2>2, <2>5 DEF DurabilityInv, RequestsInTime, NeededIsStored, NoNewNeed,
                                StagedIsRecent, Stored
    <2>7. BatchDeleted' /\ RowBeingPurged' /\ UnseenIsRecent' /\ UnseenIsTooNew'
        BY <2>1 DEF NoSweep, BatchDeleted, RowBeingPurged, UnseenIsRecent, UnseenIsTooNew
    <2>8. QED
        BY <2>4, <2>6, <2>7 DEF DurabilityInv
<1>6. CASE UNCHANGED vars
    <2>1. UNCHANGED <<now, serial, objects, files, req, gc>>
        BY <1>6 DEF vars
    <2>2. NoNewKeys /\ NoNewStaged /\ StartsKept
        BY <2>1 DEF NoNewKeys, NoNewStaged, StartsKept, HasKeys, Staged, InFlight
    <2>3. QED
        BY <2>1, <2>2, QuietRequest
<1>7. QED
    BY <1>1, <1>2, <1>3, <1>4, <1>5, <1>6 DEF Next

\* Hence the inductive invariant holds throughout.
LEMMA DurabilityInvariant == DurabilityHypothesis => (Spec => [](TypeInv /\ DurabilityInv))
<1> SUFFICES ASSUME DurabilityHypothesis PROVE Spec => [](TypeInv /\ DurabilityInv)
    OBVIOUS
<1>1. Init => TypeInv /\ DurabilityInv
    BY InitTypeInv, DurabilityInit
<1>2. TypeInv /\ DurabilityInv /\ [Next]_vars => (TypeInv /\ DurabilityInv)'
    BY NextTypeInv, DurabilityNext
<1>3. QED
    BY <1>1, <1>2, PTL DEF Spec

\* The whole strengthening that TLC checks on small instances: storage keys
\* are private to one row or one request, whatever is needed is stored, and
\* what the collector works from is never too stale to be safe.
THEOREM DurabilityStrengthened == DurabilityHypothesis => (Spec => []DurabilityInv)
<1> SUFFICES ASSUME DurabilityHypothesis PROVE Spec => []DurabilityInv
    OBVIOUS
<1>1. QED
    BY DurabilityInvariant, PTL

\* Whenever the grace period exceeds the longest upload plus the collector's
\* wait between its two reads plus the store's clock error, and no answer
\* to a commit is lost, every file that Get finds has its object: uploads,
\* deletes, sweeps, failing calls, hang-ups and crashes may interleave
\* in any way, any number of times.
THEOREM Durability == DurabilityHypothesis => (Spec => []LiveRowHasObject)
<1> SUFFICES ASSUME DurabilityHypothesis PROVE Spec => []LiveRowHasObject
    OBVIOUS
<1>1. TypeInv /\ DurabilityInv => LiveRowHasObject
    <2> SUFFICES ASSUME TypeInv, DurabilityInv, NEW i \in UUID, Live(i)
                 PROVE  Stored(files[i].key)
        BY DEF LiveRowHasObject
    <2>1. files[i].key \in UUID
        BY DEF Live, NoRow, TypeInv, TypeOK, RepositoryTypeOK, Row
    <2>2. QED
        BY <2>1 DEF DurabilityInv, NeededIsStored, Needed
<1>2. QED
    BY <1>1, DurabilityInvariant, PTL

\* Only purgeDeleted removes a row, and only one whose object is gone.
LEMMA PurgeOrderStep ==
    ASSUME TypeInv, DurabilityInv, [Next]_vars
    PROVE  \A i \in UUID : files[i] # NoRow /\ files'[i] = NoRow
              => Deleted(i) /\ ~objects'[files[i].key].there
<1> DEFINE Step == \A i \in UUID : files[i] # NoRow /\ files'[i] = NoRow
                      => Deleted(i) /\ ~objects'[files[i].key].there
<1>1. ASSUME NEW i, NEW k, files' = InsertFile(i, k) PROVE Step
    BY <1>1 DEF InsertFile, NoRow, TypeInv, TypeOK, RepositoryTypeOK
<1>2. CASE UNCHANGED files
    BY <1>2
<1>3. ASSUME NEW r \in Requests, UploadRequest(r) PROVE Step
    <2>1. UNCHANGED files \/ files' = InsertFile(req[r].id, req[r].key)
        BY <1>3 DEF UploadRequest, RequestStep, Begin, ClientGone, ClaimKey, InsertClaim,
                    ReadKey, Replay, DrawKeys, StageObject, StatObject, CommitPlain, Create,
                    CommitForKey, CreateForKey, CleanUp, ReleaseKey, ReleaseClaim
    <2>2. QED
        BY <1>1, <1>2, <2>1
<1>4. ASSUME NEW i \in UUID, DeleteFile(i) PROVE Step
    BY <1>4 DEF DeleteFile, SoftDelete, Live, NoRow, TypeInv, TypeOK, RepositoryTypeOK, Row
<1>5. ASSUME NEW o, PurgeRow(o) PROVE Step
    BY <1>5 DEF PurgeRow, Purge, DurabilityInv, RowBeingPurged, Stored,
                TypeInv, TypeOK, RepositoryTypeOK
<1>6. CASE Sweep
    BY <1>2, <1>5, <1>6 DEF Sweep, SweepStep, SweepCall, StartSweep, TakeCutoff, PurgeObject,
           ReadStorageKeys, FetchPage, VisitObject, ExpireKeys, PurgeIdempotencyKeys
<1>7. CASE Tick \/ Crash \/ UNCHANGED vars
    BY <1>2, <1>7 DEF Tick, Crash, vars
<1>8. QED
    BY <1>3, <1>4, <1>6, <1>7 DEF Next

\* Under the same hypothesis purgeDeleted never removes a live row, and
\* never a row whose object is still in the store.
THEOREM PurgeOrder == DurabilityHypothesis => (Spec => PurgedRowHasNoObject)
<1> DEFINE Step == \A i \in UUID : files[i] # NoRow /\ files'[i] = NoRow
                      => Deleted(i) /\ ~objects'[files[i].key].there
<1>1. TypeInv /\ DurabilityInv /\ [Next]_vars => [Step]_vars
    BY PurgeOrderStep
<1>2. QED
    BY <1>1, DurabilityInvariant, PTL DEF Spec, PurgedRowHasNoObject

-----------------------------------------------------------------------------
(* The listing behind reclaimOrphans. *)

LEMMA KeysAreFinite ==
    ASSUME NEW S \in SUBSET UUID
    PROVE  IsFiniteSet(S) /\ Cardinality(S) \in Nat /\ S \subseteq Nat
<1>1. IsFiniteSet(UUID)
    BY FS_Interval, EnvironmentAssumption DEF UUID
<1>2. IsFiniteSet(S)
    BY <1>1, FS_Subset
<1>3. QED
    BY <1>2, FS_CardinalityType DEF UUID

LEMMA FirstKey ==
    ASSUME NEW S \in SUBSET UUID, S # {}
    PROVE  \E k \in S : \A j \in S : ~(j < k)
<1> DEFINE Below == OpToRel(<, Nat)
<1>1. IsWellFoundedOn(Below, Nat) /\ S \in SUBSET Nat
    BY NatLessThanWellFounded, KeysAreFinite
<1> HIDE DEF Below
<1>2. PICK k \in S : \A j \in S : <<j, k>> \notin Below
    BY <1>1, WFMin
<1>3. QED
    BY <1>1, <1>2 DEF Below, OpToRel

\* A page holds the first keys ahead of the cursor: what it leaves out comes
\* after all of it, and it is empty only when nothing is ahead.
LEMMA PageIsNext ==
    ASSUME NEW cursor
    PROVE  LET after == {k \in UUID : Stored(k) /\ k > cursor}
               page  == Page(cursor, PageSize)
           IN  /\ page \subseteq after
               /\ \A k \in after \ page, j \in page : j < k
               /\ page = {} => after = {}
<1> DEFINE after   == {k \in UUID : Stored(k) /\ k > cursor}
           page    == Page(cursor, PageSize)
           rank(k) == Cardinality({j \in after : j < k})
<1>1. page = {k \in after : rank(k) < PageSize}
    BY DEF Page
<1>2. after \in SUBSET UUID
    OBVIOUS
<1> HIDE DEF after, page
<1>3. \A k \in after : k \in Nat /\ IsFiniteSet({j \in after : j < k}) /\ rank(k) \in Nat
    BY <1>2, KeysAreFinite
<1>4. ASSUME NEW k \in after \ page, NEW j \in page PROVE j < k
    <2>1. SUFFICES ASSUME ~(j < k) PROVE FALSE
        OBVIOUS
    <2>2. {i \in after : i < k} \subseteq {i \in after : i < j}
        <3>1. j \in Nat /\ k \in Nat /\ \A i \in after : i \in Nat
            BY <1>1, <1>3
        <3>2. ASSUME NEW i \in after, i < k PROVE i < j
            BY <2>1, <3>1, <3>2
        <3>3. QED
            BY <3>2
    <2>3. rank(k) <= rank(j)
        BY <1>1, <1>3, <2>2, FS_Subset
    <2>4. rank(j) < PageSize /\ ~(rank(k) < PageSize) /\ rank(j) \in Nat /\ rank(k) \in Nat
        BY <1>1, <1>3
    <2>5. QED
        BY <2>3, <2>4, CollectorAssumption
<1>5. ASSUME after # {} PROVE page # {}
    <2>1. PICK k \in after : \A j \in after : ~(j < k)
        BY <1>2, <1>5, FirstKey
    <2>2. {j \in after : j < k} = {}
        BY <2>1
    <2>3. rank(k) = 0
        BY <2>2, FS_EmptySet
    <2>4. QED
        BY <1>1, <2>3, CollectorAssumption
<1>6. page \subseteq after
    BY <1>1
<1>7. QED
    BY <1>4, <1>5, <1>6 DEF after, page

\* While a sweep lists, what is not the sweep only removes objects, or adds
\* one that is newer than the cutoff.
LEMMA AddedIsNew ==
    ASSUME DurabilityHypothesis, TypeInv, DurabilityInv, gc.pc = "list",
           NEW r \in Requests, UploadRequest(r), NEW k \in UUID, objects'[k].there
    PROVE  objects'[k] = objects[k] \/ objects'[k].modified > gc.cutoff
<1>1. CASE UNCHANGED objects
    BY <1>1
<1>2. CASE StageObject(r)
    <2>1. PICK at \in Stamps(req[r].start), o \in CallOutcomes(req[r].gone) : Put(req[r].key, at, o)
        BY <1>2 DEF StageObject
    <2>2. objects'[k] = objects[k] \/ objects'[k].modified = at
        BY <2>1 DEF Put, TypeInv, TypeOK, ObjectStoreTypeOK
    <2>3. req[r].start \in Nat /\ now \in Nat /\ gc.cutoff \in Int
        BY DEF TypeInv, TypeOK, UploadTypeOK, CollectorTypeOK
    <2>4. at \in Int /\ at >= req[r].start - MaxSkew
        BY <2>1, <2>3, StampsAreIntegers
    <2>5. now <= req[r].start + MaxUpload
        BY <1>2 DEF StageObject, InFlight, Working, DurabilityInv, RequestsInTime
    <2>6. gc.cutoff <= now - Grace /\ MaxUpload + MaxScan + MaxSkew < Grace
        BY DEF DurabilityInv, UnseenIsTooNew, DurabilityHypothesis, GraceCoversUpload
    <2>7. at > gc.cutoff
        BY <2>3, <2>4, <2>5, <2>6, EnvironmentAssumption, UploadAssumption, CollectorAssumption
    <2>8. QED
        BY <2>2, <2>7
<1>3. CASE CleanUp(r)
    <2>1. UNCHANGED objects \/ objects' = [objects EXCEPT ![req[r].key] = NoObject]
        BY <1>3 DEF CleanUp, Delete
    <2>2. QED
        BY <2>1 DEF NoObject, TypeInv, TypeOK, ObjectStoreTypeOK
<1>4. QED
    BY <1>1, <1>2, <1>3 DEF UploadRequest, RequestStep, Begin, ClientGone, ClaimKey, ReadKey,
           Replay, DrawKeys, StatObject, CommitPlain, CommitForKey, ReleaseKey

\* A step that is not the sweep's leaves the listing ahead of the orphans.
LEMMA ListingUndisturbed ==
    ASSUME OrphansAhead, gc' = gc,
           gc.pc = "list" => \A k \in UUID : objects'[k].there =>
                                objects'[k] = objects[k] \/ objects'[k].modified > gc.cutoff
    PROVE  OrphansAhead'
BY DEF OrphansAhead, Stored

\* The callback visits the first key of the page.
LEMMA VisitMovesOn ==
    ASSUME TypeInv, OrphansAhead, NEW o, VisitObject(o)
    PROVE  /\ OrphansAhead'
           /\ \A k \in UUID : Stored(k) /\ IsOrphan(k) /\ gc.cursor < k /\ k <= gc'.cursor
                 => ~objects'[k].there \/ (gc'.cursor = k /\ o = "fail")
<1>1. PICK v \in gc.page :
          /\ \A j \in gc.page : v <= j
          /\ IF IsOrphan(v) THEN Delete(v, o) ELSE o = "ok" /\ UNCHANGED objects
          /\ gc' = [gc EXCEPT !.page = @ \ {v}, !.cursor = v]
    BY DEF VisitObject
<1>2. gc.pc = "list" /\ v \in UUID
    BY <1>1 DEF VisitObject, TypeInv, TypeOK, CollectorTypeOK
<1>3. /\ gc'.pc = "list" /\ gc'.page = gc.page \ {v} /\ gc'.cursor = v /\ gc'.cutoff = gc.cutoff
      /\ gc.page \in SUBSET UUID /\ gc.cursor \in UUID \cup {NoID}
    BY <1>1, <1>2 DEF TypeInv, TypeOK, CollectorTypeOK
<1>4. \A k \in UUID \cup {NoID} : k \in Nat
    BY EnvironmentAssumption DEF UUID, NoID
<1>5. \A k \in UUID : objects'[k].there => objects'[k] = objects[k]
    BY <1>1 DEF Delete, NoObject, TypeInv, TypeOK, ObjectStoreTypeOK
<1>6. gc.cursor < v
    BY <1>1 DEF OrphansAhead
<1>7. \A j \in gc'.page : gc'.cursor < j
    BY <1>1, <1>2, <1>3, <1>4
<1>8. ASSUME NEW k \in UUID, objects'[k].there, ~(objects'[k].modified > gc.cutoff), v < k
      PROVE  k \in gc'.page \/ \A j \in gc'.page : j < k
    <2>1. gc.cursor < k
        BY <1>2, <1>3, <1>4, <1>6, <1>8
    <2>2. k \in gc.page \/ \A j \in gc.page : j < k
        BY <1>2, <1>5, <1>8, <2>1 DEF OrphansAhead, Stored
    <2>3. k # v
        BY <1>2, <1>4, <1>8
    <2>4. QED
        BY <1>3, <2>2, <2>3
<1>9. OrphansAhead'
    BY <1>3, <1>7, <1>8 DEF OrphansAhead, Stored
<1>10. ASSUME NEW k \in UUID, Stored(k), IsOrphan(k), gc.cursor < k, k <= v
       PROVE  ~objects'[k].there \/ (v = k /\ o = "fail")
    <2>1. k \in gc.page \/ \A j \in gc.page : j < k
        BY <1>2, <1>10 DEF OrphansAhead, IsOrphan
    <2>2. k = v
        BY <1>1, <1>2, <1>4, <1>10, <2>1
    <2>3. Delete(v, o)
        BY <1>1, <1>10, <2>2
    <2>4. QED
        BY <1>2, <2>2, <2>3 DEF Delete, NoObject, TypeInv, TypeOK, ObjectStoreTypeOK
<1>11. QED
    BY <1>3, <1>9, <1>10

\* Fetching a page skips nothing, and ends the listing only at its end.
LEMMA FetchSkipsNothing ==
    ASSUME TypeInv, OrphansAhead, NEW o, FetchPage(o)
    PROVE  /\ OrphansAhead'
           /\ gc'.pc = "list" => gc'.cursor = gc.cursor
           /\ gc'.pc = "expire" => \A k \in UUID : Stored(k) => ~(gc.cursor < k)
<1> DEFINE after == {k \in UUID : Stored(k) /\ k > gc.cursor}
           page  == Page(gc.cursor, PageSize)
<1>1. gc.pc = "list" /\ gc.page = {} /\ UNCHANGED objects
    BY DEF FetchPage
<1>2. /\ page \subseteq after
      /\ \A k \in after \ page, j \in page : j < k
      /\ page = {} => after = {}
    BY PageIsNext
<1>3. \/ gc' = NoSweep
      \/ gc' = [NoSweep EXCEPT !.pc = "expire"] /\ page = {}
      \/ gc' = [gc EXCEPT !.page = page]
    BY DEF FetchPage
<1> HIDE DEF page
<1>4. \A k \in UUID : gc.cursor < k <=> k > gc.cursor
    BY EnvironmentAssumption DEF UUID, NoID, TypeInv, TypeOK, CollectorTypeOK
<1>5. CASE gc' = NoSweep
    BY <1>5 DEF NoSweep, OrphansAhead
<1>6. CASE gc' = [NoSweep EXCEPT !.pc = "expire"] /\ page = {}
    <2>1. gc'.pc = "expire" /\ gc'.page = {}
        BY <1>6 DEF NoSweep
    <2>2. QED
        BY <1>2, <1>4, <1>6, <2>1 DEF OrphansAhead
<1>7. CASE gc' = [gc EXCEPT !.page = page]
    <2>1. gc'.pc = "list" /\ gc'.page = page /\ gc'.cursor = gc.cursor /\ gc'.cutoff = gc.cutoff
        BY <1>1, <1>7 DEF TypeInv, TypeOK, CollectorTypeOK
    <2>2. \A j \in page : gc.cursor < j
        BY <1>2, <1>4
    <2>3. \A k \in UUID : Stored(k) /\ gc.cursor < k => k \in page \/ \A j \in page : j < k
        BY <1>2, <1>4
    <2>4. OrphansAhead'
        BY <1>1, <2>1, <2>2, <2>3 DEF OrphansAhead, Stored
    <2>5. QED
        BY <2>1, <2>4
<1>8. QED
    BY <1>3, <1>5, <1>6, <1>7

\* What the listing has passed, over one step.
Passed(k) ==
    gc'.pc = "expire" \/ (gc'.pc = "list" /\ k <= gc'.cursor)

NotSkipped ==
    \A k \in UUID :
        gc.pc = "list" /\ Stored(k) /\ IsOrphan(k) /\ gc.cursor < k /\ Passed(k)
            => ~objects'[k].there \/ (gc'.cursor = k /\ VisitObject("fail"))

LEMMA ListingStep ==
    ASSUME DurabilityHypothesis, TypeInv, DurabilityInv, OrphansAhead, [Next]_vars
    PROVE  OrphansAhead' /\ NotSkipped
<1>1. \A k \in UUID : ~(gc.cursor < k /\ k <= gc.cursor)
    BY EnvironmentAssumption DEF UUID, NoID, TypeInv, TypeOK, CollectorTypeOK
<1>2. ASSUME gc' = gc,
             gc.pc = "list" => \A k \in UUID : objects'[k].there =>
                                  objects'[k] = objects[k] \/ objects'[k].modified > gc.cutoff
      PROVE  OrphansAhead' /\ NotSkipped
    BY <1>1, <1>2, ListingUndisturbed DEF NotSkipped, Passed
<1>3. ASSUME NEW r \in Requests, UploadRequest(r) PROVE OrphansAhead' /\ NotSkipped
    <2>1. gc' = gc
        BY <1>3 DEF UploadRequest
    <2>2. QED
        BY <1>2, <1>3, <2>1, AddedIsNew
<1>4. CASE (\E i \in UUID : DeleteFile(i)) \/ Tick \/ UNCHANGED vars
    <2>1. UNCHANGED <<objects, gc>>
        BY <1>4 DEF DeleteFile, Tick, vars
    <2>2. QED
        BY <1>2, <2>1
\* A sweep that is not listing.
<1>5. ASSUME gc.pc # "list", gc'.page = gc.page \/ gc'.page = {} PROVE OrphansAhead' /\ NotSkipped
    <2>1. gc'.page = {}
        BY <1>5 DEF OrphansAhead
    <2>2. QED
        BY <1>5, <2>1 DEF OrphansAhead, NotSkipped
<1>6. CASE Crash
    <2>1. gc'.pc = "idle" /\ gc'.page = {}
        BY <1>6 DEF Crash, NoSweep
    <2>2. QED
        BY <2>1 DEF OrphansAhead, NotSkipped, Passed
<1>7. CASE Sweep
    <2>1. PICK o \in GCOutcomes : StartSweep \/ TakeCutoff \/ SweepCall(o)
        <3>1. \E o \in GCOutcomes : TRUE
            BY DEF GCOutcomes, CallOutcomes
        <3>2. QED
            BY <1>7, <3>1 DEF Sweep, SweepStep
    <2>2. CASE StartSweep \/ TakeCutoff \/ PurgeRow(o) \/ ReadStorageKeys(o) \/ ExpireKeys(o)
        <3>1. gc.pc # "list" /\ (gc'.page = gc.page \/ gc'.page = {})
            <4>1. NoSweep.page = {}
                BY DEF NoSweep
            <4>2. CASE StartSweep \/ TakeCutoff
                BY <4>2 DEF StartSweep, TakeCutoff, TypeInv, TypeOK, CollectorTypeOK
            <4>3. CASE PurgeRow(o)
                BY <4>3 DEF PurgeRow, TypeInv, TypeOK, CollectorTypeOK
            <4>4. CASE ReadStorageKeys(o) \/ ExpireKeys(o)
                BY <4>1, <4>4 DEF ReadStorageKeys, ExpireKeys, TypeInv, TypeOK, CollectorTypeOK
            <4>5. QED
                BY <2>2, <4>2, <4>3, <4>4
        <3>2. QED
            BY <1>5, <3>1
    <2>3. CASE PurgeObject(o)
        <3>1. gc.pc # "list" /\ gc'.page = gc.page
            BY <2>3 DEF PurgeObject, TypeInv, TypeOK, CollectorTypeOK
        <3>2. QED
            BY <1>5, <3>1
    <2>4. CASE FetchPage(o)
        <3>1. OrphansAhead'
            BY <2>4, FetchSkipsNothing
        <3>2. ASSUME NEW k \in UUID, Stored(k), gc.cursor < k, Passed(k) PROVE FALSE
            BY <1>1, <2>4, <3>2, FetchSkipsNothing DEF Passed
        <3>3. QED
            BY <3>1, <3>2 DEF NotSkipped
    <2>5. CASE VisitObject(o)
        <3>1. /\ OrphansAhead'
              /\ \A k \in UUID : Stored(k) /\ IsOrphan(k) /\ gc.cursor < k /\ k <= gc'.cursor
                    => ~objects'[k].there \/ (gc'.cursor = k /\ o = "fail")
            BY <2>5, VisitMovesOn
        <3>2. gc'.pc = "list"
            BY <2>5 DEF VisitObject, TypeInv, TypeOK, CollectorTypeOK
        <3>3. QED
            BY <2>5, <3>1, <3>2 DEF NotSkipped, Passed
    <2>6. QED
        BY <2>1, <2>2, <2>3, <2>4, <2>5 DEF SweepCall
<1>8. QED
    BY <1>3, <1>4, <1>6, <1>7 DEF Next

\* However the pages of a listing fall, and whatever uploads write and clean
\* up between them, reclaimOrphans passes an orphan older than the grace
\* period only when that object's own delete failed.
THEOREM NoOrphanSkipped == DurabilityHypothesis => (Spec => OrphansNotSkipped)
<1> SUFFICES ASSUME DurabilityHypothesis PROVE Spec => OrphansNotSkipped
    OBVIOUS
<1> DEFINE Step == \A k \in UUID :
          /\ gc.pc = "list" /\ Stored(k) /\ IsOrphan(k) /\ gc.cursor < k
          /\ gc'.pc = "expire" \/ (gc'.pc = "list" /\ k <= gc'.cursor)
          => ~objects'[k].there \/ (gc'.cursor = k /\ VisitObject("fail"))
<1>1. Init => OrphansAhead
    BY DEF Init, CollectorInit, NoSweep, OrphansAhead
<1>2. TypeInv /\ DurabilityInv /\ OrphansAhead /\ [Next]_vars => OrphansAhead' /\ [Step]_vars
    BY ListingStep DEF NotSkipped, Passed
<1>3. QED
    BY <1>1, <1>2, DurabilityInvariant, PTL DEF Spec, OrphansNotSkipped

-----------------------------------------------------------------------------
(* The batch purgeDeleted works on. *)

Deletable(i) == Deleted(i) /\ files[i].key \notin Poisoned

\* Storage keys are private, so a batch made only of rows whose object
\* cannot be deleted is no larger than the set of such objects.
LEMMA StuckRowsAreFew ==
    ASSUME TypeInv, RowKeysUnique, NEW b \in SUBSET UUID,
           \A i \in b : Deleted(i) /\ files[i].key \in Poisoned
    PROVE  Cardinality(b) <= Cardinality(Poisoned)
<1> DEFINE f == [i \in b |-> files[i].key]
<1>1. \A i \in b : HasRow(i)
    BY DEF HasRow, Deleted, NoRow
<1>2. f \in [b -> Poisoned]
    OBVIOUS
<1>3. \A i, j \in b : f[i] = f[j] => i = j
    BY <1>1 DEF RowKeysUnique
<1>4. f \in Injection(b, Poisoned)
    BY <1>2, <1>3 DEF Injection, IsInjective
<1>5. IsFiniteSet(Poisoned)
    BY PoisonedAssumption, KeysAreFinite
<1>6. QED
    BY <1>4, <1>5, FS_Injection

LEMMA BatchHasDeletable ==
    ASSUME TypeInv, RowKeysUnique, Cardinality(Poisoned) < Batch,
           NEW b \in DeletedBatches(Batch), NEW w \in UUID, Deletable(w)
    PROVE  \E i \in b : Deletable(i)
<1> DEFINE all == {i \in UUID : Deleted(i)}
           n   == IF Cardinality(all) < Batch THEN Cardinality(all) ELSE Batch
<1>1. b \in SUBSET all /\ Cardinality(b) = n
    BY DEF DeletedBatches
<1>2. all \in SUBSET UUID /\ w \in all
    BY DEF Deletable
<1> HIDE DEF all
<1>3. /\ IsFiniteSet(all) /\ Cardinality(all) \in Nat /\ Cardinality(b) \in Nat
      /\ Cardinality(Poisoned) \in Nat /\ Batch \in Nat
    BY <1>1, <1>2, KeysAreFinite, PoisonedAssumption, CollectorAssumption
<1>4. CASE w \in b
    BY <1>4
<1>5. CASE w \notin b
    <2>1. Cardinality(b) # Cardinality(all)
        BY <1>1, <1>2, <1>3, <1>5, FS_Subset
    <2>2. Cardinality(b) = Batch
        BY <1>1, <2>1
    <2>3. ~(Cardinality(b) <= Cardinality(Poisoned))
        BY <1>3, <2>2
    <2>4. PICK i \in b : ~(Deleted(i) /\ files[i].key \in Poisoned)
        BY <1>1, <1>2, <2>3, StuckRowsAreFew
    <2>5. Deleted(i)
        BY <1>1, <2>4 DEF all
    <2>6. QED
        BY <2>4, <2>5 DEF Deletable
<1>6. QED
    BY <1>4, <1>5

\* ListDeleted hands out the oldest rows first, so those whose object can
\* never be deleted are at the head of every batch.  While such objects are
\* fewer than a batch holds, a sweep that starts while another row waits
\* gets a row it can purge.
THEOREM BatchesMakeProgress ==
    DurabilityHypothesis /\ Cardinality(Poisoned) < Batch =>
        (Spec => [][StartSweep /\ (\E w \in UUID : Deletable(w))
                       => \E i \in gc'.batch : Deletable(i)]_vars)
<1> SUFFICES ASSUME DurabilityHypothesis, Cardinality(Poisoned) < Batch
             PROVE  Spec => [][StartSweep /\ (\E w \in UUID : Deletable(w))
                                  => \E i \in gc'.batch : Deletable(i)]_vars
    OBVIOUS
<1>1. TypeInv /\ DurabilityInv => (StartSweep /\ (\E w \in UUID : Deletable(w))
                                      => \E i \in gc'.batch : Deletable(i))
    <2> SUFFICES ASSUME TypeInv, DurabilityInv, StartSweep, NEW w \in UUID, Deletable(w)
                 PROVE  \E i \in gc'.batch : Deletable(i)
        OBVIOUS
    <2>1. PICK b \in DeletedBatches(Batch) : gc' = [gc EXCEPT !.pc = "purge", !.batch = b]
        BY DEF StartSweep
    <2>2. gc'.batch = b
        BY <2>1 DEF TypeInv, TypeOK, CollectorTypeOK
    <2>3. RowKeysUnique
        BY DEF DurabilityInv, KeysPrivate
    <2>4. QED
        BY <2>2, <2>3, BatchHasDeletable
<1>2. QED
    BY <1>1, DurabilityInvariant, PTL
=============================================================================
