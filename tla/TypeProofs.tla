---------------------------- MODULE TypeProofs -----------------------------
(***************************************************************************)
(* CairnMark is type correct, for every value of its constants.            *)
(***************************************************************************)
EXTENDS CairnMarkInvariants, TLAPS

\* What RequestsInTime owes a step: a request in flight has just begun, or
\* began when it did.
StartsKept ==
    \A r \in Requests : InFlight(r)' =>
        req'[r].start = now \/ (InFlight(r) /\ req'[r].start = req[r].start)

\* The initial state is well typed.
LEMMA InitTypeInv == Init => TypeInv
<1> SUFFICES ASSUME Init PROVE TypeInv
    OBVIOUS
<1> USE EnvironmentAssumption DEF Init, UUID, NoID
<1>1. ObjectStoreTypeOK
    BY DEF ObjectStoreInit, ObjectStoreTypeOK, NoObject
<1>2. RepositoryTypeOK
    BY DEF RepositoryInit, RepositoryTypeOK, NoRow, NoClaim
<1>3. UploadTypeOK
    BY DEF UploadInit, UploadTypeOK, NoRequest, Working, Replies
<1>4. CollectorTypeOK
    BY DEF CollectorInit, CollectorTypeOK, NoSweep
<1>5. StagedTyped
    BY DEF UploadInit, StagedTyped, HasKeys, NoRequest
<1>6. QED
    BY <1>1, <1>2, <1>3, <1>4, <1>5 DEF TypeInv, TypeOK

\* The object store stays well typed under Put and Delete.
LEMMA StoreTyped ==
    ASSUME ObjectStoreTypeOK, NEW k, NEW at \in Int, NEW o, Put(k, at, o) \/ Delete(k, o)
    PROVE  ObjectStoreTypeOK'
<1> USE DEF ObjectStoreTypeOK
<1>1. CASE Put(k, at, o)
    <2>1. [there |-> TRUE, modified |-> at] \in [there: BOOLEAN, modified: Int]
        OBVIOUS
    <2>2. QED
        BY <1>1, <2>1 DEF Put
<1>2. CASE Delete(k, o)
    <2>1. NoObject \in [there: BOOLEAN, modified: Int]
        BY DEF NoObject
    <2>2. QED
        BY <1>2, <2>1 DEF Delete
<1>3. QED
    BY <1>1, <1>2

\* Only integers are written as timestamps.
LEMMA StampsAreIntegers ==
    ASSUME TypeInv, NEW since \in Int, NEW at \in Stamps(since)
    PROVE  at \in Int /\ at >= since - MaxSkew
BY EnvironmentAssumption DEF Stamps, TypeInv, TypeOK

\* A request is a record.  No step computes with the time it began at, so the
\* set of times is kept folded where a record is built or updated.
StartTimes    == Nat
RequestRecord ==
    [pc: Working \cup {"idle", "done"}, ikey: IdemKeys \cup {NoKey},
     id: UUID \cup {NoID}, key: UUID \cup {NoID}, start: StartTimes,
     gone: BOOLEAN, reply: Replies]

LEMMA RequestsAreRecords ==
    /\ UploadTypeOK <=> req \in [Requests -> RequestRecord]
    /\ UploadTypeOK' <=> req' \in [Requests -> RequestRecord]
BY DEF UploadTypeOK, RequestRecord, StartTimes

LEMMA AnswerIsRecord ==
    ASSUME NEW q \in RequestRecord, NEW rep \in Replies
    PROVE  LET a == [NoRequest EXCEPT !.pc = "done", !.ikey = q.ikey, !.reply = rep,
                         !.id = IF rep \in {"created", "replayed"} THEN q.id ELSE NoID]
           IN  a \in RequestRecord /\ a.pc = "done"
<1> DEFINE i == IF rep \in {"created", "replayed"} THEN q.id ELSE NoID
<1>1. NoRequest \in RequestRecord
    BY DEF NoRequest, RequestRecord, StartTimes, Replies
<1>2. q.ikey \in IdemKeys \cup {NoKey} /\ i \in UUID \cup {NoID}
    BY DEF RequestRecord
<1> HIDE DEF i
<1> DEFINE a == [NoRequest EXCEPT !.pc = "done", !.ikey = q.ikey, !.reply = rep, !.id = i]
<1>3. a \in RequestRecord
    BY <1>1, <1>2 DEF RequestRecord
<1>4. a.pc = "done"
    BY <1>1 DEF RequestRecord
<1> HIDE DEF a
<1>5. a \in RequestRecord /\ a.pc = "done"
    BY <1>3, <1>4
<1>6. QED
    BY <1>5 DEF a, i

LEMMA UpdateIsRecord ==
    ASSUME NEW q \in RequestRecord, NEW f \in UUID \cup {NoID}
    PROVE  /\ [q EXCEPT !.pc = "replay", !.id = f] \in RequestRecord
           /\ [q EXCEPT !.gone = TRUE] \in RequestRecord
           /\ \A k \in UUID : [q EXCEPT !.pc = "put", !.id = f, !.key = k] \in RequestRecord
<1>1. "replay" \in Working /\ "put" \in Working
    BY DEF Working
<1>2. QED
    BY <1>1 DEF RequestRecord

\* A request moved on by Goto or Answer stays well typed, if a move that
\* keeps its UUIDs finds them assigned.
LEMMA RequestTyped ==
    ASSUME TypeInv, NEW r \in Requests, NEW pc \in Working, NEW rep \in Replies,
           \/ Answer(r, rep)
           \/ /\ Goto(r, pc)
              /\ pc \in {"put", "stat", "commit", "cleanup"} => HasKeys(r)
              /\ pc \in {"claim", "readKey", "release"} => req[r].ikey \in IdemKeys
    PROVE  UploadTypeOK' /\ StagedTyped'
<1> USE DEF TypeInv, TypeOK, UploadTypeOK
<1>1. CASE Answer(r, rep)
    <2>1. DEFINE answered == [NoRequest EXCEPT !.pc = "done", !.ikey = req[r].ikey, !.reply = rep,
                     !.id = IF rep \in {"created", "replayed"} THEN req[r].id ELSE NoID]
    <2>2. req' = [req EXCEPT ![r] = answered]
        BY <1>1 DEF Answer
    <2>3. req \in [Requests -> RequestRecord]
        BY RequestsAreRecords
    <2>4. answered \in RequestRecord /\ answered.pc = "done"
        BY <2>3, AnswerIsRecord
    <2> HIDE DEF answered
    <2>5. UploadTypeOK'
        <3>1. req' \in [Requests -> RequestRecord]
            BY <2>2, <2>3, <2>4
        <3>2. QED
            BY <3>1, RequestsAreRecords
    <2>6. /\ req'[r].pc = "done"
          /\ \A q \in Requests : q # r => req'[q] = req[q]
        BY <2>2, <2>3, <2>4
    <2>7. StagedTyped'
        BY <2>6 DEF StagedTyped, HasKeys
    <2>8. QED
        BY <2>5, <2>7
<1>2. CASE /\ Goto(r, pc)
           /\ pc \in {"put", "stat", "commit", "cleanup"} => HasKeys(r)
           /\ pc \in {"claim", "readKey", "release"} => req[r].ikey \in IdemKeys
    BY <1>2 DEF Goto, StagedTyped, HasKeys
<1>3. QED
    BY <1>1, <1>2

\* A request that finds a file under its key, or whose client hangs up,
\* stays well typed.
LEMMA FieldsTyped ==
    ASSUME UploadTypeOK, NEW r \in Requests, NEW f \in UUID \cup {NoID},
           \/ req' = [req EXCEPT ![r].pc = "replay", ![r].id = f]
           \/ req' = [req EXCEPT ![r].gone = TRUE]
    PROVE  UploadTypeOK'
<1> DEFINE found == [req[r] EXCEPT !.pc = "replay", !.id = f]
           left  == [req[r] EXCEPT !.gone = TRUE]
<1>1. req \in [Requests -> RequestRecord]
    BY RequestsAreRecords
<1>2. found \in RequestRecord /\ left \in RequestRecord
    BY <1>1, UpdateIsRecord
<1>3. req' = [req EXCEPT ![r] = found] \/ req' = [req EXCEPT ![r] = left]
    OBVIOUS
<1> HIDE DEF found, left
<1>4. req' \in [Requests -> RequestRecord]
    BY <1>1, <1>2, <1>3
<1>5. QED
    BY <1>4, RequestsAreRecords

\* A claim that is completed is a claim.
LEMMA CompletedIsClaim ==
    ASSUME NEW c \in Claim, NEW f \in UUID
    PROVE  [c EXCEPT !.status = "completed", !.file = f] \in Claim
<1>1. PICK d : d = [c EXCEPT !.status = "completed"]
    OBVIOUS
<1>2. d \in Claim
    BY <1>1 DEF Claim
<1>3. [d EXCEPT !.file = f] \in Claim
    BY <1>2 DEF Claim
<1>4. QED
    BY <1>1, <1>3

\* The steps that change only the request.
LEMMA RequestOnlyTyped ==
    ASSUME TypeInv, NEW r \in Requests,
           Begin(r, NoKey) \/ (\E k \in IdemKeys : Begin(r, k)) \/ ClientGone(r)
             \/ ReadKey(r) \/ Replay(r) \/ StatObject(r)
    PROVE  UploadTypeOK' /\ StagedTyped'
<1> USE DEF TypeInv, TypeOK, UploadTypeOK
<1>1. ASSUME NEW k \in IdemKeys \cup {NoKey}, Begin(r, k)
      PROVE  UploadTypeOK' /\ StagedTyped'
    BY <1>1 DEF Begin, NoRequest, StagedTyped, HasKeys, Working, Replies, NoID
<1>2. CASE ClientGone(r)
    <2>1. req' = [req EXCEPT ![r].gone = TRUE]
        BY <1>2 DEF ClientGone
    <2>2. UploadTypeOK'
        BY <2>1, FieldsTyped
    <2>3. StagedTyped'
        BY <2>1 DEF StagedTyped, HasKeys
    <2>4. QED
        BY <2>2, <2>3
<1>3. CASE ReadKey(r)
    <2>1. CASE Answer(r, "conflict") \/ Answer(r, "error")
        BY <2>1, RequestTyped DEF Working, Replies
    <2>2. CASE req' = [req EXCEPT ![r].pc = "replay", ![r].id = idem[req[r].ikey].file]
        <3>1. req[r].ikey \in IdemKeys
            BY <1>3 DEF ReadKey, StagedTyped
        <3>2. idem[req[r].ikey].file \in UUID \cup {NoID}
            BY <3>1 DEF RepositoryTypeOK, Claim, NoClaim
        <3>3. UploadTypeOK'
            <4>1. PICK f \in UUID \cup {NoID} :
                     req' = [req EXCEPT ![r].pc = "replay", ![r].id = f]
                BY <2>2, <3>2
            <4>2. QED
                BY <4>1, FieldsTyped
        <3>4. StagedTyped'
            BY <2>2 DEF StagedTyped, HasKeys
        <3>5. QED
            BY <3>3, <3>4
    <2>3. QED
        BY <1>3, <2>1, <2>2 DEF ReadKey
<1>4. CASE Replay(r)
    BY <1>4, RequestTyped DEF Replay, Working, Replies
<1>5. CASE StatObject(r)
    BY <1>5, RequestTyped DEF StatObject, HasKeys, Working, Replies
<1>6. QED
    BY <1>1, <1>2, <1>3, <1>4, <1>5

\* The steps that also write to the store or the repository.
LEMMA RequestCallTyped ==
    ASSUME TypeInv, NEW r \in Requests,
           ClaimKey(r) \/ DrawKeys(r) \/ StageObject(r) \/ CommitPlain(r) \/ CommitForKey(r)
             \/ CleanUp(r) \/ ReleaseKey(r)
    PROVE  /\ UploadTypeOK' /\ StagedTyped' /\ ObjectStoreTypeOK' /\ RepositoryTypeOK'
           /\ serial' \in 0..MaxUUID
<1> USE DEF TypeInv, TypeOK
<1>0. TypeInv
    OBVIOUS
<1>g. ASSUME GiveUp(r) PROVE UploadTypeOK' /\ StagedTyped'
    BY <1>g, RequestTyped DEF GiveUp, Working, Replies, UploadTypeOK
<1>f. ASSUME NEW i \in UUID, NEW k \in UUID PROVE InsertFile(i, k) \in [UUID -> Row \cup {NoRow}]
    BY <1>f DEF InsertFile, Row, RepositoryTypeOK
<1>1. CASE ClaimKey(r)
    <2> PICK o \in CallOutcomes(req[r].gone), at \in Stamps(now) : ClaimKey(r)!2!(o, at)
        BY <1>1 DEF ClaimKey
    <2>1. UploadTypeOK' /\ StagedTyped'
        <3>1. req[r].ikey \in IdemKeys
            BY <1>1 DEF ClaimKey, StagedTyped
        <3>2. QED
            BY <3>1, RequestTyped DEF Working, Replies
    <2>2. RepositoryTypeOK'
        <3>1. at \in Int
            BY StampsAreIntegers
        <3>2. QED
            BY <3>1 DEF InsertClaim, RepositoryTypeOK, Claim, NoID
    <2>3. QED
        BY <1>1, <2>1, <2>2 DEF ClaimKey, ObjectStoreTypeOK
<1>2. CASE StageObject(r)
    <2> PICK o \in CallOutcomes(req[r].gone), at \in Stamps(req[r].start), sizeKnown \in BOOLEAN :
            /\ Put(req[r].key, at, o)
            /\ \/ Goto(r, "commit") \/ Goto(r, "stat") \/ GiveUp(r)
        BY <1>2 DEF StageObject
    <2>1. HasKeys(r) /\ req[r].key \in UUID
        BY <1>2 DEF StageObject, HasKeys, StagedTyped
    <2>2. ObjectStoreTypeOK'
        <3>1. at \in Int
            BY StampsAreIntegers DEF UploadTypeOK
        <3>2. QED
            BY <2>1, <3>1, StoreTyped
    <2>3. UploadTypeOK' /\ StagedTyped'
        BY <1>g, <2>1, RequestTyped DEF Working, Replies
    <2>4. QED
        BY <1>2, <2>2, <2>3 DEF StageObject, RepositoryTypeOK
<1>d. CASE DrawKeys(r)
    <2> DEFINE id == serial + 1  key == serial + 2
    <2>1. CASE GiveUp(r) /\ UNCHANGED serial
        BY <1>d, <1>g, <2>1 DEF DrawKeys, ObjectStoreTypeOK, RepositoryTypeOK
    <2>2. CASE /\ key <= MaxUUID /\ serial' = key
               /\ req' = [req EXCEPT ![r].pc = "put", ![r].id = id, ![r].key = key]
        <3>1. id \in UUID /\ key \in UUID /\ serial' \in 0..MaxUUID
            BY <2>2, EnvironmentAssumption DEF UUID
        <3> HIDE DEF id, key
        <3>2. UploadTypeOK'
            <4> DEFINE drawn == [req[r] EXCEPT !.pc = "put", !.id = id, !.key = key]
            <4>1. req \in [Requests -> RequestRecord]
                BY RequestsAreRecords
            <4>2. drawn \in RequestRecord
                BY <3>1, <4>1, UpdateIsRecord
            <4>3. req' = [req EXCEPT ![r] = drawn]
                BY <2>2
            <4> HIDE DEF drawn
            <4>4. QED
                BY <4>1, <4>2, <4>3, RequestsAreRecords
        <3>3. StagedTyped'
            BY <2>2, <3>1 DEF UploadTypeOK, StagedTyped, HasKeys
        <3>4. QED
            BY <1>d, <3>1, <3>2, <3>3 DEF DrawKeys, ObjectStoreTypeOK, RepositoryTypeOK
    <2>3. QED
        BY <1>d, <2>1, <2>2 DEF DrawKeys
<1>3. CASE CommitPlain(r)
    <2>1. RepositoryTypeOK'
        BY <1>3, <1>f DEF CommitPlain, Create, RepositoryTypeOK, StagedTyped, HasKeys
    <2>2. UploadTypeOK' /\ StagedTyped'
        BY <1>3, RequestTyped DEF CommitPlain, HasKeys, Working, Replies
    <2>3. QED
        BY <1>3, <2>1, <2>2 DEF CommitPlain, ObjectStoreTypeOK
<1>4. CASE CommitForKey(r)
    <2>1. RepositoryTypeOK'
        <3>1. req[r].id \in UUID /\ req[r].key \in UUID /\ req[r].ikey \in IdemKeys
            BY <1>4 DEF CommitForKey, StagedTyped, HasKeys, UploadTypeOK
        <3>2. PICK o \in IF Completable(req[r].ikey) THEN CommitOutcomes(req[r].gone) ELSE {"fail"} :
                 CreateForKey(req[r].id, req[r].key, req[r].ikey, o)
            BY <1>4 DEF CommitForKey
        <3>3. CASE o = "fail"
            BY <3>2, <3>3 DEF CreateForKey, RepositoryTypeOK
        <3>4. CASE o # "fail"
            <4>1. idem[req[r].ikey] \in Claim
                BY <3>1, <3>2, <3>4 DEF Completable, Claimed, NoClaim, RepositoryTypeOK
            <4>2. [idem[req[r].ikey] EXCEPT !.status = "completed", !.file = req[r].id] \in Claim
                BY <3>1, <4>1, CompletedIsClaim
            <4>3. idem' \in [IdemKeys -> Claim \cup {NoClaim}]
                <5>1. idem' = [idem EXCEPT ![req[r].ikey] =
                                  [idem[req[r].ikey] EXCEPT !.status = "completed", !.file = req[r].id]]
                    BY <3>2, <3>4 DEF CreateForKey
                <5>2. idem \in [IdemKeys -> Claim \cup {NoClaim}]
                    BY DEF RepositoryTypeOK
                <5>3. PICK c \in Claim : idem' = [idem EXCEPT ![req[r].ikey] = c]
                    BY <4>2, <5>1
                <5>4. QED
                    BY <5>2, <5>3
            <4>4. files' \in [UUID -> Row \cup {NoRow}]
                BY <1>f, <3>1, <3>2, <3>4 DEF CreateForKey
            <4>5. made' \in [IdemKeys -> SUBSET UUID]
                BY <3>1, <3>2, <3>4 DEF CreateForKey, RepositoryTypeOK
            <4>6. QED
                BY <4>3, <4>4, <4>5 DEF RepositoryTypeOK
        <3>5. QED
            BY <3>3, <3>4
    <2>2. UploadTypeOK' /\ StagedTyped'
        BY <1>4, RequestTyped DEF CommitForKey, HasKeys, Working, Replies
    <2>3. QED
        BY <1>4, <2>1, <2>2 DEF CommitForKey, ObjectStoreTypeOK
<1>5. CASE CleanUp(r)
    <2>1. ObjectStoreTypeOK'
        BY <1>5, StoreTyped DEF CleanUp
    <2>2. QED
        BY <1>5, <1>g, <2>1 DEF CleanUp, RepositoryTypeOK
<1>6. CASE ReleaseKey(r)
    <2>1. RepositoryTypeOK'
        BY <1>6 DEF ReleaseKey, ReleaseClaim, RepositoryTypeOK
    <2>2. UploadTypeOK' /\ StagedTyped'
        BY <1>6, RequestTyped DEF ReleaseKey, Working, Replies
    <2>3. QED
        BY <1>6, <2>1, <2>2 DEF ReleaseKey, ObjectStoreTypeOK
<1>7. QED
    BY <1>1, <1>2, <1>d, <1>3, <1>4, <1>5, <1>6

\* The collector's steps.
LEMMA SweepTyped ==
    ASSUME TypeInv, SweepStep
    PROVE  CollectorTypeOK' /\ ObjectStoreTypeOK' /\ RepositoryTypeOK'
<1> USE DEF TypeInv, TypeOK
<1>n. NoSweep \in [pc: {"idle", "purge", "purgeRow", "cutoff", "list", "expire"},
                   batch: SUBSET UUID, row: UUID \cup {NoID}, seen: SUBSET UUID,
                   seenAt: Nat, cutoff: Int, page: SUBSET UUID, cursor: UUID \cup {NoID}]
    BY DEF NoSweep, NoID
<1>1. CASE StartSweep
    <2>1. PICK b \in DeletedBatches(Batch) : gc' = [gc EXCEPT !.pc = "purge", !.batch = b]
        BY <1>1 DEF StartSweep
    <2>2. b \in SUBSET UUID
        BY DEF DeletedBatches
    <2>3. CollectorTypeOK'
        BY <2>1, <2>2 DEF CollectorTypeOK
    <2>4. QED
        BY <1>1, <2>3 DEF StartSweep, ObjectStoreTypeOK, RepositoryTypeOK
<1>2. CASE TakeCutoff
    <2>1. now - Grace \in Int
        BY CollectorAssumption
    <2>2. CollectorTypeOK'
        BY <1>2, <2>1 DEF TakeCutoff, CollectorTypeOK
    <2>3. QED
        BY <1>2, <2>2 DEF TakeCutoff, ObjectStoreTypeOK, RepositoryTypeOK
<1>3. ASSUME NEW o, PurgeObject(o)
      PROVE  CollectorTypeOK' /\ ObjectStoreTypeOK' /\ RepositoryTypeOK'
    <2>1. PICK i \in gc.batch :
             /\ Delete(files[i].key, o)
             /\ gc' = IF o = "ok" THEN [gc EXCEPT !.pc = "purgeRow", !.row = i]
                      ELSE [gc EXCEPT !.batch = @ \ {i}]
        BY <1>3 DEF PurgeObject
    <2>2. CollectorTypeOK'
        BY <2>1 DEF CollectorTypeOK
    <2>3. ObjectStoreTypeOK'
        BY <2>1, StoreTyped
    <2>4. QED
        BY <1>3, <2>2, <2>3 DEF PurgeObject, RepositoryTypeOK
<1>4. ASSUME NEW o, PurgeRow(o)
      PROVE  CollectorTypeOK' /\ ObjectStoreTypeOK' /\ RepositoryTypeOK'
    <2>1. CollectorTypeOK'
        BY <1>4 DEF PurgeRow, CollectorTypeOK
    <2>2. RepositoryTypeOK'
        BY <1>4 DEF PurgeRow, Purge, RepositoryTypeOK
    <2>3. QED
        BY <1>4, <2>1, <2>2 DEF PurgeRow, ObjectStoreTypeOK
<1>5. ASSUME NEW o, ReadStorageKeys(o)
      PROVE  CollectorTypeOK' /\ ObjectStoreTypeOK' /\ RepositoryTypeOK'
    <2>1. StorageKeys \in SUBSET UUID
        BY DEF StorageKeys, RepositoryTypeOK, Row
    <2>2. CollectorTypeOK'
        BY <1>5, <1>n, <2>1 DEF ReadStorageKeys, CollectorTypeOK
    <2>3. QED
        BY <1>5, <2>2 DEF ReadStorageKeys, ObjectStoreTypeOK, RepositoryTypeOK
<1>6. ASSUME NEW o, FetchPage(o)
      PROVE  CollectorTypeOK' /\ ObjectStoreTypeOK' /\ RepositoryTypeOK'
    <2>1. Page(gc.cursor, PageSize) \in SUBSET UUID
        BY DEF Page
    <2>2. [NoSweep EXCEPT !.pc = "expire"] \in
             [pc: {"idle", "purge", "purgeRow", "cutoff", "list", "expire"},
              batch: SUBSET UUID, row: UUID \cup {NoID}, seen: SUBSET UUID,
              seenAt: Nat, cutoff: Int, page: SUBSET UUID, cursor: UUID \cup {NoID}]
        BY <1>n
    <2>3. CollectorTypeOK'
        BY <1>6, <1>n, <2>1, <2>2 DEF FetchPage, CollectorTypeOK
    <2>4. QED
        BY <1>6, <2>3 DEF FetchPage, ObjectStoreTypeOK, RepositoryTypeOK
<1>7. ASSUME NEW o, VisitObject(o)
      PROVE  CollectorTypeOK' /\ ObjectStoreTypeOK' /\ RepositoryTypeOK'
    <2>1. PICK k \in gc.page :
             /\ IF IsOrphan(k) THEN Delete(k, o) ELSE o = "ok" /\ UNCHANGED objects
             /\ gc' = [gc EXCEPT !.page = @ \ {k}, !.cursor = k]
        BY <1>7 DEF VisitObject
    <2>2. CollectorTypeOK'
        BY <2>1 DEF CollectorTypeOK
    <2>3. ObjectStoreTypeOK'
        <3>1. CASE IsOrphan(k)
            BY <2>1, <3>1, StoreTyped
        <3>2. CASE ~IsOrphan(k)
            BY <2>1, <3>2 DEF ObjectStoreTypeOK
        <3>3. QED
            BY <3>1, <3>2
    <2>4. QED
        BY <1>7, <2>2, <2>3 DEF VisitObject, RepositoryTypeOK
<1>8. ASSUME NEW o, ExpireKeys(o)
      PROVE  CollectorTypeOK' /\ ObjectStoreTypeOK' /\ RepositoryTypeOK'
    <2>1. CollectorTypeOK'
        BY <1>8, <1>n DEF ExpireKeys, CollectorTypeOK
    <2>2. RepositoryTypeOK'
        BY <1>8 DEF ExpireKeys, PurgeIdempotencyKeys, RepositoryTypeOK
    <2>3. QED
        BY <1>8, <2>1, <2>2 DEF ExpireKeys, ObjectStoreTypeOK
<1>9. QED
    BY <1>1, <1>2, <1>3, <1>4, <1>5, <1>6, <1>7, <1>8 DEF SweepStep, SweepCall

\* Every step preserves the types.
LEMMA NextTypeInv == TypeInv /\ [Next]_vars => TypeInv'
<1> SUFFICES ASSUME TypeInv, [Next]_vars PROVE TypeInv'
    OBVIOUS
<1> USE DEF TypeInv, TypeOK
<1>1. ASSUME NEW r \in Requests, UploadRequest(r) PROVE TypeInv'
    <2>1. CASE (\E k \in IdemKeys \cup {NoKey} : Begin(r, k)) \/ ClientGone(r)
                 \/ ReadKey(r) \/ Replay(r) \/ StatObject(r)
        <3>1. UploadTypeOK' /\ StagedTyped'
            BY <2>1, RequestOnlyTyped
        <3>2. UNCHANGED <<objects, files, idem, made, serial>>
            BY <2>1 DEF Begin, ClientGone, ReadKey, Replay, StatObject
        <3>3. QED
            BY <1>1, <3>1, <3>2
               DEF UploadRequest, ObjectStoreTypeOK, RepositoryTypeOK, CollectorTypeOK
    <2>2. CASE ClaimKey(r) \/ DrawKeys(r) \/ StageObject(r) \/ CommitPlain(r) \/ CommitForKey(r)
                 \/ CleanUp(r) \/ ReleaseKey(r)
        BY <1>1, <2>2, RequestCallTyped DEF UploadRequest, CollectorTypeOK
    <2>3. QED
        BY <1>1, <2>1, <2>2 DEF UploadRequest, RequestStep
<1>2. ASSUME NEW i \in UUID, DeleteFile(i) PROVE TypeInv'
    <2>1. RepositoryTypeOK'
        <3>1. files[i] \in Row
            BY <1>2 DEF DeleteFile, SoftDelete, Live, RepositoryTypeOK, NoRow
        <3>2. [files[i] EXCEPT !.state = "deleted", !.deletedAt = now] \in Row
            BY <3>1 DEF Row
        <3>3. QED
            BY <1>2, <3>2 DEF DeleteFile, SoftDelete, RepositoryTypeOK
    <2>2. QED
        BY <1>2, <2>1 DEF DeleteFile, ObjectStoreTypeOK, UploadTypeOK, CollectorTypeOK,
                          StagedTyped, HasKeys
<1>3. CASE Sweep
    BY <1>3, SweepTyped DEF Sweep, UploadTypeOK, StagedTyped, HasKeys
<1>4. CASE Tick
    BY <1>4 DEF Tick, ObjectStoreTypeOK, RepositoryTypeOK, UploadTypeOK, CollectorTypeOK,
                StagedTyped, HasKeys
<1>5. CASE Crash
    <2>1. UploadTypeOK' /\ StagedTyped'
        BY <1>5 DEF Crash, UploadTypeOK, StagedTyped, HasKeys, NoRequest, Working, Replies
    <2>2. CollectorTypeOK'
        BY <1>5 DEF Crash, CollectorTypeOK, NoSweep
    <2>3. QED
        BY <1>5, <2>1, <2>2 DEF Crash, ObjectStoreTypeOK, RepositoryTypeOK
<1>6. CASE UNCHANGED vars
    BY <1>6 DEF vars, ObjectStoreTypeOK, RepositoryTypeOK, UploadTypeOK, CollectorTypeOK,
                StagedTyped, HasKeys
<1>7. QED
    BY <1>1, <1>2, <1>3, <1>4, <1>5, <1>6 DEF Next

\* Types are an invariant of every behaviour.
LEMMA TypeInvariant == Spec => []TypeInv
BY InitTypeInv, NextTypeInv, PTL DEF Spec

\* Every reachable state of the service is well typed: in particular stage
\* and the commits never write a row without a generated storage key.
THEOREM TypeCorrect == Spec => []TypeOK
<1>1. TypeInv => TypeOK
    BY DEF TypeInv
<1>2. QED
    BY <1>1, TypeInvariant, PTL
=============================================================================
