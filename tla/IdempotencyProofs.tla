------------------------- MODULE IdempotencyProofs -------------------------
(***************************************************************************)
(* One idempotency key makes at most one file, for every value of the      *)
(* constants under which a claim outlives the upload that made it, and     *)
(* whatever calls fail or lose their answer, commits included.             *)
(***************************************************************************)
EXTENDS TypeProofs

\* The request gains no claim, and keeps what it had.
NoNewOwner ==
    \A r \in Requests : OwnsKey(r)' =>
        /\ OwnsKey(r) /\ req'[r].ikey = req[r].ikey /\ req'[r].start = req[r].start
        /\ req'[r].pc \in {"stage", "put", "stat", "commit"} => req[r].pc \in {"stage", "put", "stat", "commit"}

\* The claims of those who own one after the step are as they were.
OwnedClaimsKept ==
    \A r \in Requests : OwnsKey(r)' => idem'[req'[r].ikey] = idem[req'[r].ikey]

\* A request that owns a key has one: CreateForKey and the release name it.
LEMMA OwnedKeyIsKey ==
    ASSUME TypeInv, NEW r \in Requests, OwnsKey(r)
    PROVE  req[r].ikey \in IdemKeys
BY DEF OwnsKey, TypeInv, TypeOK, UploadTypeOK

\* A step that neither begins a request nor moves the clock keeps requests in time.
LEMMA TimeKept ==
    ASSUME TypeInv, RequestsInTime, StartsKept, now' = now
    PROVE  RequestsInTime'
BY UploadAssumption DEF RequestsInTime, StartsKept, InFlight, TypeInv, TypeOK

\* A step that gives nobody a claim and leaves the claims held alone.
LEMMA ClaimsKept ==
    ASSUME TypeInv, IdempotencyInv, NoNewOwner, OwnedClaimsKept
    PROVE  ClaimExclusive' /\ OwnerHasClaim'
<1> USE DEF IdempotencyInv
<1>1. ClaimExclusive'
    BY DEF ClaimExclusive, NoNewOwner
<1>2. OwnerHasClaim'
    <2> SUFFICES ASSUME NEW r \in Requests, OwnsKey(r)'
                 PROVE  /\ Claimed(req[r].ikey)'
                        /\ idem'[req'[r].ikey].createdAt >= req'[r].start - MaxSkew
                        /\ req'[r].pc \in {"stage", "put", "stat", "commit"}
                              => idem'[req'[r].ikey].status = "pending"
        BY DEF OwnerHasClaim
    <2>1. /\ OwnsKey(r) /\ req'[r].ikey = req[r].ikey /\ req'[r].start = req[r].start
          /\ idem'[req'[r].ikey] = idem[req'[r].ikey]
          /\ req'[r].pc \in {"stage", "put", "stat", "commit"} => req[r].pc \in {"stage", "put", "stat", "commit"}
        BY DEF NoNewOwner, OwnedClaimsKept
    <2>2. QED
        BY <2>1 DEF OwnerHasClaim, Claimed
<1>3. QED
    BY <1>1, <1>2

\* The same for a request step that leaves the keys table alone.
LEMMA QuietForKeys ==
    ASSUME TypeInv, IdempotencyInv, NoNewOwner, StartsKept, UNCHANGED <<now, idem, made>>
    PROVE  IdempotencyInv'
<1>1. OwnedClaimsKept
    BY DEF OwnedClaimsKept
<1>2. MadeIsRecorded'
    BY DEF IdempotencyInv, MadeIsRecorded
<1>3. QED
    BY <1>1, <1>2, ClaimsKept, TimeKept DEF IdempotencyInv

\* Answering, or moving on within what the request already holds.
LEMMA KeyMoves ==
    ASSUME TypeInv, NEW r \in Requests, InFlight(r), NEW pc \in Working, NEW rep,
           \/ Answer(r, rep)
           \/ /\ Goto(r, pc)
              /\ \/ pc \in {"claim", "readKey", "replay"}
                 \/ pc \in {"cleanup", "release"} /\ (req[r].ikey # NoKey => OwnsKey(r))
                 \/ pc \in {"stat", "commit"} /\ req[r].pc \in {"stage", "put", "stat", "commit"}
    PROVE  NoNewOwner /\ StartsKept
<1> USE DEF TypeInv, TypeOK, UploadTypeOK
<1>1. CASE Answer(r, rep)
    BY <1>1 DEF Answer, NoNewOwner, StartsKept, OwnsKey, InFlight, NoRequest, Working
<1>2. CASE Goto(r, pc) /\ pc \in {"claim", "readKey", "replay"}
    BY <1>2 DEF Goto, NoNewOwner, StartsKept, OwnsKey, InFlight
<1>3. CASE Goto(r, pc) /\ pc \in {"cleanup", "release"} /\ (req[r].ikey # NoKey => OwnsKey(r))
    BY <1>3 DEF Goto, NoNewOwner, StartsKept, OwnsKey, InFlight
<1>4. CASE Goto(r, pc) /\ pc \in {"stat", "commit"} /\ req[r].pc \in {"stage", "put", "stat", "commit"}
    BY <1>4 DEF Goto, NoNewOwner, StartsKept, OwnsKey, InFlight
<1>5. QED
    BY <1>1, <1>2, <1>3, <1>4

\* GiveUp takes a request out of the upload and claims nothing.
LEMMA KeyGivesUp ==
    ASSUME TypeInv, NEW r \in Requests, req[r].pc \in {"stage", "put", "stat", "commit", "cleanup"},
           GiveUp(r)
    PROVE  NoNewOwner /\ StartsKept
BY KeyMoves DEF GiveUp, Working, InFlight, OwnsKey

-----------------------------------------------------------------------------
\* The steps of a request that leave the keys table alone.
LEMMA IdempotencyQuietRequests ==
    ASSUME TypeInv, IdempotencyInv, NEW r \in Requests, now' = now,
           \/ \E k \in IdemKeys \cup {NoKey} : Begin(r, k)
           \/ ClientGone(r) \/ ReadKey(r) \/ Replay(r) \/ DrawKeys(r) \/ StageObject(r)
           \/ StatObject(r) \/ CommitPlain(r) \/ CleanUp(r)
    PROVE  IdempotencyInv'
<1> USE DEF TypeInv, TypeOK, UploadTypeOK
<1>1. ASSUME NEW k \in IdemKeys \cup {NoKey}, Begin(r, k) PROVE IdempotencyInv'
    <2>1. StartsKept
        BY <1>1 DEF Begin, NoRequest, StartsKept, InFlight
    <2>2. NoNewOwner \/ k = NoKey
        BY <1>1 DEF Begin, NoRequest, NoNewOwner, OwnsKey
    <2>3. k = NoKey => NoNewOwner
        BY <1>1 DEF Begin, NoRequest, NoNewOwner, OwnsKey
    <2>4. QED
        BY <1>1, <2>1, <2>2, <2>3, QuietForKeys DEF Begin
<1>2. CASE ClientGone(r)
    <2>1. NoNewOwner /\ StartsKept
        BY <1>2 DEF ClientGone, NoNewOwner, StartsKept, OwnsKey, InFlight
    <2>2. QED
        BY <1>2, <2>1, QuietForKeys DEF ClientGone
<1>3. CASE ReadKey(r)
    <2>1. InFlight(r) /\ UNCHANGED <<idem, made>>
        BY <1>3 DEF ReadKey, InFlight, Working
    <2>2. \/ Answer(r, "conflict") \/ Answer(r, "error")
          \/ req' = [req EXCEPT ![r].pc = "replay", ![r].id = idem[req[r].ikey].file]
        BY <1>3 DEF ReadKey
    <2>3. NoNewOwner /\ StartsKept
        <3>1. CASE req' = [req EXCEPT ![r].pc = "replay", ![r].id = idem[req[r].ikey].file]
            BY <2>1, <3>1 DEF NoNewOwner, StartsKept, OwnsKey, InFlight
        <3>2. QED
            BY <2>1, <2>2, <3>1, KeyMoves DEF Working
    <2>4. QED
        BY <2>1, <2>3, QuietForKeys
<1>4. CASE Replay(r)
    <2>1. InFlight(r) /\ UNCHANGED <<idem, made>>
        BY <1>4 DEF Replay, InFlight, Working
    <2>2. Answer(r, "replayed") \/ Answer(r, "resultGone") \/ Answer(r, "error")
        BY <1>4 DEF Replay
    <2>3. NoNewOwner /\ StartsKept
        BY <2>1, <2>2, KeyMoves DEF Working
    <2>4. QED
        BY <2>1, <2>3, QuietForKeys
<1>5. CASE StageObject(r)
    <2>1. /\ InFlight(r) /\ req[r].pc = "put" /\ UNCHANGED <<idem, made>>
          /\ GiveUp(r) \/ Goto(r, "stat") \/ Goto(r, "commit")
        BY <1>5 DEF StageObject, InFlight, Working
    <2>2. NoNewOwner /\ StartsKept
        BY <2>1, KeyGivesUp, KeyMoves DEF Working
    <2>3. QED
        BY <2>1, <2>2, QuietForKeys
<1>d. CASE DrawKeys(r)
    <2>1. InFlight(r) /\ req[r].pc = "stage" /\ UNCHANGED <<idem, made>>
        BY <1>d DEF DrawKeys, InFlight, Working
    <2>2. NoNewOwner /\ StartsKept
        <3>1. CASE GiveUp(r)
            BY <2>1, <3>1, KeyGivesUp
        <3>2. ASSUME NEW i, NEW k, req' = [req EXCEPT ![r].pc = "put", ![r].id = i, ![r].key = k]
              PROVE  NoNewOwner /\ StartsKept
            BY <2>1, <3>2 DEF NoNewOwner, StartsKept, OwnsKey, InFlight
        <3>3. QED
            BY <1>d, <3>1, <3>2 DEF DrawKeys
    <2>3. QED
        BY <2>1, <2>2, QuietForKeys
<1>6. CASE StatObject(r)
    <2>1. /\ InFlight(r) /\ req[r].pc = "stat" /\ UNCHANGED <<idem, made>>
          /\ Goto(r, "commit") \/ Goto(r, "cleanup")
        BY <1>6 DEF StatObject, InFlight, Working
    <2>2. NoNewOwner /\ StartsKept
        BY <2>1, KeyMoves DEF Working, OwnsKey
    <2>3. QED
        BY <2>1, <2>2, QuietForKeys
<1>7. CASE CommitPlain(r)
    <2>1. /\ InFlight(r) /\ req[r].pc = "commit" /\ UNCHANGED <<idem, made>>
          /\ Answer(r, "created") \/ Goto(r, "cleanup")
        BY <1>7 DEF CommitPlain, Create, InFlight, Working
    <2>2. NoNewOwner /\ StartsKept
        BY <2>1, KeyMoves DEF Working, OwnsKey
    <2>3. QED
        BY <2>1, <2>2, QuietForKeys
<1>8. CASE CleanUp(r)
    <2>1. NoNewOwner /\ StartsKept
        BY <1>8, KeyGivesUp DEF CleanUp
    <2>2. QED
        BY <1>8, <2>1, QuietForKeys DEF CleanUp
<1>9. QED
    BY <1>1, <1>2, <1>3, <1>4, <1>d, <1>5, <1>6, <1>7, <1>8

\* Claiming a key: the insert makes one owner, or none.
LEMMA IdempotencyClaim ==
    ASSUME TypeInv, IdempotencyInv, NEW r \in Requests, now' = now, ClaimKey(r)
    PROVE  IdempotencyInv'
<1> USE DEF IdempotencyInv
<1> DEFINE key == req[r].ikey
<1>1. req[r].pc = "claim" /\ InFlight(r) /\ ~OwnsKey(r) /\ key \in IdemKeys
    BY DEF ClaimKey, InFlight, Working, OwnsKey, TypeInv, StagedTyped
<1>2. PICK o \in CallOutcomes(req[r].gone), at \in Stamps(now) :
         /\ InsertClaim(key, at, o)
         /\ \/ o = "ok" /\ ~Claimed(key) /\ Goto(r, "stage")
            \/ o = "ok" /\ Claimed(key)  /\ Goto(r, "readKey")
            \/ o # "ok" /\ Answer(r, "error")
    BY DEF ClaimKey
<1>3. \A s \in Requests : OwnsKey(s) => req[s].ikey \in IdemKeys /\ Claimed(req[s].ikey)
    BY OwnedKeyIsKey DEF OwnerHasClaim
<1>4. UNCHANGED made
    BY <1>2 DEF InsertClaim
<1>5. /\ \A k \in IdemKeys : idem'[k] = idem[k] \/ (k = key /\ ~Claimed(key) /\
                                idem'[k] = [status |-> "pending", file |-> NoID, createdAt |-> at])
      /\ o = "ok" /\ ~Claimed(key)
           => idem'[key] = [status |-> "pending", file |-> NoID, createdAt |-> at]
    BY <1>1, <1>2 DEF InsertClaim, TypeInv, TypeOK, RepositoryTypeOK
<1>6. MadeIsRecorded'
    BY <1>4, <1>5 DEF MadeIsRecorded, Claimed
<1>7. CASE Answer(r, "error") \/ Goto(r, "readKey")
    <2>1. NoNewOwner /\ StartsKept
        BY <1>1, <1>7, KeyMoves DEF Working
    <2>2. OwnedClaimsKept
        BY <1>3, <1>5, <2>1 DEF OwnedClaimsKept, NoNewOwner
    <2>3. QED
        BY <1>6, <2>1, <2>2, ClaimsKept, TimeKept
<1>8. CASE o = "ok" /\ ~Claimed(key) /\ Goto(r, "stage")
    <2>1. /\ req'[r].pc = "stage" /\ req'[r].ikey = key /\ req'[r].start = req[r].start
          /\ \A s \in Requests : s # r => req'[s] = req[s]
        BY <1>8 DEF Goto, TypeInv, TypeOK, UploadTypeOK
    <2>2. StartsKept
        BY <1>1, <2>1 DEF StartsKept, InFlight
    <2>3. \A s \in Requests : s # r => (OwnsKey(s)' <=> OwnsKey(s))
        BY <2>1 DEF OwnsKey
    <2>4. \A s \in Requests : s # r /\ OwnsKey(s) => req[s].ikey # key
        BY <1>3, <1>8
    <2>5. ClaimExclusive'
        BY <2>1, <2>3, <2>4 DEF ClaimExclusive
    <2>6. /\ at \in Int /\ at >= now - MaxSkew /\ now \in Nat /\ req[r].start \in Nat
          /\ req[r].start <= now
        BY <1>1, StampsAreIntegers DEF TypeInv, TypeOK, UploadTypeOK, RequestsInTime
    <2>7. at >= req[r].start - MaxSkew
        BY <2>6, EnvironmentAssumption
    <2>8. OwnerHasClaim'
        <3>1. ASSUME NEW s \in Requests, s # r, OwnsKey(s)'
              PROVE  idem'[req'[s].ikey] = idem[req[s].ikey] /\ OwnsKey(s) /\ req'[s] = req[s]
            BY <1>3, <1>5, <2>1, <2>3, <2>4, <3>1
        <3>2. QED
            BY <1>5, <1>8, <2>1, <2>7, <3>1 DEF OwnerHasClaim, Claimed
    <2>9. QED
        BY <1>6, <2>2, <2>5, <2>8, TimeKept
<1>9. QED
    BY <1>2, <1>7, <1>8

\* Completing a key: its owner alone does, and only once.
LEMMA IdempotencyCommit ==
    ASSUME TypeInv, IdempotencyInv, NEW r \in Requests, now' = now, CommitForKey(r)
    PROVE  IdempotencyInv' /\ \A k \in IdemKeys : idem[k].status = "completed" => idem'[k] = idem[k]
<1> USE DEF IdempotencyInv
<1> DEFINE key == req[r].ikey
<1>1. req[r].pc = "commit" /\ InFlight(r) /\ OwnsKey(r) /\ key \in IdemKeys
    BY DEF CommitForKey, InFlight, Working, OwnsKey, TypeInv, TypeOK, UploadTypeOK
<1>2. PICK o : /\ CreateForKey(req[r].id, req[r].key, key, o)
               /\ IF o = "ok" THEN Answer(r, "created") ELSE Goto(r, "cleanup")
    BY DEF CommitForKey
<1>3. idem[key].status = "pending" /\ idem[key] \in Claim
    BY <1>1 DEF OwnerHasClaim, TypeInv, TypeOK, RepositoryTypeOK, NoClaim
<1>4. NoNewOwner /\ StartsKept
    BY <1>1, <1>2, KeyMoves DEF Working
<1>5. CASE o = "fail"
    <2>1. UNCHANGED <<idem, made>>
        BY <1>2, <1>5 DEF CreateForKey
    <2>2. QED
        BY <1>4, <2>1, QuietForKeys
<1>6. CASE o # "fail"
    <2>1. /\ idem'[key].status = "completed" /\ idem'[key].file = req[r].id
          /\ idem'[key].createdAt = idem[key].createdAt
          /\ \A k \in IdemKeys : k # key => idem'[k] = idem[k]
        BY <1>1, <1>2, <1>3, <1>6 DEF CreateForKey, Claim, TypeInv, TypeOK, RepositoryTypeOK
    <2>2. /\ made'[key] = made[key] \cup {req[r].id}
          /\ \A k \in IdemKeys : k # key => made'[k] = made[k]
        BY <1>1, <1>2, <1>6 DEF CreateForKey, TypeInv, TypeOK, RepositoryTypeOK
    <2>3. made[key] = {}
        BY <1>1, <1>3 DEF MadeIsRecorded
    <2>4. MadeIsRecorded'
        BY <2>1, <2>2, <2>3 DEF MadeIsRecorded
    <2>5. ClaimExclusive'
        BY <1>4 DEF ClaimExclusive, NoNewOwner
    <2>6. \A s \in Requests : OwnsKey(s)' /\ s # r => req'[s].ikey # key
        BY <1>1, <1>4 DEF NoNewOwner, ClaimExclusive
    <2>7. ~(req'[r].pc \in {"stage", "put", "stat", "commit"})
        <3>1. CASE Answer(r, "created")
            BY <3>1 DEF Answer, NoRequest, TypeInv, TypeOK, UploadTypeOK
        <3>2. CASE Goto(r, "cleanup")
            BY <3>2 DEF Goto, TypeInv, TypeOK, UploadTypeOK
        <3>3. QED
            BY <1>2, <3>1, <3>2
    <2>8. OwnerHasClaim'
        <3> SUFFICES ASSUME NEW s \in Requests, OwnsKey(s)'
                     PROVE  /\ Claimed(req[s].ikey)'
                            /\ idem'[req'[s].ikey].createdAt >= req'[s].start - MaxSkew
                            /\ req'[s].pc \in {"stage", "put", "stat", "commit"}
                                  => idem'[req'[s].ikey].status = "pending"
            BY DEF OwnerHasClaim
        <3>1. /\ OwnsKey(s) /\ req'[s].ikey = req[s].ikey /\ req'[s].start = req[s].start
              /\ req[s].ikey \in IdemKeys
            BY <1>4, OwnedKeyIsKey DEF NoNewOwner
        <3>2. CASE s = r
            BY <2>1, <2>7, <3>1, <3>2 DEF OwnerHasClaim, Claimed
        <3>3. CASE s # r
            <4>1. idem'[req[s].ikey] = idem[req[s].ikey]
                BY <2>1, <2>6, <3>1, <3>3
            <4>2. QED
                BY <1>4, <3>1, <4>1 DEF OwnerHasClaim, NoNewOwner, Claimed
        <3>4. QED
            BY <3>2, <3>3
    <2>9. QED
        BY <1>3, <1>4, <2>1, <2>4, <2>5, <2>8, TimeKept
<1>7. QED
    BY <1>5, <1>6

\* Releasing a key: only its owner does.
LEMMA IdempotencyRelease ==
    ASSUME TypeInv, IdempotencyInv, NEW r \in Requests, now' = now, ReleaseKey(r)
    PROVE  IdempotencyInv'
<1> USE DEF IdempotencyInv
<1> DEFINE key == req[r].ikey
<1>1. req[r].pc = "release" /\ InFlight(r) /\ key \in IdemKeys /\ OwnsKey(r)
    BY RepositoryAssumption DEF ReleaseKey, InFlight, Working, OwnsKey, TypeInv, StagedTyped
<1>2. NoNewOwner /\ StartsKept /\ ~OwnsKey(r)'
    <2>1. Answer(r, "error")
        BY DEF ReleaseKey
    <2>2. ~OwnsKey(r)'
        BY <2>1 DEF Answer, NoRequest, OwnsKey, TypeInv, TypeOK, UploadTypeOK
    <2>3. QED
        BY <1>1, <2>1, <2>2, KeyMoves DEF Working
<1>3. UNCHANGED made
    BY DEF ReleaseKey, ReleaseClaim
<1>4. \A k \in IdemKeys : \/ idem'[k] = idem[k]
                          \/ k = key /\ idem[k].status = "pending" /\ idem'[k] = NoClaim
    BY <1>1 DEF ReleaseKey, ReleaseClaim, Releasable, TypeInv, TypeOK, RepositoryTypeOK
<1>5. MadeIsRecorded'
    BY <1>3, <1>4 DEF MadeIsRecorded, NoClaim
<1>6. OwnedClaimsKept
    <2> SUFFICES ASSUME NEW s \in Requests, OwnsKey(s)'
                 PROVE  idem'[req'[s].ikey] = idem[req'[s].ikey]
        BY DEF OwnedClaimsKept
    <2>1. OwnsKey(s) /\ s # r /\ req'[s].ikey = req[s].ikey /\ req[s].ikey \in IdemKeys
        BY <1>2, OwnedKeyIsKey DEF NoNewOwner
    <2>2. req[s].ikey # key
        BY <1>1, <2>1 DEF ClaimExclusive
    <2>3. QED
        BY <1>4, <2>1, <2>2
<1>7. QED
    BY <1>2, <1>5, <1>6, ClaimsKept, TimeKept

\* Expiry: an owner's claim is too young.
LEMMA IdempotencyExpire ==
    ASSUME ClaimOutlivesUpload, TypeInv, IdempotencyInv, UNCHANGED <<now, req>>,
           NEW o, ExpireKeys(o)
    PROVE  /\ IdempotencyInv'
           /\ \A k \in IdemKeys : idem'[k] # idem[k] => TTL > 0 /\ idem[k].createdAt + TTL < now
<1> USE DEF IdempotencyInv
<1>1. NoNewOwner /\ StartsKept
    BY DEF NoNewOwner, StartsKept, OwnsKey, InFlight
<1>2. CASE UNCHANGED <<files, idem, made>>
    BY <1>1, <1>2, QuietForKeys
<1>3. CASE TTL > 0 /\ PurgeIdempotencyKeys(now - TTL)
    <2>0. now \in Nat /\ TTL \in Nat /\ MaxUpload \in Nat /\ MaxSkew \in Nat
        BY CollectorAssumption, UploadAssumption, EnvironmentAssumption DEF TypeInv, TypeOK
    <2>1. \A k \in IdemKeys : idem[k].createdAt \in Int
        BY DEF TypeInv, TypeOK, RepositoryTypeOK, Claim, NoClaim
    <2>2. \A k \in IdemKeys :
             \/ idem'[k] = idem[k] /\ made'[k] = made[k]
             \/ /\ idem[k].createdAt < now - TTL
                /\ idem'[k] = NoClaim /\ made'[k] = {}
        BY <1>3 DEF PurgeIdempotencyKeys, Expired
    <2>3. MadeIsRecorded'
        BY <2>2 DEF MadeIsRecorded, NoClaim
    <2>4. OwnedClaimsKept
        <3> SUFFICES ASSUME NEW s \in Requests, OwnsKey(s)
                     PROVE  idem'[req[s].ikey] = idem[req[s].ikey]
            BY DEF OwnedClaimsKept, OwnsKey
        <3>1. req[s].ikey \in IdemKeys /\ InFlight(s) /\ req[s].start \in Nat
            BY OwnedKeyIsKey DEF OwnsKey, InFlight, Working, TypeInv, TypeOK, UploadTypeOK
        <3>2. /\ idem[req[s].ikey].createdAt >= req[s].start - MaxSkew
              /\ now <= req[s].start + MaxUpload
            BY <3>1 DEF OwnerHasClaim, RequestsInTime
        <3>3. ~(idem[req[s].ikey].createdAt < now - TTL)
            BY <1>3, <2>0, <2>1, <3>1, <3>2 DEF ClaimOutlivesUpload
        <3>4. QED
            BY <2>2, <3>1, <3>3
    <2>5. \A k \in IdemKeys : idem'[k] # idem[k] => TTL > 0 /\ idem[k].createdAt + TTL < now
        BY <1>3, <2>0, <2>1, <2>2
    <2>6. QED
        BY <1>1, <2>3, <2>4, <2>5, ClaimsKept, TimeKept
<1>4. QED
    BY <1>2, <1>3 DEF ExpireKeys

-----------------------------------------------------------------------------
(* The whole service. *)

\* The inductive invariant holds at the start, when no key is claimed.
LEMMA IdempotencyInit == Init => IdempotencyInv
<1> SUFFICES ASSUME Init PROVE IdempotencyInv
    OBVIOUS
<1>1. \A r \in Requests : ~OwnsKey(r) /\ ~InFlight(r)
    BY DEF Init, UploadInit, NoRequest, OwnsKey, InFlight, Working
<1>2. MadeIsRecorded
    BY DEF Init, RepositoryInit, MadeIsRecorded, NoClaim
<1>3. QED
    BY <1>1, <1>2 DEF IdempotencyInv, RequestsInTime, ClaimExclusive, OwnerHasClaim

\* Every step keeps the invariant, and changes a completed key only by
\* expiring it.
LEMMA IdempotencyNext ==
    ASSUME ClaimOutlivesUpload, TypeInv, IdempotencyInv, [Next]_vars
    PROVE  /\ IdempotencyInv'
           /\ \A k \in IdemKeys : idem[k].status = "completed" /\ idem'[k] # idem[k]
                 => TTL > 0 /\ idem[k].createdAt + TTL < now
<1>1. ASSUME NEW r \in Requests, UploadRequest(r)
      PROVE  /\ IdempotencyInv'
             /\ \A k \in IdemKeys : idem[k].status = "completed" => idem'[k] = idem[k]
    <2>1. now' = now
        BY <1>1 DEF UploadRequest
    <2>2. CASE \/ \E k \in IdemKeys \cup {NoKey} : Begin(r, k)
               \/ ClientGone(r) \/ ReadKey(r) \/ Replay(r) \/ DrawKeys(r) \/ StageObject(r)
               \/ StatObject(r) \/ CommitPlain(r) \/ CleanUp(r)
        <3>1. UNCHANGED idem
            BY <2>2 DEF Begin, ClientGone, ReadKey, Replay, DrawKeys, StageObject, StatObject,
                        CommitPlain, Create, CleanUp
        <3>2. QED
            BY <2>1, <2>2, <3>1, IdempotencyQuietRequests
    <2>3. CASE ClaimKey(r)
        <3>1. \A k \in IdemKeys : idem[k].status = "completed" => idem'[k] = idem[k]
            BY <2>3 DEF ClaimKey, InsertClaim, Claimed, TypeInv, TypeOK, RepositoryTypeOK
        <3>2. QED
            BY <2>1, <2>3, <3>1, IdempotencyClaim
    <2>4. CASE CommitForKey(r)
        BY <2>1, <2>4, IdempotencyCommit
    <2>5. CASE ReleaseKey(r)
        <3>1. \A k \in IdemKeys : idem[k].status = "completed" => idem'[k] = idem[k]
            BY <2>5 DEF ReleaseKey, ReleaseClaim, Releasable, TypeInv, TypeOK, RepositoryTypeOK
        <3>2. QED
            BY <2>1, <2>5, <3>1, IdempotencyRelease
    <2>6. QED
        BY <1>1, <2>2, <2>3, <2>4, <2>5 DEF UploadRequest, RequestStep
<1>2. ASSUME UNCHANGED <<now, idem, made, req>> PROVE IdempotencyInv'
    <2>1. NoNewOwner /\ StartsKept
        BY <1>2 DEF NoNewOwner, StartsKept, OwnsKey, InFlight
    <2>2. QED
        BY <1>2, <2>1, QuietForKeys
<1>3. ASSUME NEW i \in UUID, DeleteFile(i) PROVE IdempotencyInv' /\ UNCHANGED idem
    BY <1>2, <1>3 DEF DeleteFile, SoftDelete
<1>4. CASE Sweep
    <2>1. UNCHANGED <<now, req>>
        BY <1>4 DEF Sweep
    <2>2. PICK o : StartSweep \/ TakeCutoff \/ SweepCall(o)
        BY <1>4 DEF Sweep, SweepStep
    <2>3. CASE ExpireKeys(o)
        BY <2>1, <2>3, IdempotencyExpire
    <2>4. CASE ~ExpireKeys(o)
        BY <1>2, <2>1, <2>2, <2>4
           DEF SweepCall, StartSweep, TakeCutoff, PurgeObject, PurgeRow, Purge,
               ReadStorageKeys, FetchPage, VisitObject
    <2>5. QED
        BY <2>3, <2>4
<1>5. CASE Tick
    <2>1. now' = now + 1 /\ UNCHANGED <<idem, made, req>>
        BY <1>5 DEF Tick
    <2>2. RequestsInTime'
        BY <1>5, <2>1, UploadAssumption
           DEF Tick, UploadsInTime, IdempotencyInv, RequestsInTime, InFlight,
               TypeInv, TypeOK, UploadTypeOK
    <2>3. ClaimExclusive' /\ OwnerHasClaim' /\ MadeIsRecorded'
        BY <2>1 DEF IdempotencyInv, ClaimExclusive, OwnerHasClaim, MadeIsRecorded, OwnsKey, Claimed
    <2>4. QED
        BY <2>1, <2>2, <2>3 DEF IdempotencyInv
<1>6. CASE Crash
    <2>1. UNCHANGED <<idem, made>>
        BY <1>6 DEF Crash
    <2>2. \A r \in Requests : ~OwnsKey(r)' /\ ~InFlight(r)'
        BY <1>6 DEF Crash, NoRequest, OwnsKey, InFlight, Working
    <2>3. QED
        BY <2>1, <2>2 DEF IdempotencyInv, RequestsInTime, ClaimExclusive, OwnerHasClaim, MadeIsRecorded
<1>7. CASE UNCHANGED vars
    BY <1>2, <1>7 DEF vars
<1>8. QED
    BY <1>1, <1>3, <1>4, <1>5, <1>6, <1>7 DEF Next

\* Hence the inductive invariant holds throughout.
LEMMA IdempotencyInvariant == ClaimOutlivesUpload => (Spec => [](TypeInv /\ IdempotencyInv))
<1> SUFFICES ASSUME ClaimOutlivesUpload PROVE Spec => [](TypeInv /\ IdempotencyInv)
    OBVIOUS
<1>1. Init => TypeInv /\ IdempotencyInv
    BY InitTypeInv, IdempotencyInit
<1>2. TypeInv /\ IdempotencyInv /\ [Next]_vars => (TypeInv /\ IdempotencyInv)'
    BY NextTypeInv, IdempotencyNext
<1>3. QED
    BY <1>1, <1>2, PTL DEF Spec

\* The whole strengthening that TLC checks on small instances: a pending row
\* is a lock with one holder, and the table knows every file made under a key.
THEOREM IdempotencyStrengthened == ClaimOutlivesUpload => (Spec => []IdempotencyInv)
<1> SUFFICES ASSUME ClaimOutlivesUpload PROVE Spec => []IdempotencyInv
    OBVIOUS
<1>1. QED
    BY IdempotencyInvariant, PTL

\* Whenever keys are kept forever, or for at least the longest upload plus
\* the database's clock error, ClaimIdempotencyKey gives a key to one request
\* at a time, however many retries race and whichever calls fail.
THEOREM ClaimsAreExclusive == ClaimOutlivesUpload => (Spec => []ClaimExclusive)
<1> SUFFICES ASSUME ClaimOutlivesUpload PROVE Spec => []ClaimExclusive
    OBVIOUS
<1>1. IdempotencyInv => ClaimExclusive
    BY DEF IdempotencyInv
<1>2. QED
    BY <1>1, IdempotencyInvariant, PTL

\* Under the same hypothesis a key makes at most one file until it expires,
\* even when the answer to a commit is lost.
THEOREM Idempotency == ClaimOutlivesUpload => (Spec => []AtMostOneFilePerKey)
<1> SUFFICES ASSUME ClaimOutlivesUpload PROVE Spec => []AtMostOneFilePerKey
    OBVIOUS
<1>1. TypeInv /\ IdempotencyInv => AtMostOneFilePerKey
    BY DEF IdempotencyInv, MadeIsRecorded, AtMostOneFilePerKey
<1>2. QED
    BY <1>1, IdempotencyInvariant, PTL

\* Under the same hypothesis the result recorded under a completed key is
\* never replaced, and is forgotten only by expireIdempotencyKeys once the
\* key is older than its TTL.
THEOREM CompletedKeysAreStable == ClaimOutlivesUpload => (Spec => CompletedKeyStable)
<1> SUFFICES ASSUME ClaimOutlivesUpload PROVE Spec => CompletedKeyStable
    OBVIOUS
<1> DEFINE Step == \A k \in IdemKeys : idem[k].status = "completed" /\ idem'[k] # idem[k]
                      => TTL > 0 /\ idem[k].createdAt + TTL < now
<1>1. TypeInv /\ IdempotencyInv /\ [Next]_vars => [Step]_vars
    BY IdempotencyNext
<1>2. QED
    BY <1>1, IdempotencyInvariant, PTL DEF Spec, CompletedKeyStable

-----------------------------------------------------------------------------
(* One answer per key, when keys never expire. *)

\* What Answer and Goto leave of a request.
LEMMA AnswerFields ==
    ASSUME TypeInv, NEW r \in Requests, NEW rep, Answer(r, rep)
    PROVE  /\ req'[r].pc = "done" /\ req'[r].reply = rep
           /\ req'[r].ikey = req[r].ikey
           /\ rep \in {"created", "replayed"} => req'[r].id = req[r].id
BY DEF Answer, NoRequest, TypeInv, TypeOK, UploadTypeOK

LEMMA GotoFields ==
    ASSUME TypeInv, NEW r \in Requests, NEW pc, Goto(r, pc)
    PROVE  /\ req'[r].pc = pc /\ req'[r].reply = req[r].reply
           /\ req'[r].ikey = req[r].ikey /\ req'[r].id = req[r].id
BY DEF Goto, TypeInv, TypeOK, UploadTypeOK

\* What a request's own step does to the answer it holds.
LEMMA AnswerStep ==
    ASSUME ClaimOutlivesUpload, TypeInv, IdempotencyInv, AnswersRecorded,
           NEW r \in Requests, UploadRequest(r)
    PROVE  /\ InFlight(r)' => req'[r].reply = "none"
           /\ TTL = 0 => AnswerRecorded(r)'
<1> DEFINE Kept   == (InFlight(r)' => req'[r].reply = "none") /\ (TTL = 0 => AnswerRecorded(r)')
           Silent == /\ req'[r].pc # "replay" /\ req'[r].reply \notin {"created", "replayed"}
                     /\ InFlight(r)' => req'[r].reply = "none"
<1>0. ASSUME InFlight(r) PROVE req[r].reply = "none"
    BY <1>0 DEF AnswersRecorded
<1>1. ASSUME Silent PROVE Kept
    BY <1>1 DEF AnswerRecorded
<1>2. ASSUME Answer(r, "error") \/ Answer(r, "conflict") \/ Answer(r, "resultGone") PROVE Kept
    <2>1. req'[r].pc = "done" /\ req'[r].reply \in {"error", "conflict", "resultGone"}
        BY <1>2, AnswerFields
    <2>2. QED
        BY <1>1, <2>1 DEF InFlight, Working
<1>3. ASSUME NEW pc \in Working \ {"replay"}, Goto(r, pc), InFlight(r) PROVE Kept
    <2>1. req'[r].pc # "replay" /\ req'[r].reply = "none"
        BY <1>0, <1>3, GotoFields
    <2>2. QED
        BY <1>1, <2>1
<1>4. ASSUME NEW k \in IdemKeys \cup {NoKey}, Begin(r, k) PROVE Kept
    <2>1. req'[r].pc \in {"stage", "claim"} /\ req'[r].reply = "none"
        BY <1>4 DEF Begin, NoRequest, TypeInv, TypeOK, UploadTypeOK
    <2>2. QED
        BY <1>1, <2>1
<1>5. CASE ClientGone(r)
    <2>1. /\ req'[r].pc = req[r].pc /\ req'[r].reply = req[r].reply /\ req'[r].ikey = req[r].ikey
          /\ req'[r].id = req[r].id /\ idem' = idem
        BY <1>5 DEF ClientGone, TypeInv, TypeOK, UploadTypeOK
    <2>2. QED
        BY <2>1 DEF AnswersRecorded, AnswerRecorded, InFlight
<1>6. CASE ClaimKey(r)
    <2>1. InFlight(r)
        BY <1>6 DEF ClaimKey, InFlight, Working
    <2>2. Goto(r, "stage") \/ Goto(r, "readKey") \/ Answer(r, "error")
        BY <1>6 DEF ClaimKey
    <2>3. QED
        BY <1>2, <1>3, <2>1, <2>2 DEF Working
<1>7. CASE ReadKey(r)
    <2>1. req[r].ikey \in IdemKeys /\ req[r].reply = "none" /\ idem' = idem
        BY <1>0, <1>7 DEF ReadKey, InFlight, Working, TypeInv, StagedTyped
    <2>2. CASE /\ idem[req[r].ikey].status = "completed"
               /\ req' = [req EXCEPT ![r].pc = "replay", ![r].id = idem[req[r].ikey].file]
        <3>1. /\ req'[r].ikey = req[r].ikey /\ req'[r].reply = "none"
              /\ req'[r].id = idem[req[r].ikey].file
            BY <2>1, <2>2 DEF TypeInv, TypeOK, UploadTypeOK
        <3>2. QED
            BY <2>1, <2>2, <3>1 DEF AnswerRecorded
    <2>3. CASE Answer(r, "conflict") \/ Answer(r, "error")
        BY <1>2, <2>3
    <2>4. QED
        BY <1>7, <2>2, <2>3 DEF ReadKey
<1>8. CASE Replay(r)
    <2>1. req[r].pc = "replay" /\ idem' = idem
        BY <1>8 DEF Replay
    <2>2. CASE Answer(r, "replayed")
        <3>1. /\ req'[r].pc = "done" /\ req'[r].ikey = req[r].ikey
              /\ req'[r].id = req[r].id
            BY <2>2, AnswerFields
        <3>2. QED
            BY <2>1, <3>1 DEF AnswersRecorded, AnswerRecorded, InFlight, Working
    <2>3. QED
        BY <1>2, <1>8, <2>2 DEF Replay
<1>9. CASE DrawKeys(r)
    <2>1. InFlight(r)
        BY <1>9 DEF DrawKeys, InFlight, Working
    <2>2. CASE GiveUp(r)
        BY <1>2, <1>3, <2>1, <2>2 DEF GiveUp, Working
    <2>3. CASE req' = [req EXCEPT ![r].pc = "put", ![r].id = serial + 1, ![r].key = serial + 2]
        <3>1. req'[r].pc = "put" /\ req'[r].reply = "none"
            BY <1>0, <2>1, <2>3 DEF TypeInv, TypeOK, UploadTypeOK
        <3>2. QED
            BY <1>1, <3>1
    <2>4. QED
        BY <1>9, <2>2, <2>3 DEF DrawKeys
<1>10. CASE StageObject(r) \/ StatObject(r) \/ CleanUp(r) \/ ReleaseKey(r)
    <2>1. InFlight(r)
        BY <1>10 DEF StageObject, StatObject, CleanUp, ReleaseKey, InFlight, Working
    <2>2. \/ Goto(r, "stat") \/ Goto(r, "commit") \/ Goto(r, "cleanup") \/ Goto(r, "release")
          \/ Answer(r, "error")
        BY <1>10 DEF StageObject, StatObject, CleanUp, ReleaseKey, GiveUp
    <2>3. QED
        BY <1>2, <1>3, <2>1, <2>2 DEF Working
<1>11. CASE CommitPlain(r) \/ CommitForKey(r)
    <2>1. InFlight(r)
        BY <1>11 DEF CommitPlain, CommitForKey, InFlight, Working
    <2>2. CASE Goto(r, "cleanup")
        BY <1>3, <2>1, <2>2 DEF Working
    <2>3. CASE Answer(r, "created") /\ req[r].ikey = NoKey
        <3>1. req'[r].pc = "done" /\ req'[r].ikey = NoKey
            BY <2>3, AnswerFields
        <3>2. QED
            BY <3>1 DEF AnswerRecorded, InFlight, Working
    <2>4. CASE /\ Answer(r, "created") /\ req[r].ikey # NoKey
               /\ idem' = [idem EXCEPT ![req[r].ikey].status = "completed",
                                       ![req[r].ikey].file = req[r].id]
        <3>1. /\ req'[r].pc = "done" /\ req'[r].ikey = req[r].ikey
              /\ req'[r].id = req[r].id
            BY <2>4, AnswerFields
        <3>2. req[r].ikey \in IdemKeys
            BY <2>4 DEF TypeInv, TypeOK, UploadTypeOK
        <3>3. idem'[req[r].ikey].status = "completed" /\ idem'[req[r].ikey].file = req[r].id
            BY <2>4, <3>2 DEF TypeInv, TypeOK, RepositoryTypeOK, Claim, NoClaim
        <3>4. QED
            BY <3>1, <3>3 DEF AnswerRecorded, InFlight, Working
    <2>5. QED
        BY <1>11, <2>2, <2>3, <2>4 DEF CommitPlain, CommitForKey, CreateForKey
<1>12. QED
    BY <1>4, <1>5, <1>6, <1>7, <1>8, <1>9, <1>10, <1>11 DEF UploadRequest, RequestStep

\* A completed key is never touched again, so recorded answers stay so.
LEMMA AnswersNext ==
    ASSUME ClaimOutlivesUpload, TypeInv, IdempotencyInv, AnswersRecorded, [Next]_vars
    PROVE  AnswersRecorded'
<1>1. TTL = 0 => \A k \in IdemKeys : idem[k].status = "completed" => idem'[k] = idem[k]
    BY IdempotencyNext
<1>2. ASSUME NEW s \in Requests, req'[s] = req[s]
      PROVE  /\ InFlight(s)' => req'[s].reply = "none"
             /\ TTL = 0 => AnswerRecorded(s)'
    <2>1. req[s].ikey \in IdemKeys \cup {NoKey}
        BY DEF TypeInv, TypeOK, UploadTypeOK
    <2>2. QED
        BY <1>1, <1>2, <2>1 DEF AnswersRecorded, AnswerRecorded, InFlight
<1>3. ASSUME NEW r \in Requests, UploadRequest(r) PROVE AnswersRecorded'
    <2>1. \A s \in Requests \ {r} : req'[s] = req[s]
        BY <1>3 DEF UploadRequest, RequestStep, Begin, ClientGone, ClaimKey, ReadKey, Replay,
                    DrawKeys, StageObject, StatObject, CommitPlain, CommitForKey, CleanUp, ReleaseKey,
                    GiveUp, Goto, Answer, TypeInv, TypeOK, UploadTypeOK
    <2>2. QED
        BY <1>2, <1>3, <2>1, AnswerStep DEF AnswersRecorded
<1>4. ASSUME UNCHANGED req PROVE AnswersRecorded'
    BY <1>2, <1>4 DEF AnswersRecorded
<1>5. CASE Crash
    BY <1>5 DEF Crash, NoRequest, AnswersRecorded, AnswerRecorded, InFlight, Working
<1>6. QED
    BY <1>3, <1>4, <1>5 DEF Next, DeleteFile, Sweep, Tick, vars

\* When keys are kept forever, every 201 UploadIdempotent gives under a key,
\* first answer or replay, names the same file, whichever answers the client
\* never saw and however often the service crashed in between.
THEOREM AnswersAgree == TTL = 0 => (Spec => []OneAnswerPerKey)
<1> SUFFICES ASSUME TTL = 0 PROVE Spec => []OneAnswerPerKey
    OBVIOUS
<1>1. ClaimOutlivesUpload
    BY DEF ClaimOutlivesUpload
<1>2. Init => AnswersRecorded
    BY DEF Init, UploadInit, NoRequest, AnswersRecorded, AnswerRecorded, InFlight, Working
<1>3. TypeInv /\ IdempotencyInv /\ AnswersRecorded /\ [Next]_vars => AnswersRecorded'
    BY <1>1, AnswersNext
<1>4. AnswersRecorded => OneAnswerPerKey
    BY DEF AnswersRecorded, AnswerRecorded, OneAnswerPerKey
<1>5. QED
    BY <1>1, <1>2, <1>3, <1>4, IdempotencyInvariant, PTL DEF Spec
=============================================================================
