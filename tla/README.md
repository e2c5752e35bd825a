# CairnMark, specified

TLA+ models of CairnMark, a file service that keeps bytes in an S3-compatible
object store and everything else in Postgres. The two stores share no
transaction, so the program orders its calls carefully and runs a background
collector that repairs what failures leave behind. This project models that
arrangement call by call, model-checks it with TLC on small instances, and
proves its main guarantees with TLAPS for every value of the constants.

## 1. Inventory

| Component | State | Operations | Interacts with |
|---|---|---|---|
| **Upload service** (`internal/files/service.go`, `idempotency.go`) | per request: staged id and key, claim held | `Upload`, `UploadIdempotent` (`stage`, commit, cleanup, release, replay) | repository and store, one remote call at a time |
| **Object store** (`internal/storage/s3`) | objects with `LastModified` | `Put`, `Get`, `GetRange`, `Stat`, `Delete`, `List`, `PresignGet` | external S3 server |
| **Metadata repository** (`internal/metadata/postgres`) | tables `files`, `idempotency_keys` | `Create`, `CreateForKey`, `Get`, `Delete` (soft), `ListDeleted`, `Purge`, `StorageKeys`, claim / release / expire, `List`, `UpdateMetadata` | external Postgres |
| **Collector** (`internal/gc`) | progress of one sweep | `RunOnce`: purge deleted, reclaim orphans, expire keys | both stores, concurrently with every request |
| **Upload body** (`internal/api/limit.go`, `stage`) | bytes left, bytes hashed, bytes stored | `limitReader.Read`, hash tee, content-type peek, `Put` | client's stream to object store |
| **Range requests** (`internal/api/range.go`, `s3.GetRange`) | none (pure) | `parseSingleRange`, `downloadRange`, `GetRange` | handler to store |
| **Downloads** (`internal/api/files.go`, `internal/files/verify.go`) | progress of one read, running hash | redirect, stream, range; `verifyingReader` | race with deletes and sweeps |
| **Listing and metadata** (`internal/api/metadata.go`, `postgres/query.go`) | client's cursor | `List` by keyset, `UpdateMetadata`, upload tags | race with every write |
| **HTTP layer** (`internal/api`) | none | handlers, `writeError` | all services |
| **Server lifecycle** (`cmd/server`) | where `boot` is, listener, connections, exit status | boot, serve, signal, drain, deferred close | pool, handlers, collector goroutine |
| **Configuration** (`internal/config`) | start-up values | `Load`, `validate` | environment; the two S3 clients |
| **Metrics** (`internal/metrics`) | counters | `ObserveGCSweep`, `ObserveRequest` | the sweep's `Stats` |
| **In-memory backend, migrations** | a test double; the schema | `GetRange` and the rest of `storage.Backend`; `runMigrations` | tests; boot |

What is hard here, and where the properties are aimed (`PROJECT.json` lists
each hazard at its line):

* *no common transaction*: a file is an object plus a row. Upload writes the
  object first, deletion hides the row first, purge deletes the object first.
  Every crash or failed call in between leaves a half, and only the sweep
  tells a half from a file in progress, by age;
* *a call that fails may have been applied*: a lost answer, a cancelled
  context;
* *the idempotency claim is a lock without an owner*: the statements that
  complete, release or expire a claim name only the key;
* *stale reads*: the sweep's set of referenced keys, the read path's storage
  key, the cursor of a walk;
* *a way down*: on a signal handlers, collector and pool stop in an order
  nobody waits out in full, while transfers have no time limit;
* *limits*: inclusive range ends, the size cap at exactly its value, TTL and
  grace period at equality, page sizes, `int64`.

## 2. Modules

```
Environment            clock, UUIDs, how calls fail
  ObjectStore          Put Stat Delete List(page)
  Repository           files and idempotency_keys
    UploadService      requests       (EXTENDS ObjectStore, Repository)
    Collector          the sweep      (EXTENDS ObjectStore, Repository)
      CairnMark        the composition, its properties, fairness
        CairnMarkInvariants   inductive invariants
          TypeProofs <- DurabilityProofs, IdempotencyProofs
          CairnMarkRefinement   CairnMark implements FileStore
            MCCairnMark         for TLC
        Download       a read against the running service
          ClientProofs   what clients see: the refinement, and reads
                         (EXTENDS CairnMarkRefinement and the proofs above)
FileStore              what the service promises (abstract)
UploadBody             the bytes of an upload
RangeRequest           ranged reads   <- RangeProofs
  RoundTrip            an upload, then a ranged read   (EXTENDS both)
    RoundTripProofs      (EXTENDS RangeProofs too)
    MCRoundTrip
Listing                MCListing, ListingProofs
Configuration          the environment, read and validated
  Server               the process, from boot to exit
    MCServer, ServerProofs
```

### The service: `CairnMark` and what it composes

*Time and failure* (`Environment`). `now` is the wall clock, in an arbitrary
unit. A remote call ends `ok`, `fail` (not applied, error) or `lost` (applied,
error); a call under a cancelled context is always `fail`. `Faults` chooses
which kinds a run may produce. The lost answer of a *commit* is a fault of its
own (`lostCommit`), because the program does not survive it (section 4).
`serial` stands for UUIDv7s: fresh and increasing.

*Object store.* An object is `there` or not, with the `LastModified` the store
reports, which may be any moment of the transfer, off by `MaxSkew`. `Put` is
all or nothing: a multipart upload that fails leaves no object, or, as
`lost`, a complete one. Its bytes never change, so they are not modelled here.

*Repository.* `files[i]` is absent, live or deleted, with its storage key and
`deleted_at`; `idem[k]` is absent, pending or completed, with the file it
names and `created_at`. Every statement, and `CreateForKey`'s transaction, is
one operator with an outcome. `made` is a history variable: the files
committed under a key since it last expired.

*Upload service.* `req[r]` is the program counter and locals of one request;
each remote call is one action. `stage` draws the id and the storage key
(`DrawKeys`) before the transfer (`StageObject`), so objects and rows appear
out of the order of their ids: an object may be written behind the listing's
cursor, a row committed below a walk's. The error paths are the code's: a failed
`Put` is not cleaned up; a failed `Stat` or commit deletes the object, best
effort; a failed idempotent upload releases its claim, best effort; both use
the request's context. `ClaimIdempotencyKey` is two statements (an insert and,
on conflict, a select), therefore two actions.

*Collector.* `gc` is the state of one sweep: the batch of deleted rows, the
keys seen, the cutoff, the listing's page and cursor. `TakeCutoff` is an action
of its own, because the code reads the clock after the query for the storage
keys has returned all its rows: `seenAt` is when the query took its snapshot
and `MaxScan` how long it may run. Errors end the sweep where the code
returns, and skip an item where it continues.

*Composition.* `Next` interleaves requests, client deletes (`DeleteFile`), the
sweep, the clock and `Crash`, which forgets `req` and `gc` and keeps the
servers' state. `MaxUpload` and `MaxScan` are promises of the environment:
`Tick` is not enabled while an upload, or the scan, has used up its time.

Client deletes, uploads and sweeps are what a client can see; everything else
is invisible. `Poisoned` is a set of storage keys whose deletes may fail for
ever: the batch of `ListDeleted` begins with the oldest rows, so such rows are
in every batch, and `DeletedPurged` is about the others.

### `FileStore` and `CairnMarkRefinement`

`FileStore` says what clients may rely on, with no requests in progress, no
clock and no failures: a file appears whole under an id used once (`Publish`),
is removed by a client (`Remove`), then loses its bytes (`Discard`) and only
then its row (`Forget`); a key names the file made under it until it expires
(`Expire`); ids of failed uploads are dropped (`Retire`).
`CairnMarkRefinement` maps the service onto it: rows are files, a file has its
bytes when its storage key is stored, a key's result is that of its completed
row, and an id is fresh while it is undrawn or belongs to an upload that still
means to commit. The interesting obligations are that the commit is the one
visible step of an upload (bytes and result included), that no sweep or
cleanup removes bytes of a file that is not trash, and that a completed key is
never completed again.

### `Download`

Extends `CairnMark` with one read. Lookup, open, first `Read` and the rest of
the copy are separate calls. minio-go sends nothing until it must: `Get`
forces a request through `Stat`, `GetRange` does not, so a missing object
shows up in the first `Read`, after the 206 is out. `Rot` makes stored bytes
differ from their checksum at any moment.

### `UploadBody`

The readers between the client and the store, read by read: the client's
reader may return any number of bytes, with or without its final EOF or error;
`limitReader` counts down and remembers that it was exceeded; `stage` peeks at
`SniffLen` bytes (keeping what it got, ignoring the error) and hashes what
passes. Bytes are counted, not valued. `bufio`'s Peek consumes the error it
meets, so a cap smaller than the peek is only enforced because `limitReader`
repeats its error; `UploadBody` has that case.

### `RangeRequest`

A pure algorithm against a reference. A header is a unit, a dash or none, and
two tokens (empty, digits, signed, junk) with their value. `MaxInt64` is a
constant, so numbers beyond it are cheap to reach. The reference is the grammar
of RFC 9110, which `range.go` names: a number is digits (`IsNumber`). The code
departs from it for signs and for numbers beyond `int64`, and those headers are
a run of section 4 (`OutcomeAsDocumented`); `AnswerFollowsHeader` is about the others (`Plain`), and
`PartialBodyIsNamed` about every 206. 200 stands for the full answer, streamed or as a redirect. `MemoryGetRange` is the test
double's arithmetic, next to the S3 backend's `GetRange`.

### `RoundTrip`

`UploadBody`, then `RangeRequest` on the file it made. The handler cuts ranges
by the size in the row (`RecordedSize`: declared, or read back by `Stat` for a
chunked body), the store by the bytes it took; `ServedAsSent` compares the
answer with the body the client sent: all of it for a 200, the bytes the header
names for a 206, and a header that names none for a 416.

### `Listing`

A client's walk by `next_cursor` while uploads stage, commit and fail, files
are deleted and tags patched (a PATCH merges into the tags or replaces them;
`NoTag` is the absence of the tag that the walk filters by). The limit is clamped in the handler and again in
the repository, as in the code. `steady` and `again` are history variables:
the rows that matched throughout, and whether a page ever reached back.

### `Configuration` and `Server`

`Configuration` is `Load` as a function of the environment: defaults, parsing,
bounds, required variables, endpoints, and `s3.New`'s choice of the client that
signs URLs. `Unusable` is the reference it is compared with: a value that is
missing, malformed, or of no use, a grace period that covers no upload included.
Load does not look at the last (section 4, among the smaller disagreements). `EnvsAssumption` says what the abstraction of a text allows: a number is a number, and there is
no wrong way to write a free text or to leave an endpoint empty.

`Server` is one process. `main` walks through `boot` and `run`: load, migrate,
connect, bucket, serve, drain, close, exit, with the error returns and the
defers due at each. `listener` is `ListenAndServe`'s goroutine; `conn[s]` a
client connection with the call its handler is in, and `Goes` where each call
leads: an upload claims, transfers and commits, and a failed one deletes its
object and releases its key, which is one more statement on the pool; other
requests query and transfer; a readiness probe pings and stats. `pool` is the
connections of `pgxpool`, each held for a statement (`HoldersRunStatements`); `gc` the collector's goroutine with its
`Stats`, and `met` what `/metrics` shows. Requests' contexts do not derive from
the signal's (the code sets no `BaseContext`), the collector's does: once the
signal is there, each of its calls fails. A statement that the signal cuts
short frees its slot of the pool because pgx closes the connection; Postgres may
still be running it, and the model says nothing of that. `pool.Close` refuses new
acquisitions and waits for the connections handed out. A handler may outlive
`Shutdown`'s deadline and meet the closed pool; `refused` records that.

## 3. Passing runs

| Run | Shows | Instance |
|---|---|---|
| `durability` | `LiveRowHasObject`, `PurgedRowHasNoObject`, `OrphansNotSkipped`, that `DurabilityInv` holds, `OneAnswerPerKey` and `ClaimExclusive` with TTL 0, and `ImplementsFileStore` | 2 requests (4 UUIDs), each plain or under 1 key, page size 1, Grace 3 > MaxUpload 1 + MaxScan 1 (the tightest legal value), a crash, failing and lost calls, 4 ticks |
| `idempotency` | `ClaimExclusive`, `AtMostOneFilePerKey`, `CompletedKeyStable`, `TypeOK`, and that `IdempotencyInv` holds | 2 requests, 1 key, TTL = MaxUpload (the shortest safe TTL), clients that hang up, every call failing or losing its answer, the commit too |
| `reclamation` | `OrphansReclaimed`, `DeletedPurged`, `StuckClaimExpires`, and `ImplementsFileStore` with keys that expire | fair; 1 request slot reused, 1 key, failing and lost calls, a crash, batches of 2 of which one object's deletes may fail for ever, page size 1 |
| `download` | `LiveFileIsServed`, `DeleteIsNotAnError`, `StreamIsVerified`, `PurgedIsNotOpened` | 1 upload, 1 read of each kind, deletes, sweeps, failures, decay; clocks off by MaxSkew 1 and Grace 4, again the tightest |
| `round_trip` | `CapEnforced`, `FittingBodyNotRefused`, `ChecksumCoversObject`, `PartialBodyIsNamed`, `AnswerFollowsHeader`, `BackendsAgree`, `ServedAsSent`, `TypeOK` | bodies and caps around a peek and a chunk of a few bytes, declared and chunked; then every header with numbers up to, at and beyond a tiny `MaxInt64` |
| `server` | `ConfigHonoured`, `GracefulExit`, `HoldersRunStatements`, `SweepsReported`, `StopsWhenAsked`, `ProbeAnswered` | fair; a good environment with any two variables changed, 2 connections, a pool of 1, a sweep, a signal at any moment |
| `listing` | `WalkComplete`, `PagesDescend`, `WalkEnds`, `TypeOK` | 4 ids, 2 tag values or none, patches merged or replacing, limits -1..4 with maximum 3 |

*Why these bounds suffice to be interesting.* Two requests are the fewest that
can compete for a key or separate "my claim" from "the claim"; two UUID pairs
let one file be live while another is orphaned. The clock runs past the grace
period after the last arrival, so sweeps do find orphans; and it stops at
`MaxTime`, which only bounds the arrivals: sweeps go on for ever. Pages of one
key force the listing to page, a batch of two with one poisoned row shows the
other getting through. A pool of one connection makes every waiter meet every
holder; two connections let an upload stall while a probe waits. `LastArrival` and the
guard in `Begin` that reserves UUIDs for running requests are bounds. The
`durability` run leaves out hang-ups, since a hung-up request is one whose later
calls all fail, which `fail` includes; `idempotency` has them as they are. A
crash with keys that expire is in `reclamation`. One sweep is enough to hold
the pool's only connection; that no sweep counts what an earlier one reported is
proved for any number of them. Request slots and keys are symmetric; the
fair runs do not use symmetry. `CHECK_DEADLOCK FALSE` is said only where one
request, upload, walk or process really ends.

*Fairness.* `FairSpec` in `CairnMark` assumes that the clock runs (`Tick`),
that the collector's goroutine is scheduled (`Sweep`; its ticker fires for
ever, so a sweep always starts again), that each request's goroutine is
scheduled (every call has an outcome), and that *eventually the collector's
own calls succeed*: servers become healthy again, and the collector retries on
its next sweep (a listing that fails for ever would stop all that comes after
it, and is assumed away), except that the delete of a poisoned object may fail every
time. Nothing is assumed of the outcome of a request's calls, which are made
once. `Listing` assumes only that the client keeps asking. `Server` assumes
that goroutines are scheduled and `Shutdown`'s deadline comes, that Postgres
and the store answer statements, deletes and stats one way or the other, and that a
waiter for a connection is not passed over for ever (the pool queues its
waiters): strong fairness of `Acquire`. It assumes nothing of clients, who need
not send a header or finish a body, and no signal.

Each property has a mutant, a plausible slip in one mapped definition
(`PROJECT.json`), under which its run reports it violated. Mutants stand next
to what they mutate and are named in the comments as such.

## 4. Runs that end in a violation

Each states what a comment or a document of the repository says, and TLC shows
what the code does instead. `PROJECT.json` quotes the lines.

| Run | What happens |
|---|---|
| `grace_gap` | `reclaimOrphans` reads the storage keys, then the clock. The grace period must exceed the longest upload *plus* the time of that query (plus clock error); documentation asks for the first only. An upload that commits during the query can lose its object. |
| `lost_commit` | A commit applied but unacknowledged is taken for a failure; the cleanup deletes the bytes of a live file. |
| `short_ttl` | An upload outlives the TTL, its key expires and is claimed again; `CreateForKey` finds *a* claim and commits. Two files under one key. |
| `hung_up_client` | The release of the claim runs under the cancelled context and never happens; retries get 409 until the TTL. |
| `range_syntax` | `strconv.ParseInt` takes signs, so `bytes=+0-+3` and `bytes=0--0` are served with 206, where a syntactically invalid header "MUST be ignored"; and it rejects a start beyond `int64`, so a well-formed range far beyond the object is ignored, where it "gets a 416". |

Smaller disagreements met on the way, which no run is spent on:

* a comment in `internal/files/idempotency.go` promises `ErrIdempotencyConflict`
  for a retry whose result was deleted; the code answers
  `ErrIdempotencyResultGone` (410), as the repository's README says;
* "ids are UUIDv7, so id order is creation order" (`postgres/query.go`) is
  false of uploads that overlap: the id is drawn before the transfer, the row
  inserted after it. A walk is complete all the same for the files that were
  there when it began;
* a range read whose file is deleted and purged between the lookup and the
  first read has sent its 206 and `Content-Length` already and gets no body
  (`Download`: status 206 with `cut`);
* an `X-Metadata` header of `null` together with a `tag.` parameter panics in
  `uploadTags` (a nil map is written); net/http recovers and drops the
  connection, nothing is stored (`UploadBody`: `Refuse`). PATCH refuses `null`;
* `CAIRNMARK_S3_PUBLIC_USE_SSL`, the "TLS scheme for presigned URLs"
  (`internal/config/config.go:59`), is dropped when the public endpoint names
  the same host as the internal one: `s3.New` then signs with the service's own
  client (`PresignClient`). `ConfigHonoured` speaks of the host alone;
* a grace period of zero or less is accepted, although it "must exceed the
  longest plausible upload" (`internal/config/config.go:28`). The reference
  counts it as unusable (`NoGrace`), so `ConfigHonoured` does not say that all
  that is accepted is usable;
* a sweep that fails half way reports no reclaimed items, although it has
  reclaimed some: the counters run behind, never ahead (`SweepsReported`).

## 5. Proofs

All theorems hold for every value of the constants under the named ASSUMEs
(which TLC evaluates in every run), and no others.

**`TypeProofs!TypeCorrect`**: `Spec => []TypeOK`. `TypeOK` alone is not
inductive: a commit writes `req[r].id` into a row, where `NoID` would not be
typed. `TypeInv` adds that a request's fields are set at the program counters
that use them. A lemma per action; the other proofs start from it.

**`DurabilityProofs!Durability`, `!PurgeOrder`, `!DurabilityStrengthened`**: `LiveRowHasObject` always,
and every purge of a row finds it deleted and its object gone, assuming
`DurabilityHypothesis`: `MaxUpload + MaxScan + MaxSkew < Grace`, and no commit
loses its answer. `grace_gap` and `lost_commit` show that neither half can be
dropped. The inductive invariant `DurabilityInv` has three parts:

* `KeysPrivate`: every UUID is used by one row or by one request, those above
  `serial` by none; so deleting one file's key never touches another's;
* what the purge works on is and stays deleted (`BatchDeleted`,
  `RowBeingPurged`), and what is `Needed` (live, or about to be committed) is
  stored;
* the argument about time. While the sweep is between its two reads, a needed
  key it did not see belongs to an upload that was in flight at the snapshot
  or began later, so its object is no older than `seenAt - MaxUpload - MaxSkew`
  (`UnseenIsRecent`); once the clock is read, at most `MaxScan` later, it is
  newer than the cutoff (`UnseenIsTooNew`), and the callback skips it.

**`DurabilityProofs!NoOrphanSkipped`**: `OrphansNotSkipped`, under the same
hypothesis: the listing passes an orphan older than the cutoff, or ends before
it, only when that object's own delete failed, whatever the page size and
whatever uploads write and clean up around the cursor. The property is not
inductive, because a page is fetched long before its last object is visited;
`OrphansAhead` is what holds in between: the page lies ahead of the cursor, and
an object older than the cutoff that lies ahead of the cursor is on the page or
beyond all of it. A `Put` meanwhile may add a key anywhere, between two keys of
the page too, for the key was drawn when its upload began; but the object is
newer than the cutoff, because the cutoff is older than any upload in flight.

**`DurabilityProofs!BatchesMakeProgress`**: `ListDeleted` hands out the oldest
rows first, so rows whose object can never be deleted stand at the head of every
batch. While such objects are fewer than a batch holds, a sweep that starts while
another row waits gets a row it can purge. The argument is a count: keys are
private (`KeysPrivate`), so stuck rows are no more than stuck objects, and a
full batch of them cannot be.

**`IdempotencyProofs!ClaimsAreExclusive`, `!Idempotency`,
`!CompletedKeysAreStable`**: at most one owner of a key and at most one file
per life of a key, and a completed key is stable until its TTL, assuming
`ClaimOutlivesUpload` (`TTL = 0` or `MaxUpload + MaxSkew <= TTL`; `short_ttl`
shows why) and *nothing* about failures: the commit may lose its answer.
`IdempotencyInv` says why: an owner's claim is in the table, younger than its
request and pending until it has tried to commit (`OwnerHasClaim`), so no other
request can insert, and no sweep expire, it; and the table knows what was made
(`MadeIsRecorded`).

**`IdempotencyProofs!AnswersAgree`**: with `TTL = 0`, all successful answers
under a key name one file. `AnswersRecorded` is the strengthening: what a
request answered, or is about to replay, is what the table holds under its
key; completed keys never change, so it stays so.

**`ClientProofs!Refinement`**: `Spec => ImplementsFileStore`, assuming
`DurabilityHypothesis` and `ClaimOutlivesUpload` together. Initial states map
to initial states (`RefinementInit`), and each step to a step of `FileStore` or
a stutter (`RefinementNext`), one lemma per kind of step:

* a step that leaves files, bytes and results alone can only use up ids, and is
  a `Retire` (`InvisibleStep`, `FreshShrinks`): every call of a request but its
  commit, a staged object, a crash, most of a sweep;
* a commit is one `Publish` (`CommitVisible`): its id is still fresh because no
  row has it (`UncommittedHasNoRow`), its bytes are there (`NeededIsStored`),
  and the key it completes has no result yet (`OwnerHasClaim`);
* a removed object is a `Discard` of a trash file or nothing at all
  (`ObjectGoes`, `ReclaimVisible`, `CleanUpInvisible`): keys are private, and
  what a live file needs is not deleted; a purged row is a `Forget` because its
  bytes went first (`RowBeingPurged`); expired keys are an `Expire`.

So the abstract specification needs both inductive invariants and nothing else.

**`ClientProofs!LiveFilesAreServed`, `!DeletesAreNoErrors`,
`!StreamsAreVerified`, `!PurgedFilesAreNotOpened`**: the properties of
`Download`, under `DurabilityHypothesis`. `DownloadSpec` implies `Spec` (reads
change nothing of the service), so `DurabilityInv` is there to use. A read holds
on to an id and a storage key across calls; `StepKeepsTheOld` says that these do
not change their meaning: a drawn id is never given to an upload again, a key
that no upload holds any more is never written again (`SpentKey`), a row is only
ever deleted and then purged.
`ReadInv` builds on it: the key a read found is still the row's, and once the
row is gone the key is empty, so nothing opens it; before the end nothing has
failed; and what was hashed is what was sent. A copy that the store has begun to
send may go on after the purge.

**`RoundTripProofs!CapHolds`, `!NoFalseRefusal`, `!ChecksumHolds`,
`!BodyTypeCorrect`**: for any
body, cap, peek and chunk sizes. The invariant `BodyInv` accounts for every
byte (delivered = buffered + stored, hashed = delivered), relates the reader's
remaining allowance to what it let pass, and says that every remembered error
is true.

**`RangeProofs!RangeBodies`, `!RangeAnswers`, `!DoubleIsFaithful`**: parser,
handler and the two backends against the reference, for all sizes. `RangeBodies`
speaks of every header, `RangeAnswers` of those without signs and within `int64`:
no induction, but a case analysis of the header's three forms and interval arithmetic.

**`RoundTripProofs!RoundTripHolds`, `!TripKeepsBoth`**: the two halves together,
for bodies whose length an `int64` can hold (`RoundTripAssumption`). `TripInv`
says where they meet: after a created reply the recorded size, the stored bytes
and the body are of one length, so the range arithmetic, proved for a size,
speaks of the body that was sent.

**`ListingProofs!WalksAreComplete`, `!PagesOnlyDescend`,
`!ListingTypeCorrect`**: for any number of files and any limits. `PageIsTop` is
the heart: what a page leaves out is below all of it, and a page that leaves out
anything is full; it follows from cardinalities and from finite sets of ids
having a least and a greatest element. `WalkInv` then needs only that a steady
row still matches, and was returned or lies below the cursor, and that
everything returned lies at or above it. That no row of the walk's can be staged
again rests on ids above `serial` being unborn. `!PagesMakeProgress` is why a walk
ends: every page ends it or brings its cursor down, and nothing else moves the
cursor.

**`ServerProofs!ConfigurationHonoured`, `!ExitIsGraceful`,
`!SweepsAreReported`**: for any environments, any number
of connections, any pool. `ProcessInv` ties `boot`'s place to everything else:
nothing runs before it serves, connections are accepted only while it serves, the
pool is closed only on the way out, and past a drain that was not cut short no
handler is left to meet the closed pool. `SweepInv` is the collector's book: what
is reported and what is in the running sweep's `Stats` never exceeds what is
gone, and equals it until a sweep fails. Load is compared with the reference for
every environment (`LoadIsExact`), not only those near a good one: it refuses
what is missing, malformed or out of range, and nothing else.
`!ConnectionsServeStatements` says who may hold a connection: only a request or a
sweep that waits for the answer to a statement, so never one whose client is
stalled in a transfer. Whoever waits for a connection, or like `pool.Close` for
all of them, therefore waits for Postgres alone.

*Model-checked only.* The liveness properties (`OrphansReclaimed`,
`DeletedPurged`, `StuckClaimExpires`, `WalkEnds`, `StopsWhenAsked`,
`ProbeAnswered`): they rest on fairness, which this prover does not reach. The
steps of their arguments that need none are theorems: `NoOrphanSkipped` for the
first, `BatchesMakeProgress` for the second, `PagesMakeProgress` for `WalkEnds`,
`ConnectionsServeStatements` for the last two.
Every safety property that a passing run checks is also a theorem.

## 6. Not modelled

The request counters of `internal/metrics` (written once per request, read by
nobody); the test double's operations other than `GetRange`; what goose does
when it migrates; routing, instrumentation, JSON and the liveness probe
(stateless); the S3 protocol; `PresignPut` (nothing calls it); `updated_at` and
tags other than the one filtered by (nothing in the program reads them); the
expiry of presigned URLs, which the store enforces. One process at a time: the
documentation describes no deployment with several.

## 7. Plan

Every component of the inventory that keeps state has its module, every passing
run's safety properties their theorems, and the liveness properties the part of
their argument that needs no fairness. What would say most next: several
processes sharing the two stores, should the program come to be deployed that
way (two sweeps at once, and a claim's owner in another process), and an owner
in the idempotency claim, should the statements of section 4 be repaired.
