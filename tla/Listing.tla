------------------------------ MODULE Listing ------------------------------
(***************************************************************************)
(* GET /files: a client walks the list page by page, passing each page's   *)
(* next_cursor back, while uploads commit, files are deleted and tags are  *)
(* patched between its requests.  Ids are generated before the upload and  *)
(* rows inserted after it, so rows do not appear in the order of their ids.*)
(***************************************************************************)
EXTENDS Integers, FiniteSets

CONSTANTS
    MaxID,         \* bound: how many ids newID hands out
    Tags,          \* the values of the tag that the client filters by
    NoTag,         \* the tag is not there; in a patch, not named
    Wanted,        \* the value the client asks for
    Limits,        \* the values of ?limit= (0 when it is absent)
    DefaultLimit,  \* listDefaultLimit, the same in internal/api and internal/metadata
    MaxLimit       \* listMaxLimit, likewise

ASSUME ListingAssumption ==
    /\ MaxID \in Nat /\ Wanted \in Tags /\ NoTag \notin Tags /\ Limits \subseteq Int
    /\ DefaultLimit \in Nat \ {0} /\ MaxLimit \in Nat /\ DefaultLimit <= MaxLimit

ID == 1..MaxID
NoCursor == MaxID + 1   \* the first page: above every id

VARIABLES
    serial,  \* the last UUIDv7 generated: later ones compare greater
    rows,    \* id -> row
    walk     \* the client's walk through the list

vars == <<serial, rows, walk>>

(***************************************************************************)
(* A row's state: unborn (no such id yet), staged (uploading), live, gone  *)
(* (soft-deleted, or its upload failed).                                   *)
(* limit   what the client asks for                                        *)
(* cursor  the one it passes next                                          *)
(* got     the ids it was given                                            *)
(* again   history: some page reached back up into an earlier one          *)
(* steady  history: the rows that matched all through the walk             *)
(***************************************************************************)
NoRow  == [state |-> "unborn", tag |-> NoTag]
NoWalk == [pc |-> "idle", limit |-> 0, cursor |-> NoCursor, got |-> {}, again |-> FALSE,
           steady |-> {}]

TypeOK ==
    /\ serial \in 0..MaxID
    /\ rows \in [ID -> [state: {"unborn", "staged", "live", "gone"}, tag: Tags \cup {NoTag}]]
    /\ walk \in [pc: {"idle", "walking", "done"}, limit: Limits \cup {0}, cursor: 1..NoCursor,
                 got: SUBSET ID, again: BOOLEAN, steady: SUBSET ID]

Init ==
    /\ serial = 0
    /\ rows = [i \in ID |-> NoRow]
    /\ walk = NoWalk

\* The rows the query's conditions admit, but for the cursor.
Matches(i) == rows[i].state = "live" /\ rows[i].tag = Wanted

-----------------------------------------------------------------------------
(* The other clients. *)

\* stage: an upload gets its id.
Stage ==
    /\ serial < MaxID
    /\ serial' = serial + 1
    /\ rows' = [rows EXCEPT ![serial + 1].state = "staged"]
    /\ UNCHANGED walk

\* Create: the row is inserted, and gets its created_at, once the object is
\* written.
Create(i, t) ==
    /\ rows[i].state = "staged"
    /\ rows' = [rows EXCEPT ![i] = [state |-> "live", tag |-> t]]
    /\ UNCHANGED <<serial, walk>>

\* A row that stops matching leaves the walk's steady set.
Leaves(i) == walk' = [walk EXCEPT !.steady = @ \ {i}]

\* The upload fails: no row will ever appear under the id.
Abandon(i) ==
    /\ rows[i].state = "staged"
    /\ rows' = [rows EXCEPT ![i].state = "gone"]
    /\ UNCHANGED <<serial, walk>>

\* Delete, the soft delete.
Delete(i) ==
    /\ rows[i].state = "live"
    /\ rows' = [rows EXCEPT ![i].state = "gone"]
    /\ Leaves(i)
    /\ UNCHANGED serial

\* UpdateMetadata, of a live row: the patch is merged into the tags, where
\* it wins, or takes their place.
UpdateMetadata(i, patch, merge) ==
    /\ rows[i].state = "live"
    /\ rows' = [rows EXCEPT ![i].tag = IF merge /\ patch = NoTag THEN @ ELSE patch]
    /\ IF rows'[i].tag = Wanted THEN UNCHANGED walk ELSE Leaves(i)
    /\ UNCHANGED serial

\* PATCH /files/{id}/metadata: a body that is no JSON object, null, or too
\* long is refused, and a missing file not found; neither changes anything.
patchMetadata(i) ==
    \E patch \in Tags \cup {NoTag}, merge \in BOOLEAN : UpdateMetadata(i, patch, merge)

-----------------------------------------------------------------------------
(* The walk. *)

\* api.clampLimit.
clampLimit(n) == IF n <= 0 THEN DefaultLimit ELSE IF n > MaxLimit THEN MaxLimit ELSE n

\* Mutant: the repository's bound has drifted from the edge's.
RepoLimitLower(n) == IF n <= 0 THEN DefaultLimit ELSE IF n > MaxLimit - 1 THEN MaxLimit - 1 ELSE n

\* Repo.List bounds the limit again.
RepoLimit(n) == IF n <= 0 THEN DefaultLimit ELSE IF n > MaxLimit THEN MaxLimit ELSE n

\* Mutant: the cursor's own row is included.
BeforeInclusive(i, cursor) == i <= cursor

\* The cursor bound, id < $cursor.
Before(i, cursor) == i < cursor

\* Repo.List: the first rows below the cursor, in descending order of id.
List(cursor, limit) ==
    LET found == {i \in ID : Matches(i) /\ Before(i, cursor)}
    IN  {i \in found : Cardinality({j \in found : j > i}) < RepoLimit(limit)}

Lowest(S) == CHOOSE i \in S : \A j \in S : i <= j

\* Mutants: next_cursor is the page's first id; or already below its last.
NextCursorFirst(page, limit) ==
    IF Cardinality(page) = limit THEN CHOOSE i \in page : \A j \in page : i >= j ELSE NoCursor

NextCursorBelow(page, limit) ==
    IF Cardinality(page) = limit THEN Lowest(page) - 1 ELSE NoCursor

\* The page's next_cursor: the last id of a full page, none after a short one.
NextCursor(page, limit) == IF Cardinality(page) = limit THEN Lowest(page) ELSE NoCursor

StartWalk ==
    /\ walk.pc = "idle"
    /\ \E n \in Limits :
          walk' = [walk EXCEPT !.pc = "walking", !.limit = n, !.steady = {i \in ID : Matches(i)}]
    /\ UNCHANGED <<serial, rows>>

\* GET /files: one page, and the client's decision to go on.
GetPage ==
    /\ walk.pc = "walking"
    /\ LET limit == clampLimit(walk.limit)
           page  == List(walk.cursor, limit)
           next  == NextCursor(page, limit)
       IN  walk' = [walk EXCEPT !.pc = IF next = NoCursor THEN "done" ELSE "walking",
                                !.cursor = next, !.got = @ \cup page,
                                !.again = @ \/ \E i \in page, j \in walk.got : i >= j]
    /\ UNCHANGED <<serial, rows>>

Next ==
    \/ Stage
    \/ \E i \in ID : \/ Abandon(i) \/ Delete(i) \/ patchMetadata(i)
                    \/ \E t \in Tags \cup {NoTag} : Create(i, t)
    \/ StartWalk \/ GetPage

Spec == Init /\ [][Next]_vars
FairSpec == Spec /\ WF_vars(GetPage)

-----------------------------------------------------------------------------
\* A finished walk has returned every file that was there, and matched the
\* filter, from its first request to its last, however many files were
\* added, deleted or re-tagged between two pages, the one the cursor names
\* included.
WalkComplete == walk.pc = "done" => walk.steady \subseteq walk.got

\* Pages only go down: no file is returned twice, and a page holds nothing
\* above what earlier pages returned.
PagesDescend == ~walk.again

\* A client that keeps asking reaches the end: an id drawn meanwhile sorts
\* above the cursor, one drawn earlier may be committed below it but there
\* are only so many uploads in flight, and a list whose length is an exact
\* multiple of the limit ends with one empty page.
WalkEnds == walk.pc = "walking" ~> walk.pc = "done"
=============================================================================
