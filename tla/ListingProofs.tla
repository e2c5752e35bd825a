---------------------------- MODULE ListingProofs ----------------------------
(***************************************************************************)
(* A walk through GET /files misses nothing and repeats nothing.  Pages    *)
(* are cut from the top of the ids below the cursor, so that whatever a    *)
(* full page leaves out is below its last id, and a short one leaves out   *)
(* nothing.                                                                *)
(***************************************************************************)
EXTENDS Listing, TLAPS, FiniteSetTheorems, WellFoundedInduction

-----------------------------------------------------------------------------
(* Sets of ids. *)

LEMMA IdsAreFinite ==
    ASSUME NEW S \in SUBSET ID
    PROVE  IsFiniteSet(S) /\ Cardinality(S) \in Nat /\ S \subseteq Nat
<1>1. IsFiniteSet(ID)
    BY FS_Interval, ListingAssumption DEF ID
<1>2. IsFiniteSet(S)
    BY <1>1, FS_Subset
<1>3. QED
    BY <1>2, FS_CardinalityType DEF ID

LEMMA Least ==
    ASSUME NEW S \in SUBSET Nat, S # {}
    PROVE  \E i \in S : \A j \in S : i <= j
<1> DEFINE R == OpToRel(<, Nat)
<1>1. IsWellFoundedOn(R, Nat)
    BY NatLessThanWellFounded
<1> HIDE DEF R
<1>2. PICK i \in S : \A j \in S : <<j, i>> \notin R
    BY <1>1, WFMin
<1>3. \A j \in S : ~(j < i)
    BY <1>2 DEF R, OpToRel
<1>4. QED
    BY <1>3

LEMMA Greatest ==
    ASSUME NEW S \in SUBSET ID, S # {}
    PROVE  \E i \in S : \A j \in S : i >= j
<1>1. MaxID \in Nat /\ \A i \in S : i \in Nat /\ MaxID - i \in Nat
    BY ListingAssumption DEF ID
<1> DEFINE T == {MaxID - i : i \in S}
<1>2. T \in SUBSET Nat /\ T # {}
    BY <1>1
<1>3. PICK t \in T : \A u \in T : t <= u
    BY <1>2, Least
<1>4. PICK i \in S : t = MaxID - i
    BY <1>3
<1>5. \A j \in S : MaxID - i <= MaxID - j
    BY <1>3, <1>4
<1>6. QED
    BY <1>1, <1>5

-----------------------------------------------------------------------------
(* One page. *)

Found(cursor) == {i \in ID : Matches(i) /\ Before(i, cursor)}

\* The edge's limit passes through the repository's unchanged.
LEMMA LimitsAgree ==
    ASSUME NEW n \in Int
    PROVE  clampLimit(n) \in Nat \ {0} /\ RepoLimit(clampLimit(n)) = clampLimit(n)
    BY ListingAssumption DEF clampLimit, RepoLimit

\* What a page leaves out is below all of it, and a page is full if it
\* leaves out anything.
LEMMA PageIsTop ==
    ASSUME NEW cursor, NEW limit \in Nat \ {0}, RepoLimit(limit) = limit
    PROVE  /\ List(cursor, limit) \subseteq Found(cursor)
           /\ \A i \in Found(cursor) \ List(cursor, limit) :
                 /\ \A m \in List(cursor, limit) : i < m
                 /\ Cardinality(List(cursor, limit)) = limit
<1> DEFINE F == Found(cursor)
           P == List(cursor, limit)
           Above(i) == {j \in F : j > i}
<1>1. F \in SUBSET ID /\ \A i : Above(i) \in SUBSET ID
    BY DEF Found
<1>2. P = {i \in F : Cardinality(Above(i)) < limit}
    BY DEF List, Found
<1>3. \A i : IsFiniteSet(Above(i)) /\ Cardinality(Above(i)) \in Nat
    BY <1>1, IdsAreFinite
<1>4. F \subseteq Nat /\ P \in SUBSET ID /\ P \subseteq F
    BY <1>1, <1>2 DEF ID
<1>5. IsFiniteSet(P) /\ Cardinality(P) \in Nat
    BY <1>4, IdsAreFinite
<1> HIDE DEF F, P, Above
<1>6. ASSUME NEW i \in F \ P, NEW m \in P PROVE i < m
    <2>1. SUFFICES ASSUME ~(i < m) PROVE FALSE
        OBVIOUS
    <2>2. Above(i) \subseteq Above(m)
        <3>1. ASSUME NEW j \in F, j > i PROVE j > m
            <4>1. j \in Nat /\ i \in Nat /\ m \in Nat
                BY <1>4
            <4>2. QED
                BY <2>1, <3>1, <4>1
        <3>2. QED
            BY <3>1 DEF Above
    <2>3. Cardinality(Above(i)) <= Cardinality(Above(m))
        BY <1>3, <2>2, FS_Subset
    <2>4. QED
        BY <1>2, <1>3, <2>3
<1>7. Cardinality(P) <= limit
    <2>1. CASE P = {}
        BY <2>1, FS_EmptySet
    <2>2. CASE P # {}
        <3>1. P \in SUBSET Nat
            BY <1>4
        <3>2. PICK m \in P : \A j \in P : m <= j
            BY <2>2, <3>1, Least
        <3>3. P \in SUBSET (Above(m) \cup {m})
            BY <1>4, <3>2 DEF Above
        <3>4. m \notin Above(m)
            BY <1>4 DEF Above
        <3>5. /\ IsFiniteSet(Above(m) \cup {m})
              /\ Cardinality(Above(m) \cup {m}) = Cardinality(Above(m)) + 1
            BY <1>3, <3>4, FS_AddElement
        <3>6. Cardinality(P) <= Cardinality(Above(m)) + 1
            BY <3>3, <3>5, FS_Subset
        <3>7. QED
            BY <1>2, <1>3, <1>5, <3>2, <3>6
    <2>3. QED
        BY <2>1, <2>2
<1>8. ASSUME NEW i \in F \ P PROVE Cardinality(P) = limit
    <2>1. F \ P \in SUBSET ID /\ F \ P # {}
        BY <1>1, <1>8
    <2>2. PICK g \in F \ P : \A j \in F \ P : g >= j
        BY <2>1, Greatest
    <2>3. Above(g) \in SUBSET P
        <3>1. ASSUME NEW j \in F, j > g PROVE j \in P
            <4>1. j \in Nat /\ g \in Nat
                BY <1>4
            <4>2. QED
                BY <2>2, <3>1, <4>1
        <3>2. QED
            BY <3>1 DEF Above
    <2>4. Cardinality(Above(g)) <= Cardinality(P)
        BY <1>5, <2>3, FS_Subset
    <2>5. ~(Cardinality(Above(g)) < limit)
        BY <1>2, <2>2
    <2>6. QED
        BY <1>3, <1>5, <1>7, <2>4, <2>5
<1>9. QED
    BY <1>4, <1>6, <1>8 DEF F, P

\* The next cursor is the last id of the page, or there is none.
LEMMA NextCursorIsLast ==
    ASSUME NEW page \in SUBSET ID, NEW limit \in Nat \ {0}
    PROVE  \/ /\ Cardinality(page) = limit
              /\ NextCursor(page, limit) \in page
              /\ \A j \in page : NextCursor(page, limit) <= j
           \/ Cardinality(page) # limit /\ NextCursor(page, limit) = NoCursor
<1>1. CASE Cardinality(page) = limit
    <2>1. page # {} /\ page \in SUBSET Nat
        BY <1>1, FS_EmptySet DEF ID
    <2>2. \E i \in page : \A j \in page : i <= j
        BY <2>1, Least
    <2>3. QED
        BY <1>1, <2>2 DEF NextCursor, Lowest
<1>2. CASE Cardinality(page) # limit
    BY <1>2 DEF NextCursor
<1>3. QED
    BY <1>1, <1>2

-----------------------------------------------------------------------------
(* The inductive invariant. *)

\* Ids not yet handed out have no row that matches.
UnbornAboveSerial == \A i \in ID : i > serial => rows[i].state = "unborn"

\* What was there throughout still matches,
SteadyMatches == \A i \in walk.steady : Matches(i)

\* and was returned or lies below the cursor; everything returned is above.
CursorSplits ==
    walk.pc = "walking" =>
        /\ \A i \in walk.steady : i \in walk.got \/ i < walk.cursor
        /\ \A i \in walk.got : i >= walk.cursor

WalkNotBegun == walk.pc = "idle" => walk.got = {} /\ walk.steady = {} /\ walk.cursor = NoCursor

WalkInv ==
    /\ TypeOK /\ UnbornAboveSerial /\ SteadyMatches /\ CursorSplits /\ WalkNotBegun
    /\ WalkComplete /\ PagesDescend

LEMMA ListingInit == Init => WalkInv
<1> SUFFICES ASSUME Init PROVE WalkInv
    OBVIOUS
<1>1. MaxID \in Nat /\ NoCursor \in 1..NoCursor
    BY ListingAssumption DEF NoCursor
<1>2. /\ walk.pc = "idle" /\ walk.got = {} /\ walk.steady = {} /\ walk.cursor = NoCursor
      /\ walk.again = FALSE
    BY DEF Init, NoWalk
<1>3. TypeOK
    BY <1>1 DEF Init, NoWalk, NoRow, TypeOK
<1>4. UnbornAboveSerial
    BY DEF Init, NoRow, UnbornAboveSerial
<1>5. QED
    BY <1>2, <1>3, <1>4 DEF WalkInv, SteadyMatches, CursorSplits, WalkNotBegun, WalkComplete,
                            PagesDescend

\* Steps of the other clients: the walk at most drops a row from steady, and
\* every row that stays in steady still matches.
LEMMA OthersKeepWalk ==
    ASSUME WalkInv, TypeOK', UnbornAboveSerial',
           UNCHANGED walk \/ \E i \in ID : Leaves(i),
           \A j \in walk'.steady : Matches(j)'
    PROVE  WalkInv'
<1>1. /\ walk'.pc = walk.pc /\ walk'.got = walk.got /\ walk'.cursor = walk.cursor
      /\ walk'.again = walk.again /\ walk'.steady \subseteq walk.steady
    BY DEF Leaves, WalkInv, TypeOK
<1>2. SteadyMatches'
    BY DEF SteadyMatches, Matches
<1>3. QED
    BY <1>1, <1>2 DEF WalkInv, CursorSplits, WalkNotBegun, WalkComplete, PagesDescend

\* Pages: a steady row that the new page leaves out is below its last id, and
\* there is none when the page is short.  The cursor goes down to that id.
LEMMA PageKeepsWalk ==
    ASSUME WalkInv, GetPage
    PROVE  WalkInv' /\ (walk'.pc = "done" \/ walk'.cursor < walk.cursor)
<1> DEFINE limit == clampLimit(walk.limit)
           page  == List(walk.cursor, limit)
           next  == NextCursor(page, limit)
<1> USE DEF WalkInv
<1>1. walk.limit \in Int /\ MaxID \in Nat
    <2>1. walk.limit \in Limits \cup {0}
        BY DEF TypeOK
    <2>2. \A n \in Limits \cup {0} : n \in Int
        BY ListingAssumption
    <2>3. QED
        BY <2>1, <2>2, ListingAssumption
<1>2. limit \in Nat \ {0} /\ RepoLimit(limit) = limit
    BY <1>1, LimitsAgree
<1>3. /\ walk.pc = "walking" /\ UNCHANGED <<serial, rows>>
      /\ walk' = [walk EXCEPT !.pc = IF next = NoCursor THEN "done" ELSE "walking",
                              !.cursor = next, !.got = @ \cup page,
                              !.again = @ \/ \E i \in page, j \in walk.got : i >= j]
    BY DEF GetPage
<1> HIDE DEF limit
<1>4. /\ page \subseteq Found(walk.cursor)
      /\ \A i \in Found(walk.cursor) \ page :
            (\A m \in page : i < m) /\ Cardinality(page) = limit
    BY <1>2, PageIsTop
<1> HIDE DEF page
<1>5. page \in SUBSET ID /\ \A i \in page : i < walk.cursor
    BY <1>4 DEF Found, Before
<1>6. \/ Cardinality(page) = limit /\ next \in page /\ \A j \in page : next <= j
      \/ Cardinality(page) # limit /\ next = NoCursor
    BY <1>2, <1>5, NextCursorIsLast
<1> HIDE DEF next
<1>7. next \in 1..NoCursor /\ (Cardinality(page) = limit => next # NoCursor)
    <2>1. ASSUME NEW i \in ID PROVE i \in 1..NoCursor /\ i # NoCursor
        BY <1>1 DEF ID, NoCursor
    <2>2. NoCursor \in 1..NoCursor
        BY <1>1 DEF NoCursor
    <2>3. next \in page => next \in ID
        BY <1>5
    <2>4. QED
        BY <1>6, <2>1, <2>2, <2>3
<1>8. /\ walk.cursor \in Nat /\ (\A i \in walk.got : i \in Nat /\ i >= walk.cursor)
      /\ (\A i \in page : i \in Nat) /\ next \in Nat
    BY <1>1, <1>3, <1>5, <1>7 DEF TypeOK, CursorSplits, ID, NoCursor
<1>9. ~(\E i \in page, j \in walk.got : i >= j)
    BY <1>5, <1>8
<1>10. /\ walk'.pc = IF next = NoCursor THEN "done" ELSE "walking"
       /\ walk'.cursor = next /\ walk'.got = walk.got \cup page
       /\ walk'.again = FALSE /\ walk'.steady = walk.steady /\ walk'.limit = walk.limit
    <2>1. walk.again = FALSE
        BY DEF PagesDescend, TypeOK
    <2>2. QED
        BY <1>3, <1>9, <2>1 DEF TypeOK
<1>11. TypeOK'
    <2>1. walk' = [walk EXCEPT !.pc = IF next = NoCursor THEN "done" ELSE "walking",
                               !.cursor = next, !.got = walk.got \cup page, !.again = FALSE]
        BY <1>3, <1>9, <1>10 DEF TypeOK
    <2>2. walk.got \cup page \in SUBSET ID
        BY <1>5 DEF TypeOK
    <2>3. QED
        BY <1>3, <1>7, <2>1, <2>2 DEF TypeOK
<1>12. SteadyMatches' /\ UnbornAboveSerial' /\ PagesDescend'
    BY <1>3, <1>10 DEF SteadyMatches, Matches, UnbornAboveSerial, PagesDescend
<1>13. ASSUME NEW i \in walk.steady, i \notin walk.got \cup page
       PROVE  Cardinality(page) = limit /\ i < next
    <2>1. i \in Found(walk.cursor)
        BY <1>3, <1>13 DEF Found, Before, SteadyMatches, CursorSplits, TypeOK
    <2>2. QED
        BY <1>4, <1>6, <1>13, <2>1
<1>14. CursorSplits'
    <2>1. ASSUME next # NoCursor PROVE \A i \in walk.got \cup page : i >= next
        BY <1>5, <1>6, <1>8, <2>1
    <2>2. QED
        BY <1>10, <1>13, <2>1 DEF CursorSplits
<1>15. WalkComplete'
    BY <1>7, <1>10, <1>13 DEF WalkComplete
<1>16. WalkNotBegun'
    BY <1>10 DEF WalkNotBegun
<1>17. walk'.pc = "done" \/ walk'.cursor < walk.cursor
    BY <1>5, <1>6, <1>10
<1>18. QED
    BY <1>11, <1>12, <1>14, <1>15, <1>16, <1>17

LEMMA ListingNext == WalkInv /\ [Next]_vars => WalkInv'
<1> SUFFICES ASSUME WalkInv, [Next]_vars PROVE WalkInv'
    OBVIOUS
<1>1. /\ TypeOK /\ UnbornAboveSerial /\ \A i \in walk.steady : Matches(i) /\ i \in ID
      /\ MaxID \in Nat
    BY ListingAssumption DEF WalkInv, SteadyMatches, TypeOK
<1>2. ASSUME NEW i \in ID, UNCHANGED serial, TypeOK', rows[i].state # "unborn",
             rows' = [rows EXCEPT ![i] = rows'[i]],
             UNCHANGED walk \/ Leaves(i), Matches(i) => Matches(i)' \/ Leaves(i)
      PROVE  WalkInv'
    <2>1. UnbornAboveSerial'
        BY <1>1, <1>2 DEF UnbornAboveSerial, TypeOK
    <2>2. ASSUME NEW j \in walk'.steady PROVE Matches(j)'
        <3>1. j \in walk.steady /\ (Leaves(i) => j # i)
            BY <1>1, <1>2, <2>2 DEF Leaves, TypeOK
        <3>2. Matches(j) /\ j \in ID
            BY <1>1, <3>1
        <3>3. CASE j = i
            BY <1>2, <3>1, <3>2, <3>3
        <3>4. CASE j # i
            <4>1. rows'[j] = rows[j]
                BY <1>1, <1>2, <3>2, <3>4 DEF TypeOK
            <4>2. QED
                BY <3>2, <4>1 DEF Matches
        <3>5. QED
            BY <3>3, <3>4
    <2>3. QED
        BY <1>2, <2>1, <2>2, OthersKeepWalk
<1>3. CASE Stage
    <2>1. serial + 1 \in ID /\ TypeOK'
        <3>1. serial \in 0..MaxID /\ serial < MaxID /\ MaxID \in Nat
            BY <1>1, <1>3 DEF Stage, TypeOK
        <3>2. serial + 1 \in ID /\ serial + 1 \in 0..MaxID
            BY <3>1 DEF ID
        <3>3. PICK n \in ID : n = serial + 1
            BY <3>2, Zenon
        <3>4. rows' = [rows EXCEPT ![n].state = "staged"]
            BY <1>3, <3>3, Zenon DEF Stage
        <3>5. rows' \in [ID -> [state: {"unborn", "staged", "live", "gone"}, tag: Tags \cup {NoTag}]]
            BY <1>1, <3>4 DEF TypeOK
        <3>6. serial' \in 0..MaxID /\ UNCHANGED walk
            BY <1>3, <3>2 DEF Stage
        <3>7. QED
            BY <1>1, <3>2, <3>5, <3>6 DEF TypeOK
    <2>2. UnbornAboveSerial'
        BY <1>1, <1>3 DEF Stage, UnbornAboveSerial, TypeOK, ID
    <2>3. \A j \in walk'.steady : Matches(j)'
        BY <1>1, <1>3, <2>1 DEF Stage, Matches, UnbornAboveSerial, TypeOK
    <2>4. QED
        BY <1>3, <2>1, <2>2, <2>3, OthersKeepWalk DEF Stage
<1>4. ASSUME NEW i \in ID, NEW t \in Tags \cup {NoTag}, Create(i, t) PROVE WalkInv'
    BY <1>1, <1>2, <1>4 DEF Create, TypeOK, Matches
<1>5. ASSUME NEW i \in ID, Abandon(i) PROVE WalkInv'
    BY <1>1, <1>2, <1>5 DEF Abandon, TypeOK, Matches
<1>6. ASSUME NEW i \in ID, Delete(i) PROVE WalkInv'
    BY <1>1, <1>2, <1>6 DEF Delete, TypeOK, Matches, Leaves
<1>7. ASSUME NEW i \in ID, patchMetadata(i) PROVE WalkInv'
    <2>1. PICK patch \in Tags \cup {NoTag}, merge \in BOOLEAN : UpdateMetadata(i, patch, merge)
        BY <1>7 DEF patchMetadata
    <2>2. PICK tag \in Tags \cup {NoTag} : rows' = [rows EXCEPT ![i].tag = tag]
        BY <1>1, <2>1 DEF UpdateMetadata, TypeOK
    <2>3. UNCHANGED walk \/ Leaves(i)
        BY <2>1 DEF UpdateMetadata
    <2>4. TypeOK'
        BY <1>1, <2>1, <2>2, <2>3 DEF UpdateMetadata, TypeOK, Leaves
    <2>5. Matches(i)' \/ Leaves(i)
        BY <1>1, <2>1, <2>2 DEF UpdateMetadata, TypeOK, Matches
    <2>6. UNCHANGED serial /\ rows[i].state = "live" /\ rows' = [rows EXCEPT ![i] = rows'[i]]
        BY <1>1, <2>1, <2>2 DEF UpdateMetadata, TypeOK
    <2>7. QED
        BY <1>2, <2>3, <2>4, <2>5, <2>6
<1>8. CASE StartWalk
    <2>1. PICK n \in Limits :
             walk' = [walk EXCEPT !.pc = "walking", !.limit = n, !.steady = {i \in ID : Matches(i)}]
        BY <1>8 DEF StartWalk
    <2>2. walk.pc = "idle" /\ UNCHANGED <<serial, rows>>
        BY <1>8 DEF StartWalk
    <2>3. {i \in ID : Matches(i)} \in SUBSET ID
        OBVIOUS
    <2>4. TypeOK'
        BY <1>1, <2>1, <2>2, <2>3 DEF TypeOK
    <2>5. /\ walk'.pc = "walking" /\ walk'.steady = {i \in ID : Matches(i)}
          /\ walk'.got = {} /\ walk'.cursor = NoCursor /\ walk'.again = walk.again
        BY <1>1, <2>1, <2>2 DEF WalkInv, WalkNotBegun, TypeOK
    <2>6. \A i \in ID : i < NoCursor
        BY <1>1 DEF ID, NoCursor
    <2>7. QED
        BY <1>1, <2>2, <2>4, <2>5, <2>6 DEF WalkInv, UnbornAboveSerial, SteadyMatches, Matches,
              CursorSplits, WalkNotBegun, WalkComplete, PagesDescend
<1>9. CASE UNCHANGED vars
    BY <1>9 DEF vars, WalkInv, TypeOK, UnbornAboveSerial, SteadyMatches, Matches, CursorSplits,
                WalkNotBegun, WalkComplete, PagesDescend
<1>10. QED
    BY <1>3, <1>4, <1>5, <1>6, <1>7, <1>8, <1>9, PageKeepsWalk DEF Next

LEMMA ListingInvariant == Spec => []WalkInv
<1>1. Init => WalkInv
    BY ListingInit
<1>2. WalkInv /\ [Next]_vars => WalkInv'
    BY ListingNext
<1>3. QED
    BY <1>1, <1>2, PTL DEF Spec

\* The rows, ids and cursors of a walk keep their types.
THEOREM ListingTypeCorrect == Spec => []TypeOK
<1>1. WalkInv => TypeOK
    BY DEF WalkInv
<1>2. QED
    BY <1>1, ListingInvariant, PTL

\* Walking GET /files to its end, in pages of any size and while files come,
\* go and are re-tagged between any two of them, returns every file that
\* matched throughout: for every number of files and every pair of limits.
THEOREM WalksAreComplete == Spec => []WalkComplete
<1>1. WalkInv => WalkComplete
    BY DEF WalkInv
<1>2. QED
    BY <1>1, ListingInvariant, PTL

\* No page of GET /files reaches back to an id that an earlier page returned.
THEOREM PagesOnlyDescend == Spec => []PagesDescend
<1>1. WalkInv => PagesDescend
    BY DEF WalkInv
<1>2. QED
    BY <1>1, ListingInvariant, PTL

\* Why a walk ends, whatever is uploaded, deleted or re-tagged meanwhile:
\* every page ends it or brings its cursor down, and nothing else moves the
\* cursor.
THEOREM PagesMakeProgress ==
    Spec => [][walk.pc = "walking" =>
                  IF GetPage THEN walk'.pc = "done" \/ walk'.cursor < walk.cursor
                  ELSE walk'.pc = "walking" /\ walk'.cursor = walk.cursor]_vars
<1> DEFINE Step == walk.pc = "walking" =>
                       IF GetPage THEN walk'.pc = "done" \/ walk'.cursor < walk.cursor
                       ELSE walk'.pc = "walking" /\ walk'.cursor = walk.cursor
<1>1. ASSUME WalkInv, [Next]_vars PROVE [Step]_vars
    <2>1. CASE GetPage
        BY <1>1, <2>1, PageKeepsWalk
    <2>2. ASSUME ~GetPage, walk.pc = "walking", UNCHANGED walk \/ \E i \in ID : Leaves(i)
          PROVE  Step
        <3>1. walk'.pc = walk.pc /\ walk'.cursor = walk.cursor
            BY <1>1, <2>2 DEF Leaves, WalkInv, TypeOK
        <3>2. QED
            BY <2>2, <3>1
    <2>3. CASE Next /\ ~GetPage /\ walk.pc = "walking"
        <3>1. UNCHANGED walk \/ \E i \in ID : Leaves(i)
            BY <2>3 DEF Next, Stage, Abandon, Delete, patchMetadata, UpdateMetadata, Create, StartWalk
        <3>2. QED
            BY <2>2, <2>3, <3>1
    <2>4. QED
        BY <1>1, <2>1, <2>3
<1>2. QED
    BY <1>1, ListingInvariant, PTL DEF Spec
=============================================================================
