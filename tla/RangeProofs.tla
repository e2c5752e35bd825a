---------------------------- MODULE RangeProofs ----------------------------
(***************************************************************************)
(* The range arithmetic is right for every header and every object size:   *)
(* no bound on the numbers, an int64 of any width.                         *)
(***************************************************************************)
EXTENDS RangeRequest, TLAPS

\* The response, once there, is the one computed from the header.
Computed ==
    /\ header \in Headers /\ size \in Sizes
    /\ resp # NoResponse => resp = downloadRange(parseSingleRange(header, size), size, size)

\* The numbers of a header, and the sizes of objects.
LEMMA HeaderTyped ==
    ASSUME NEW h \in Headers, NEW n \in Sizes
    PROVE  /\ n \in Nat /\ n <= MaxInt64
           /\ h.start.value \in Nat /\ h.end.value \in Nat
           /\ Int64(h.start) = h.start.value
           /\ Int64(h.end) \in Int
<1>1. n \in Nat /\ n <= MaxInt64
    BY RangeAssumption
<1>2. ASSUME NEW t \in Text
      PROVE  t.value \in Nat
  <2>1. CASE t = Empty \/ t = Junk
    BY <2>1 DEF Empty, Junk
  <2>2. CASE t \in [kind: {"digits", "plus", "minus"}, value: Numbers]
    BY <2>2, RangeAssumption
  <2>3. QED
    BY <2>1, <2>2 DEF Text
<1>3. h.start \in Text /\ h.start.kind # "minus" /\ h.end \in Text
    BY DEF Headers
<1>4. QED
    BY <1>1, <1>2, <1>3 DEF Int64

\* What parseSingleRange grants lies within the object and is what the
\* header names.
LEMMA GrantedIsNamed ==
    ASSUME NEW h \in Headers, NEW n \in Sizes,
           parseSingleRange(h, n).outcome = "ok"
    PROVE  LET p == parseSingleRange(h, n)
           IN  /\ p.offset \in Nat /\ p.length \in Nat \ {0} /\ p.offset + p.length <= n
               /\ Named(h, n) = p.offset..(p.offset + p.length - 1)
<1> USE HeaderTyped DEF parseSingleRange, Ignore, Unsatisfiable, Serve
<1>1. CASE h.start = Empty
  <2>1. parseSingleRange(h, n) = parseSuffix(h.end, n)
    BY <1>1
  <2>2. /\ Int64(h.end) = h.end.value /\ h.end.value # 0 /\ n # 0
        /\ parseSingleRange(h, n) = IF h.end.value > n THEN Serve(0, n)
                                    ELSE Serve(n - h.end.value, h.end.value)
    <3>1. /\ ~(Int64(h.end) < 0) /\ Int64(h.end) # 0 /\ n # 0
          /\ parseSingleRange(h, n) = IF Int64(h.end) > n THEN Serve(0, n)
                                      ELSE Serve(n - Int64(h.end), Int64(h.end))
        BY <2>1 DEF parseSuffix
    <3>2. Int64(h.end) = h.end.value
        BY <3>1 DEF Int64
    <3>3. QED
        BY <3>1, <3>2
  <2>3. Named(h, n) = {b \in 0..(n - 1) : b >= n - h.end.value}
    BY <1>1 DEF Named
  <2>4. CASE h.end.value > n
    <3>1. Named(h, n) = 0..(n - 1)
        BY <2>3, <2>4
    <3>2. QED
        BY <2>2, <2>4, <3>1
  <2>5. CASE ~(h.end.value > n)
    <3>1. Named(h, n) = (n - h.end.value)..(n - 1)
        BY <2>3, <2>5
    <3>2. n - h.end.value + h.end.value - 1 = n - 1
        OBVIOUS
    <3>3. QED
        BY <2>2, <2>5, <3>1, <3>2
  <2>6. QED
    BY <2>4, <2>5, Zenon
<1>2. CASE h.start # Empty /\ h.end = Empty
    BY <1>2 DEF parseOpenEnded, Parses, Int64, Named, Empty
<1>3. CASE h.start # Empty /\ h.end # Empty
  <2>1. Parses(h.start) /\ Parses(h.end) /\ Int64(h.start) <= Int64(h.end) /\ Int64(h.start) < n
    BY <1>3 DEF parseBounded
  <2>2. Int64(h.end) = h.end.value
    BY <2>1 DEF Int64
  <2>3. Named(h, n) = {b \in 0..(n - 1) : b >= h.start.value /\ b <= h.end.value}
    BY <1>3 DEF Named
  <2>4. CASE h.end.value >= n
    <3>1. parseSingleRange(h, n) = Serve(h.start.value, n - 1 - h.start.value + 1)
        BY <1>3, <2>1, <2>2, <2>4 DEF parseBounded
    <3>2. QED
        BY <2>1, <2>3, <2>4, <3>1
  <2>5. CASE ~(h.end.value >= n)
    <3>1. parseSingleRange(h, n) = Serve(h.start.value, h.end.value - h.start.value + 1)
        BY <1>3, <2>1, <2>2, <2>5 DEF parseBounded
    <3>2. /\ h.start.value \in Nat /\ h.end.value \in Nat
          /\ h.start.value <= h.end.value /\ n \in Nat
        BY <2>1, <2>2
    <3>3. Named(h, n) = h.start.value..h.end.value
        BY <2>3, <2>5, <3>2
    <3>4. /\ h.end.value - h.start.value + 1 \in Nat \ {0}
          /\ h.start.value + (h.end.value - h.start.value + 1) <= n
          /\ h.start.value + (h.end.value - h.start.value + 1) - 1 = h.end.value
        BY <2>5, <3>2
    <3>5. /\ parseSingleRange(h, n).offset = h.start.value
          /\ parseSingleRange(h, n).length = h.end.value - h.start.value + 1
        BY <3>1
    <3>6. QED
        BY <3>2, <3>3, <3>4, <3>5
  <2>6. QED
    BY <2>4, <2>5, Zenon
<1>4. QED
    BY <1>1, <1>2, <1>3, Zenon

\* What parseSingleRange finds unsatisfiable names no byte of the object.
LEMMA RefusedNamesNothing ==
    ASSUME NEW h \in Headers, NEW n \in Sizes,
           parseSingleRange(h, n).outcome = "unsatisfiable"
    PROVE  Named(h, n) = {}
<1> USE HeaderTyped DEF parseSingleRange, Ignore, Unsatisfiable, Serve
<1>1. CASE h.start = Empty
    <2>1. Int64(h.end) = 0 \/ n = 0
        BY <1>1 DEF parseSuffix
    <2>2. h.end.value = 0 \/ n = 0
        BY <2>1 DEF Int64
    <2>3. Named(h, n) = {b \in 0..(n - 1) : b >= n - h.end.value}
        BY <1>1 DEF Named
    <2>4. QED
        BY <2>2, <2>3
<1>2. CASE h.start # Empty
    <2>1. Int64(h.start) >= n
        BY <1>2 DEF parseOpenEnded, parseBounded
    <2>2. \A b \in Named(h, n) : b \in 0..(n - 1) /\ b >= h.start.value
        BY <1>2 DEF Named
    <2>3. QED
        BY <2>1, <2>2
<1>3. QED
    BY <1>1, <1>2

\* Of the plain headers, parseSingleRange ignores the malformed ones, and
\* finds unsatisfiable those that name nothing.
LEMMA VerdictIsRight ==
    ASSUME NEW h \in Headers, NEW n \in Sizes, Plain(h)
    PROVE  parseSingleRange(h, n).outcome =
               IF ~WellFormed(h) THEN "ignore"
               ELSE IF Named(h, n) = {} THEN "unsatisfiable" ELSE "ok"
<1> USE HeaderTyped DEF parseSingleRange, Ignore, Unsatisfiable, Serve
<1>0. \A t \in {h.start, h.end} :
         /\ IsNumber(t) <=> Parses(t) /\ Int64(t) >= 0
         /\ IsNumber(t) => Int64(t) = t.value /\ t # Empty
    BY RangeAssumption DEF Headers, Text, Plain, IsNumber, Parses, Int64, Empty, Junk
<1>1. CASE h.unit # "bytes" \/ ~h.dash
    BY <1>1 DEF WellFormed
<1>2. CASE h.unit = "bytes" /\ h.dash /\ h.start = Empty
  <2>1. WellFormed(h) <=> IsNumber(h.end)
    BY <1>2, <1>0 DEF WellFormed
  <2>2. Named(h, n) = {} <=> h.end.value = 0 \/ n = 0
    <3>1. CASE h.end.value # 0 /\ n # 0
        <4>1. n - 1 \in Named(h, n)
            BY <1>2, <3>1 DEF Named
        <4>2. QED
            BY <3>1, <4>1
    <3>2. CASE h.end.value = 0 \/ n = 0
        BY <1>2, <3>2 DEF Named
    <3>3. QED
        BY <3>1, <3>2
  <2>3. QED
    <3>1. parseSingleRange(h, n) = parseSuffix(h.end, n)
        BY <1>2
    <3>2. CASE ~IsNumber(h.end)
        <4>1. ~Parses(h.end) \/ Int64(h.end) < 0
            BY <3>2, <1>0 DEF IsNumber, Parses
        <4>2. ~WellFormed(h)
            BY <3>2, <2>1 DEF WellFormed
        <4>3. parseSuffix(h.end, n) = Ignore
            BY <4>1 DEF parseSuffix
        <4>4. QED
            BY <3>1, <4>2, <4>3
    <3>3. CASE IsNumber(h.end)
        <4>1. Parses(h.end) /\ Int64(h.end) = h.end.value /\ ~(Int64(h.end) < 0)
            BY <3>3, <1>0
        <4>2. QED
            BY <3>1, <3>3, <4>1, <2>1, <2>2 DEF parseSuffix
    <3>4. QED
        BY <3>2, <3>3
<1>3. CASE h.unit = "bytes" /\ h.dash /\ h.start # Empty
  <2>1. CASE ~IsNumber(h.start)
    <3>1. ~Parses(h.start)
        BY <2>1, <1>0
    <3>2. QED
        BY <1>3, <2>1, <3>1 DEF WellFormed
  <2>2. CASE IsNumber(h.start) /\ h.end = Empty
    <3>1. WellFormed(h)
        BY <1>3, <2>2 DEF WellFormed
    <3>2. Named(h, n) = {} <=> h.start.value >= n
        <4>1. CASE h.start.value < n
            <5>1. h.start.value \in Named(h, n)
                BY <1>3, <2>2, <4>1 DEF Named
            <5>2. QED
                BY <4>1, <5>1
        <4>2. CASE h.start.value >= n
            BY <1>3, <2>2, <4>2 DEF Named
        <4>3. QED
            BY <4>1, <4>2
    <3>3. QED
        BY <1>3, <2>2, <1>0, <3>1, <3>2 DEF parseOpenEnded
  <2>3. CASE IsNumber(h.start) /\ h.end # Empty
    <3>1. WellFormed(h) <=> IsNumber(h.end) /\ h.start.value <= h.end.value
        BY <1>3, <2>3 DEF WellFormed
    <3>2. ASSUME h.start.value <= h.end.value
          PROVE  Named(h, n) = {} <=> h.start.value >= n
        <4>1. CASE h.start.value < n
            <5>1. h.start.value \in Named(h, n)
                BY <1>3, <2>3, <4>1, <3>2 DEF Named
            <5>2. QED
                BY <4>1, <5>1
        <4>2. CASE h.start.value >= n
            BY <1>3, <2>3, <4>2 DEF Named
        <4>3. QED
            BY <4>1, <4>2
    <3>3. ~IsNumber(h.end) \/ h.start.value > h.end.value
              <=> ~Parses(h.end) \/ Int64(h.end) < Int64(h.start)
        BY <1>0, <2>3
    <3>4. QED
        <4>1. Parses(h.start) /\ Int64(h.start) = h.start.value
            BY <1>0, <2>3
        <4>2. parseSingleRange(h, n) = parseBounded(h.start.value, h.end, n)
            BY <1>3, <2>3, <4>1
        <4>3. CASE WellFormed(h)
            BY <4>1, <4>2, <4>3, <3>1, <3>2, <3>3 DEF parseBounded
        <4>4. CASE ~WellFormed(h)
            <5>1. ~Parses(h.end) \/ Int64(h.end) < h.start.value
                BY <4>1, <4>4, <3>1, <3>3 DEF Parses, WellFormed
            <5>2. QED
                BY <4>2, <4>4, <5>1 DEF parseBounded
        <4>5. QED
            BY <4>3, <4>4
  <2>4. QED
    BY <2>1, <2>2, <2>3
<1>4. QED
    BY <1>1, <1>2, <1>3

\* Every answer is computed from the request it answers.
LEMMA AlwaysComputed == RangeSpec => []Computed
<1>1. RangeInit => Computed
    BY DEF RangeInit, Computed
<1>2. Computed /\ [RangeNext]_rangeVars => Computed'
    BY DEF Computed, RangeNext, Respond, rangeVars
<1>3. QED
    BY <1>1, <1>2, PTL DEF RangeSpec

\* What a 206 consists of.
LEMMA PartialResponse ==
    ASSUME Computed, resp.status = 206
    PROVE  /\ size \in Nat /\ resp.first \in Nat /\ resp.length \in Nat \ {0}
           /\ resp.first + resp.length <= size
           /\ resp.last = resp.first + resp.length - 1
           /\ Named(header, size) = resp.first..resp.last
           /\ resp.body = resp.first..resp.last
<1> DEFINE p == parseSingleRange(header, size)
<1>1. header \in Headers /\ size \in Sizes /\ resp = downloadRange(p, size, size)
    BY DEF Computed, NoResponse
<1>2. p.outcome = "ok"
  <2>1. p.outcome \in {"ignore", "unsatisfiable", "ok"}
    BY DEF parseSingleRange, parseSuffix, parseOpenEnded, parseBounded,
           Ignore, Unsatisfiable, Serve
  <2>2. QED
    BY <1>1, <2>1 DEF downloadRange
<1>3. /\ p.offset \in Nat /\ p.length \in Nat \ {0} /\ p.offset + p.length <= size
      /\ Named(header, size) = p.offset..(p.offset + p.length - 1)
    BY <1>1, <1>2, GrantedIsNamed
<1>4. size \in Nat
    BY <1>1, HeaderTyped
<1> HIDE DEF p
<1>5. resp = [status |-> 206, first |-> p.offset, last |-> p.offset + p.length - 1,
              length |-> p.length, body |-> GetRange(p.offset, p.length, size)]
    BY <1>1, <1>2 DEF downloadRange
<1>6. GetRange(p.offset, p.length, size) = p.offset..(p.offset + p.length - 1)
    BY <1>3, <1>4 DEF GetRange, SetRange
<1>7. QED
    BY <1>3, <1>4, <1>5, <1>6

\* What a response computed in this way is worth.
LEMMA ComputedIsRight == Computed => PartialBodyIsNamed /\ BackendsAgree /\ AnswerFollowsHeader
<1> SUFFICES ASSUME Computed PROVE PartialBodyIsNamed /\ BackendsAgree /\ AnswerFollowsHeader
    OBVIOUS
<1>1. ASSUME resp.status = 206 PROVE PartialBodyIsNamed /\ BackendsAgree
  <2>1. resp.first \in resp.first..resp.last
    BY <1>1, PartialResponse
  <2>2. PartialBodyIsNamed
    <3>1. resp.length = resp.last - resp.first + 1
      BY <1>1, PartialResponse
    <3>2. resp.body = resp.first..resp.last /\ resp.body = Named(header, size)
      BY <1>1, PartialResponse, Zenon
    <3>3. resp.body # {}
      BY <2>1, <3>2, Zenon
    <3>4. QED
      BY <3>1, <3>2, <3>3 DEF PartialBodyIsNamed
  <2>3. MemoryGetRange(resp.first, resp.length, size) = resp.first..resp.last
    BY <1>1, PartialResponse DEF MemoryGetRange
  <2>4. BackendsAgree
    BY <1>1, <2>3, PartialResponse DEF BackendsAgree
  <2>5. QED
    BY <2>2, <2>4
<1>2. ASSUME resp # NoResponse, Plain(header) PROVE resp.status = DueStatus(header, size)
  <2>1. header \in Headers /\ size \in Sizes
    BY DEF Computed
  <2>2. resp = downloadRange(parseSingleRange(header, size), size, size)
    BY <1>2 DEF Computed
  <2>3. QED
    BY <1>2, <2>1, <2>2, VerdictIsRight DEF DueStatus, downloadRange
<1>3. QED
    BY <1>1, <1>2 DEF PartialBodyIsNamed, BackendsAgree, AnswerFollowsHeader

\* A 206 carries exactly the bytes the header names, under headers that
\* describe them exactly.
THEOREM RangeBodies == RangeSpec => []PartialBodyIsNamed
    BY ComputedIsRight, AlwaysComputed, PTL

\* The test double and the S3 backend serve the same bytes for every range
\* the handler grants.
THEOREM DoubleIsFaithful == RangeSpec => []BackendsAgree
    BY ComputedIsRight, AlwaysComputed, PTL

\* Every header whose numbers have no sign and fit an int64 gets the answer
\* it deserves: 206, 416 or the whole object.
THEOREM RangeAnswers == RangeSpec => []AnswerFollowsHeader
    BY ComputedIsRight, AlwaysComputed, PTL
=============================================================================
