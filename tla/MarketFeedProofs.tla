-------------------------- MODULE MarketFeedProofs --------------------------
(***************************************************************************)
(* What MarketFeed promises, for any number of bars and any size of pages  *)
(* and windows: a final bar is never touched again, and a warming that     *)
(* comes to its end has left no hole behind.                               *)
(*                                                                         *)
(* The second rests on an account of every bar the warming was to fetch:   *)
(* until its end each of them is stored, in the page in hand, in a range   *)
(* still ahead, or inside a gap that find_gaps will find (WarmInv).  That  *)
(* no page of a window is cut off is arithmetic about its span (Pages).    *)
(***************************************************************************)
EXTENDS MarketFeed, FiniteSetTheorems, SequenceTheorems, WellFoundedInduction, TLAPS

Contents == {"forming", "frozen", "final"}
JobRow == [at : {"rest", "fetch", "write", "commit", "done", "whole", "over"},
           ranges : Seq(Int \X Int), filled : BOOLEAN, cursor : Int,
           page : SUBSET (Bars \X Contents), read : (Bars \X Bars) \cup {<<>>}]

StoreTypes ==
  /\ now \in Bars
  /\ stored \in [Bars -> {"none"} \cup Contents]
  /\ \A b \in Bars : stored[b] # "none" => b <= now
  /\ coverage \in (Bars \X Bars) \cup {<<>>}
  /\ job \in [Writers -> JobRow]
  /\ warmed \in [from : Nat, forming : SUBSET Bars] /\ warmed.from <= now

There(b) == stored[b] # "none"
InPage(q, b) == \E x \in q.page : x[1] = b

\* A page holds a bar once, and none that has not opened.
PageIsRight(q) ==
  /\ q.at \in {"write", "commit"} <=> q.page # {}
  /\ \A x, y \in q.page : x[1] = y[1] => x = y
  /\ \A x \in q.page : x[1] <= now

\* Bars that were over when the warming began are nowhere kept as they were before,
\* but where they were then.
PageIsKnown(q) ==
  \A b \in Bars, s \in Unfinished : <<b, s>> \in q.page /\ b < warmed.from => b \in warmed.forming
StoredIsKnown ==
  \A b \in Bars : stored[b] \in Unfinished /\ b < warmed.from => b \in warmed.forming

\* Which ranges a writer has, at each place.
RangesAreRight(q) ==
  /\ q.at \in {"fetch", "write", "commit"} => q.ranges # <<>>
  /\ q.at \in {"rest", "done", "whole", "over"} => q.ranges = <<>>
  /\ q.at = "done" => ~q.filled
  /\ q.at = "whole" => q.filled

\* The coverage read and the coverage row name bars that are there, or that
\* the commit will put there.
ReadIsTrue(q) ==
  q.at = "commit" =>
    /\ q.read \in Bars \X Bars
    /\ There(q.read[1]) \/ InPage(q, q.read[1])
    /\ There(q.read[2]) \/ InPage(q, q.read[2])
CoverageIsTrue == coverage # <<>> => There(coverage[1]) /\ There(coverage[2])

\* The bar is in a range still to be fetched.
Within(start, end, b) == start <= OpensAt(b) /\ OpensAt(b) < end
AheadIn(ranges, b) == \E i \in DOMAIN ranges : Within(ranges[i][1], ranges[i][2], b)
Ahead(q, b) ==
  /\ q.at \in {"fetch", "write", "commit"}
  /\ \/ Within(q.cursor, q.ranges[1][2], b)
     \/ \E i \in DOMAIN q.ranges : i # 1 /\ Within(q.ranges[i][1], q.ranges[i][2], b)
InGap(b) == \E a, c \in Bars : a < b /\ b < c /\ There(a) /\ There(c)

\* What holds of each writer, and the account the warming keeps.
RowInv(j, q) ==
  /\ q \in JobRow /\ PageIsRight(q) /\ PageIsKnown(q) /\ ReadIsTrue(q)
  /\ j # "stream" => RangesAreRight(q)
  /\ j = "stream" => q.at \in {"rest", "write", "commit"}
Asked == {b \in (Bars \cap (warmed.from - Wanted)..warmed.from) \ missing : LookedAt(b)}
Accounted(q, b) == There(b) \/ InPage(q, b) \/ Ahead(q, b) \/ (~q.filled /\ InGap(b))
WarmInv(q) == q.at \notin {"rest", "over"} => \A b \in Asked : Accounted(q, b)

FeedInv ==
  /\ StoreTypes /\ CoverageIsTrue /\ StoredIsKnown
  /\ \A j \in Writers : RowInv(j, job[j])
  /\ WarmInv(job["warm"])

-----------------------------------------------------------------------------
(* Copies of a writer's row.                                               *)

LEMMA Constants ==
  /\ MaxBar \in Nat /\ Bars = 1..MaxBar /\ Bars \subseteq Nat /\ Wanted \in Nat
  /\ PageLimit \in Nat /\ PageLimit >= 2 /\ GapBars \in Nat
  BY BoundsAssumption, PageAssumption, GapAssumption DEF Bars

LEMMA Resting ==
  /\ Rest \in JobRow /\ Rest.at = "rest" /\ Rest.ranges = <<>> /\ Rest.page = {} /\ ~Rest.filled /\ Rest.read = <<>>
  /\ [Rest EXCEPT !.at = "over"] \in JobRow /\ [Rest EXCEPT !.at = "over"].at = "over"
  /\ [Rest EXCEPT !.at = "over"].ranges = <<>> /\ [Rest EXCEPT !.at = "over"].page = {}
<1>1. Rest \in JobRow
  BY DEF Rest, JobRow
<1> QED
  BY <1>1 DEF Rest, JobRow

-----------------------------------------------------------------------------
(* The least and the greatest of a set of bars, and of two moments.        *)

LEMMA LeastThere ==
  ASSUME NEW S \in SUBSET Nat, S # {}
  PROVE  \E x \in S : \A y \in S : x <= y
<1> DEFINE R == OpToRel(<, Nat)
<1>0. IsWellFoundedOn(R, Nat) /\ S \subseteq Nat
  BY NatLessThanWellFounded
<1> HIDE DEF R
<1>1. PICK x \in S : \A y \in S : ~ (<<y, x>> \in R)
  BY <1>0, WFMin
<1>2. ASSUME NEW y \in S PROVE x <= y
  <2>1. ~ (y < x)
    BY <1>1 DEF OpToRel, R
  <2> QED
    BY <2>1
<1> QED
  BY <1>2

LEMMA LeastIs ==
  ASSUME NEW S \in SUBSET Bars, S # {}
  PROVE  Min(S) \in S /\ \A y \in S : Min(S) <= y
<1>1. \E x \in S : \A y \in S : x <= y
  BY Constants, LeastThere
<1> QED
  BY <1>1, Zenon DEF Min

LEMMA GreatestIs ==
  ASSUME NEW S \in SUBSET Bars, S # {}
  PROVE  Max(S) \in S /\ \A y \in S : Max(S) >= y
<1> DEFINE mirror == {m \in 0..MaxBar : MaxBar - m \in S}
<1>1. mirror \in SUBSET Nat /\ \A x \in S : x \in Nat /\ MaxBar - x \in mirror
  BY Constants
<1>2. PICK m \in mirror : \A y \in mirror : m <= y
  <2>1. mirror # {}
    BY <1>1
  <2> HIDE DEF mirror
  <2> QED
    BY <1>1, <2>1, LeastThere
<1>3. MaxBar - m \in S /\ m \in Int /\ MaxBar \in Int
  BY <1>2, Constants
<1>4. ASSUME NEW y \in S PROVE MaxBar - m >= y
  <2>1. m <= MaxBar - y /\ y \in Int
    BY <1>1, <1>2
  <2> QED
    BY <1>3, <2>1
<1>5. \E z \in S : \A y \in S : z >= y
  BY <1>3, <1>4
<1> QED
  BY <1>5, Zenon DEF Max

LEMMA Lesser ==
  ASSUME NEW a \in Int, NEW b \in Int
  PROVE  Min({a, b}) = IF a <= b THEN a ELSE b
<1>1. \E x \in {a, b} : \A y \in {a, b} : x <= y
  OBVIOUS
<1>2. Min({a, b}) \in {a, b} /\ \A y \in {a, b} : Min({a, b}) <= y
  BY <1>1, Zenon DEF Min
<1> QED
  BY <1>2

LEMMA Greater ==
  ASSUME NEW a \in Int, NEW b \in Int
  PROVE  Max({a, b}) = IF a >= b THEN a ELSE b
<1>1. \E x \in {a, b} : \A y \in {a, b} : x >= y
  OBVIOUS
<1>2. Max({a, b}) \in {a, b} /\ \A y \in {a, b} : Max({a, b}) >= y
  BY <1>1, Zenon DEF Max
<1> QED
  BY <1>2

-----------------------------------------------------------------------------
(* What a page, the ranges and the gaps hold.                              *)

LEMMA WindowEndIs ==
  ASSUME NEW cursor \in Int, NEW end \in Int
  PROVE  /\ WindowEnd(cursor, end) \in Int
         /\ WindowEnd(cursor, end) <= end /\ WindowEnd(cursor, end) <= cursor + 2 * (PageLimit - 1)
  BY Constants, Lesser DEF WindowEnd

\* A window of iter_klines never holds more bars than the venue returns: of
\* what has opened in it, nothing is cut off, whether or not the venue counts
\* the end of the window in.
THEOREM Pages ==
  ASSUME now \in Bars, NEW cursor \in Int, NEW end \in Int,
         NEW b \in Bars, b <= now, b \notin missing, Within(cursor, WindowEnd(cursor, end), b)
  PROVE  b \in Answer(cursor, WindowEnd(cursor, end))
<1> DEFINE close == WindowEnd(cursor, end)
<1> DEFINE within == {c \in 1..now \ missing :
                        cursor <= OpensAt(c) /\ (OpensAt(c) < close \/ (inclusive /\ OpensAt(c) = close))}
<1>1. close \in Int /\ close <= cursor + 2 * (PageLimit - 1)
  BY WindowEndIs
<1>2. b \in within
  BY Constants DEF Within, OpensAt
<1>3. {c \in within : c > b} \subseteq (b + 1)..(b + PageLimit - 1)
  <2> SUFFICES ASSUME NEW c \in within, c > b PROVE c \in (b + 1)..(b + PageLimit - 1)
    OBVIOUS
  <2>1. c \in Int /\ b \in Int /\ PageLimit \in Int
    BY Constants
  <2>2. 2 * c <= close /\ cursor <= 2 * b
    BY <1>1, <1>2, <2>1 DEF OpensAt
  <2> HIDE DEF close, within
  <2> QED
    BY <1>1, <2>1, <2>2
<1>4. Cardinality({c \in within : c > b}) < PageLimit
  <2>1. b + 1 \in Int /\ b + PageLimit - 1 \in Int
    BY Constants
  <2>2. IsFiniteSet((b + 1)..(b + PageLimit - 1)) /\ Cardinality((b + 1)..(b + PageLimit - 1)) = PageLimit - 1
    BY <2>1, FS_Interval, Constants
  <2> HIDE DEF within
  <2>3. Cardinality({c \in within : c > b}) <= PageLimit - 1 /\ IsFiniteSet({c \in within : c > b})
    BY <1>3, <2>2, FS_Subset
  <2> QED
    BY <2>3, FS_CardinalityType, Constants
<1> QED
  BY <1>2, <1>4 DEF Answer

\* A page holds nothing but bars that have opened, within the window.
LEMMA PageHolds ==
  ASSUME now \in Bars, NEW cursor \in Int, NEW close \in Int, NEW b \in Answer(cursor, close)
  PROVE  b \in Bars /\ b <= now /\ cursor <= OpensAt(b) /\ OpensAt(b) <= close
  BY Constants DEF Answer, OpensAt
LEMMA NextRangeDoes ==
  ASSUME NEW q \in JobRow, NEW n, n = NextRange(q)
  PROVE  /\ n \in JobRow /\ n.ranges = q.ranges /\ n.filled = q.filled /\ n.page = q.page /\ n.read = q.read
         /\ q.ranges = <<>> => n.at = IF q.filled THEN "whole" ELSE "done"
         /\ q.ranges # <<>> => n.at = "fetch"
         /\ \A b \in Bars : AheadIn(q.ranges, b) => Ahead(n, b)
<1>1. CASE q.ranges = <<>>
  <2>0. PICK place \in {"whole", "done"} : place = IF q.filled THEN "whole" ELSE "done"
    OBVIOUS
  <2>1. n = [q EXCEPT !.at = place]
    BY <1>1, <2>0 DEF NextRange
  <2>2. \A b \in Bars : ~AheadIn(q.ranges, b)
    BY <1>1 DEF AheadIn
  <2>3. n \in JobRow /\ n.at = place /\ n.ranges = q.ranges /\ n.filled = q.filled /\ n.page = q.page /\ n.read = q.read
    BY <2>1 DEF JobRow
  <2> QED
    BY <1>1, <2>0, <2>2, <2>3
<1>2. CASE q.ranges # <<>>
  <2>1. q.ranges \in Seq(Int \X Int)
    BY DEF JobRow
  <2>2. 1 \in DOMAIN q.ranges /\ q.ranges[1][1] \in Int
    BY <1>2, <2>1
  <2>3. n = [q EXCEPT !.at = "fetch", !.cursor = q.ranges[1][1]]
    BY <1>2 DEF NextRange
  <2>4. /\ n \in JobRow /\ n.ranges = q.ranges /\ n.filled = q.filled /\ n.page = q.page /\ n.read = q.read
        /\ n.at = "fetch" /\ n.cursor = q.ranges[1][1]
    BY <2>2, <2>3 DEF JobRow
  <2>5. ASSUME NEW b \in Bars, AheadIn(q.ranges, b) PROVE Ahead(n, b)
    BY <2>4, <2>5 DEF AheadIn, Ahead
  <2> QED
    BY <1>2, <2>4, <2>5
<1> QED
  BY <1>1, <1>2

\* What is ahead of a writer whose first range is finished.
LEMMA TailAhead ==
  ASSUME NEW q \in JobRow, NEW t, t = [q EXCEPT !.ranges = Tail(@)], q.ranges # <<>>,
         q.cursor >= q.ranges[1][2]
  PROVE  /\ t \in JobRow /\ t.filled = q.filled /\ t.page = q.page /\ t.read = q.read
         /\ \A b \in Bars : Ahead(q, b) => AheadIn(t.ranges, b)
<1>1. q.ranges \in Seq(Int \X Int) /\ q.cursor \in Int
  BY DEF JobRow
<1>2. Tail(q.ranges) \in Seq(Int \X Int)
  BY <1>1, HeadTailProperties
<1>3. /\ t \in JobRow /\ t.filled = q.filled /\ t.page = q.page /\ t.read = q.read
      /\ t.ranges = Tail(q.ranges)
  <2>1. t = [q EXCEPT !.ranges = Tail(q.ranges)]
    OBVIOUS
  <2> QED
    BY <1>2, <2>1 DEF JobRow
<1>4. ASSUME NEW b \in Bars, Ahead(q, b) PROVE AheadIn(t.ranges, b)
  <2>1. q.ranges[1][2] \in Int /\ OpensAt(b) \in Int
    BY <1>1, Constants DEF OpensAt
  <2>2. ~Within(q.cursor, q.ranges[1][2], b)
    BY <1>1, <2>1 DEF Within
  <2>3. PICK i \in DOMAIN q.ranges : i # 1 /\ Within(q.ranges[i][1], q.ranges[i][2], b)
    BY <1>4, <2>2 DEF Ahead
  <2>4. i \in 1..Len(q.ranges) /\ Len(q.ranges) \in Nat /\ Len(Tail(q.ranges)) = Len(q.ranges) - 1
    BY <1>1, <2>3, HeadTailProperties, LenProperties
  <2>5. i - 1 \in 1..Len(Tail(q.ranges)) /\ i - 1 + 1 = i
    BY <2>3, <2>4
  <2>6. Tail(q.ranges)[i - 1] = q.ranges[i] /\ i - 1 \in DOMAIN Tail(q.ranges)
    <3>1. \A k \in 1..Len(Tail(q.ranges)) : Tail(q.ranges)[k] = q.ranges[k + 1]
      BY <1>1, HeadTailProperties
    <3>2. DOMAIN Tail(q.ranges) = 1..Len(Tail(q.ranges))
      BY <1>2, LenProperties
    <3>3. Tail(q.ranges)[i - 1] = q.ranges[i - 1 + 1]
      BY <2>5, <3>1
    <3> QED
      BY <2>5, <3>2, <3>3
  <2> QED
    BY <1>3, <2>3, <2>6 DEF AheadIn
<1> QED
  BY <1>3, <1>4

\* What a transaction leaves: nothing goes, the page is there, and a final
\* bar stays as it is.
LEMMA Merging ==
  ASSUME StoreTypes, NEW page \in SUBSET (Bars \X Contents)
  PROVE  /\ Merged(page) \in [Bars -> {"none"} \cup Contents]
         /\ \A b \in Bars : There(b) => Merged(page)[b] # "none"
         /\ \A b \in Bars : (\E x \in page : x[1] = b) => Merged(page)[b] # "none"
         /\ \A b \in Bars : Merged(page)[b] # "none" => There(b) \/ \E x \in page : x[1] = b
         /\ \A b \in Bars, s \in Unfinished : Merged(page)[b] = s => stored[b] = s \/ <<b, s>> \in page
         /\ \A b \in Bars : stored[b] \in {"frozen", "final"} => Merged(page)[b] = stored[b]
<1> DEFINE of(b) == CHOOSE x \in page : x[1] = b
<1>1. ASSUME NEW b \in Bars, \E x \in page : x[1] = b
      PROVE  of(b) \in page /\ of(b)[1] = b /\ of(b)[2] \in Contents /\ of(b) = <<b, of(b)[2]>>
  <2>1. of(b) \in page /\ of(b)[1] = b
    BY <1>1, Zenon
  <2> QED
    BY <2>1
<1>2. \A b \in Bars : Merged(page)[b] =
        IF stored[b] \in {"none", "forming"} /\ \E x \in page : x[1] = b THEN of(b)[2] ELSE stored[b]
  BY Zenon DEF Merged
<1>3. stored \in [Bars -> {"none"} \cup Contents]
  BY DEF StoreTypes
<1>4. \A b \in Bars : Merged(page)[b] \in {"none"} \cup Contents
  BY <1>1, <1>2, <1>3
<1>5. Merged(page) = [b \in Bars |-> Merged(page)[b]]
  BY DEF Merged
<1>6. Merged(page) \in [Bars -> {"none"} \cup Contents]
  BY <1>4, <1>5
<1> HIDE DEF of
<1> QED
  BY <1>1, <1>2, <1>3, <1>6 DEF There, Contents, Unfinished
\* A finite set whose members are told apart by a number can be put in its order.
LEMMA CanBeSorted ==
  ASSUME NEW E, IsFiniteSet(E), \A e \in E : e[1] \in Int, \A e, f \in E : e[1] = f[1] => e = f
  PROVE  \E s \in [1..Cardinality(E) -> E] :
           \A i, k \in 1..Cardinality(E) : i < k => s[i][1] < s[k][1]
<1> DEFINE n == Cardinality(E)
           below(e) == {f \in E : f[1] < e[1]}
           rank == [e \in E |-> Cardinality(below(e)) + 1]
           s == [i \in 1..n |-> CHOOSE e \in E : rank[e] = i]
<1>1. n \in Nat
  BY FS_CardinalityType
<1>2. ASSUME NEW e \in E
      PROVE  /\ IsFiniteSet(below(e)) /\ Cardinality(below(e)) \in Nat
             /\ e \notin below(e) /\ Cardinality(below(e)) + 1 <= n
  <2>1. IsFiniteSet(below(e))
    BY FS_Subset
  <2>2. e \notin below(e)
    BY e[1] \in Int
  <2>3. below(e) \cup {e} \in SUBSET E
    OBVIOUS
  <2>4. Cardinality(below(e) \cup {e}) = Cardinality(below(e)) + 1
    BY <2>1, <2>2, FS_AddElement
  <2>5. Cardinality(below(e) \cup {e}) <= n
    BY <2>3, FS_Subset
  <2> QED
    BY <2>1, <2>2, <2>4, <2>5, FS_CardinalityType
<1>3. rank \in [E -> 1..n]
  <2>1. \A e \in E : Cardinality(below(e)) + 1 \in 1..n
    <3> HIDE DEF below, n
    <3> QED
      BY <1>1, <1>2
  <2> HIDE DEF below, n
  <2> QED
    BY <2>1
<1>4. ASSUME NEW e \in E, NEW f \in E, e[1] < f[1] PROVE rank[e] < rank[f]
  <2>1. below(e) \cup {e} \in SUBSET below(f)
    BY e[1] \in Int, f[1] \in Int, <1>4, \A x \in E : x[1] \in Int
  <2>2. Cardinality(below(e) \cup {e}) <= Cardinality(below(f))
    BY <1>2, <2>1, FS_Subset
  <2>3. Cardinality(below(e) \cup {e}) = Cardinality(below(e)) + 1
    BY <1>2, FS_AddElement
  <2>4. rank[e] = Cardinality(below(e)) + 1 /\ rank[f] = Cardinality(below(f)) + 1
    OBVIOUS
  <2>5. Cardinality(below(e)) \in Nat /\ Cardinality(below(f)) \in Nat
    BY <1>2
  <2> HIDE DEF below, rank
  <2> QED
    BY <2>2, <2>3, <2>4, <2>5
<1>5. ASSUME NEW e \in E, NEW f \in E, rank[e] = rank[f] PROVE e = f
  <2>1. e[1] \in Int /\ f[1] \in Int /\ rank[e] \in Int /\ rank[f] \in Int
    BY <1>1, <1>3
  <2> HIDE DEF rank
  <2>2. ~(e[1] < f[1]) /\ ~(f[1] < e[1])
    BY <1>4, <1>5, <2>1
  <2>3. e[1] = f[1]
    BY <2>1, <2>2
  <2> QED
    BY <2>3
<1>6. rank \in Injection(E, 1..n)
  <2> HIDE DEF rank, n
  <2> QED
    BY <1>3, <1>5 DEF Injection, IsInjective
<1>7. rank \in Surjection(E, 1..n)
  <2>1. IsFiniteSet(1..n) /\ Cardinality(1..n) = n
    BY <1>1, FS_Interval
  <2> QED
    BY <1>6, <2>1, FS_Injection
<1>8. ASSUME NEW i \in 1..n PROVE s[i] \in E /\ rank[s[i]] = i
  <2>1. \E e \in E : rank[e] = i
    <3> HIDE DEF rank, n
    <3> QED
      BY <1>7 DEF Surjection
  <2>2. s[i] = CHOOSE e \in E : rank[e] = i
    OBVIOUS
  <2> HIDE DEF rank, s
  <2> QED
    BY <2>1, <2>2
<1> HIDE DEF rank
<1>9. s \in [1..n -> E]
  BY <1>8
<1>10. ASSUME NEW i \in 1..n, NEW k \in 1..n, i < k PROVE s[i][1] < s[k][1]
  <2>1. s[i] \in E /\ s[k] \in E /\ rank[s[i]] = i /\ rank[s[k]] = k
    BY <1>8
  <2>2. s[i][1] \in Int /\ s[k][1] \in Int /\ i \in Int /\ k \in Int
    BY <1>1, <2>1
  <2>3. s[i][1] # s[k][1]
    BY <1>10, <2>1, <2>2
  <2>4. ~(s[k][1] < s[i][1])
    BY <1>4, <1>10, <2>1, <2>2
  <2> HIDE DEF s
  <2> QED
    BY <2>2, <2>3, <2>4
<1> HIDE DEF s
<1> QED
  BY <1>9, <1>10

\* And an enumeration in order leaves nothing out.
LEMMA SortedIsAll ==
  ASSUME NEW E, IsFiniteSet(E), \A e \in E : e[1] \in Int,
         NEW s \in [1..Cardinality(E) -> E],
         \A i, k \in 1..Cardinality(E) : i < k => s[i][1] < s[k][1], NEW e \in E
  PROVE  \E i \in 1..Cardinality(E) : s[i] = e
<1> DEFINE n == Cardinality(E)
<1>1. n \in Nat
  BY FS_CardinalityType
<1>2. ASSUME NEW i \in 1..n, NEW k \in 1..n, s[i] = s[k] PROVE i = k
  <2>1. s[i][1] \in Int /\ s[k][1] = s[i][1] /\ i \in Int /\ k \in Int
    BY <1>1, <1>2
  <2>2. ~(i < k) /\ ~(k < i)
    BY <1>2, <2>1
  <2> QED
    BY <2>1, <2>2
<1>3. s \in Injection(1..n, E)
  BY <1>2 DEF Injection, IsInjective
<1>4. Cardinality(1..n) = n
  BY <1>1, FS_Interval
<1>5. s \in Surjection(1..n, E)
  BY <1>3, <1>4, FS_Injection
<1> QED
  BY <1>5 DEF Surjection
\* The gaps hold every bar between two that are there, unless it is there itself
\* or too old: no more bars are newer than the two around it than newer than it.
LEMMA GapsHold ==
  ASSUME StoreTypes, NEW g, g = Gaps
  PROVE  /\ g \in Seq(Int \X Int)
         /\ \A b \in Bars : InGap(b) /\ LookedAt(b) => There(b) \/ AheadIn(g, b)
<1> DEFINE all == Window(stored)
           there == Newest(all)
           gap == {x \in there \X there : x[2] > x[1] + 1 /\ \A c \in there : c <= x[1] \/ c >= x[2]}
           ends == {<<OpensAt(x[1]) + 2, OpensAt(x[2])>> : x \in gap}
           n == Cardinality(ends)
           sorted(s) == \A i, k \in 1..n : i < k => s[i][1] < s[k][1]
<1>0. /\ \A b : b \in all <=> b \in Bars /\ There(b)
      /\ \A b : b \in there <=> b \in all /\ Cardinality({c \in all : c > b}) < GapBars
  BY DEF Window, There, Newest
<1>1. \A b \in there : b \in Bars /\ There(b)
  BY <1>0
<1>2. \A x \in gap : /\ x[1] \in Nat /\ x[2] \in Nat /\ x[1] <= MaxBar /\ x[2] <= MaxBar
                     /\ x[1] \in there /\ x[2] \in there /\ x[2] > x[1] + 1 /\ x = <<x[1], x[2]>>
                     /\ \A c \in there : c <= x[1] \/ c >= x[2]
  BY <1>1, Constants
<1>3. ASSUME NEW e \in ends
      PROVE  \E x \in gap : e = <<2 * x[1] + 2, 2 * x[2]>>
  BY DEF OpensAt
<1>4. \A e \in ends : e \in (0..2 * MaxBar + 2) \X (0..2 * MaxBar + 2) /\ e[1] \in Int /\ e[2] \in Int
  <2> TAKE e \in ends
  <2>1. PICK x \in gap : e = <<2 * x[1] + 2, 2 * x[2]>>
    BY <1>3
  <2>2. x[1] \in Nat /\ x[2] \in Nat /\ x[1] <= MaxBar /\ x[2] <= MaxBar
    BY <1>2
  <2> HIDE DEF gap, ends
  <2> QED
    BY <2>1, <2>2, Constants
<1>5. IsFiniteSet(ends)
  <2> HIDE DEF ends
  <2>1. 2 * MaxBar + 2 \in Int
    BY Constants
  <2>2. IsFiniteSet(0..2 * MaxBar + 2)
    BY <2>1, FS_Interval
  <2>3. IsFiniteSet((0..2 * MaxBar + 2) \X (0..2 * MaxBar + 2))
    BY <2>2, FS_Product
  <2>4. ends \in SUBSET ((0..2 * MaxBar + 2) \X (0..2 * MaxBar + 2))
    BY <1>4
  <2> QED
    BY <2>3, <2>4, FS_Subset
<1>6. ASSUME NEW e \in ends, NEW f \in ends, e[1] = f[1] PROVE e = f
  <2>1. PICK x \in gap : e = <<2 * x[1] + 2, 2 * x[2]>>
    BY <1>3
  <2>2. PICK y \in gap : f = <<2 * y[1] + 2, 2 * y[2]>>
    BY <1>3
  <2>3. /\ x[1] \in Nat /\ x[2] \in Nat /\ x[2] > x[1] + 1 /\ y[1] \in Nat /\ y[2] \in Nat /\ y[2] > y[1] + 1
        /\ y[2] <= x[1] \/ y[2] >= x[2]
        /\ x[2] <= y[1] \/ x[2] >= y[2]
    BY <1>2
  <2> HIDE DEF gap, ends
  <2>4. x[1] = y[1]
    BY <1>6, <2>1, <2>2, <2>3
  <2>5. x[2] = y[2]
    BY <2>3, <2>4
  <2> QED
    BY <2>1, <2>2, <2>4, <2>5
<1>7. \E s \in [1..n -> ends] : sorted(s)
  <2> HIDE DEF ends
  <2> QED
    BY <1>4, <1>5, <1>6, CanBeSorted
<1>8. g \in [1..n -> ends] /\ sorted(g)
  <2>1. g = CHOOSE s \in [1..n -> ends] : \A i, k \in DOMAIN s : i < k => s[i][1] < s[k][1]
    BY Zenon DEF Gaps
  <2> HIDE DEF ends, n
  <2>2. \E s \in [1..n -> ends] : \A i, k \in DOMAIN s : i < k => s[i][1] < s[k][1]
    BY <1>7
  <2>3. g \in [1..n -> ends] /\ \A i, k \in DOMAIN g : i < k => g[i][1] < g[k][1]
    BY <2>1, <2>2, Zenon
  <2> QED
    BY <2>3
<1>9. n \in Nat
  BY <1>5, FS_CardinalityType
<1>10. g \in Seq(Int \X Int)
  <2> HIDE DEF ends, n
  <2>1. g \in [1..n -> Int \X Int]
    BY <1>4, <1>8
  <2> QED
    BY <1>9, <2>1
<1>11. ASSUME NEW b \in Bars, InGap(b), LookedAt(b), ~There(b) PROVE AheadIn(g, b)
  <2>1. PICK a \in Bars, c \in Bars : a < b /\ b < c /\ There(a) /\ There(c)
    BY <1>11 DEF InGap
  <2> DEFINE before == {x \in all : x < b}
             after == {x \in all : x > b}
  <2>2. before \in SUBSET Bars /\ before # {} /\ after \in SUBSET Bars /\ after # {}
    BY <1>0, <2>1
  <2>3. PICK l \in before : \A y \in before : l >= y
    BY <2>2, GreatestIs
  <2>4. PICK r \in after : \A y \in after : r <= y
    BY <2>2, LeastIs
  <2>5a. l \in all /\ r \in all /\ l \in Nat /\ r \in Nat /\ b \in Nat /\ l < b /\ b < r
    BY <1>0, <2>3, <2>4, Constants
  <2>6a. \A d \in all : d <= l \/ d >= r
    <3> SUFFICES ASSUME NEW d \in all PROVE d <= l \/ d >= r
      OBVIOUS
    <3>1. d # b /\ d \in Nat
      BY <1>0, <1>11, Constants
    <3>2. d < b \/ d > b
      BY <2>5a, <3>1
    <3> QED
      BY <2>3, <2>4, <3>2
  <2>6b. ASSUME NEW x \in {l, r} PROVE x \in there
    <3> DEFINE newer == {y \in all : y > x}
    <3>1. now \in Nat /\ \A y \in newer : y \in (b + 1)..now
      <4>1. now \in Nat
        BY Constants DEF StoreTypes
      <4>2. ASSUME NEW y \in newer PROVE y \in (b + 1)..now
        <5>1. y \in Nat /\ y <= now
          BY <1>0, Constants DEF StoreTypes, There
        <5>2. y > l
          BY <2>5a, <2>6b, <5>1
        <5>3. y >= r
          BY <2>6a, <2>5a, <5>1, <5>2
        <5> QED
          BY <2>5a, <4>1, <5>1, <5>3
      <4> QED
        BY <4>1, <4>2
    <3>2. newer \in SUBSET ((b + 1)..now)
      BY <3>1
    <3> HIDE DEF newer
    <3>3. IsFiniteSet((b + 1)..now) /\ Cardinality((b + 1)..now) = IF b + 1 > now THEN 0 ELSE now - b
      <4>1. b + 1 \in Int /\ now \in Int
        BY <2>5a, <3>1
      <4>2. now - (b + 1) + 1 = now - b
        BY <2>5a, <3>1
      <4> QED
        BY <4>1, <4>2, FS_Interval
    <3>4. Cardinality(newer) <= Cardinality((b + 1)..now) /\ Cardinality(newer) \in Nat
      BY <3>2, <3>3, FS_Subset, FS_CardinalityType
    <3>5. b <= now /\ now - b < GapBars
      <4>1. r \in Bars /\ r <= now
        BY <1>0, <2>5a DEF StoreTypes, There
      <4> QED
        BY <1>11, <2>5a, <3>1, <4>1 DEF LookedAt
    <3>6. Cardinality(newer) < GapBars
      BY <2>5a, <3>1, <3>3, <3>4, <3>5, Constants
    <3>7. x \in all
      BY <2>5a, <2>6b
    <3> QED
      BY <1>0, <3>6, <3>7 DEF newer
  <2>5. l \in there /\ r \in there /\ l \in Nat /\ r \in Nat /\ b \in Nat /\ l < b /\ b < r
    BY <2>5a, <2>6b
  <2>6. \A d \in there : d <= l \/ d >= r
    BY <1>0, <2>6a
  <2>7. <<l, r>> \in gap
    BY <2>5, <2>6
  <2>8. <<2 * l + 2, 2 * r>> \in ends
    BY <2>7 DEF OpensAt
  <2> HIDE DEF there, gap, ends, n, before, after
  <2>9. PICK i \in 1..n : g[i] = <<2 * l + 2, 2 * r>>
    <3>1. \E i \in 1..Cardinality(ends) : g[i] = <<2 * l + 2, 2 * r>>
      <4>1. g \in [1..Cardinality(ends) -> ends] /\ \A i, k \in 1..Cardinality(ends) : i < k => g[i][1] < g[k][1]
        BY <1>8 DEF n
      <4> QED
        BY <1>4, <1>5, <2>8, <4>1, SortedIsAll
    <3> QED
      BY <3>1 DEF n
  <2>10. Within(g[i][1], g[i][2], b)
    BY <2>5, <2>9 DEF Within, OpensAt
  <2>11. i \in DOMAIN g
    BY <1>8
  <2> QED
    BY <2>10, <2>11 DEF AheadIn
<1> QED
  BY <1>10, <1>11

\* What ensure_history asks for holds every bar that is not there and not
\* between two that are.
LEMMA RangesHold ==
  ASSUME StoreTypes, CoverageIsTrue, NEW g, g = Ranges
  PROVE  /\ g \in Seq(Int \X Int) /\ g # <<>>
         /\ \A b \in Bars : b >= now - Wanted /\ b <= now => There(b) \/ InGap(b) \/ AheadIn(g, b)
<1> DEFINE end == OpensAt(now) + 1
<1>1. now \in Nat /\ Begin \in Int /\ end \in Int /\ Begin = 2 * now - 2 * Wanted /\ end = 2 * now + 1
  BY Constants DEF StoreTypes, Begin, OpensAt
<1>2. CASE coverage = <<>>
  <2>1. g = << <<Begin, end>> >>
    BY <1>2 DEF Ranges
  <2> HIDE DEF end
  <2>2. g \in Seq(Int \X Int) /\ g # <<>> /\ DOMAIN g = {1} /\ g[1][1] = Begin /\ g[1][2] = end
    BY <1>1, <2>1
  <2>3. ASSUME NEW b \in Bars, b >= now - Wanted /\ b <= now PROVE AheadIn(g, b)
    <3>1. Within(Begin, end, b)
      BY <1>1, <2>3, Constants DEF Within, OpensAt
    <3> QED
      BY <2>2, <3>1 DEF AheadIn
  <2> QED
    BY <2>2, <2>3
<1>3. CASE coverage # <<>>
  <2>1. /\ coverage[1] \in Bars /\ coverage[2] \in Bars /\ coverage[1] \in Nat /\ coverage[2] \in Nat
        /\ There(coverage[1]) /\ There(coverage[2])
    BY <1>3, Constants DEF StoreTypes, CoverageIsTrue
  <2> DEFINE first == OpensAt(coverage[1])
             last == OpensAt(coverage[2])
             front == IF first > Begin THEN << <<Begin, first>> >> ELSE <<>>
             back == << <<last, end>> >>
  <2>2. first \in Int /\ last \in Int /\ first = 2 * coverage[1] /\ last = 2 * coverage[2]
    BY <2>1 DEF OpensAt
  <2>3. g = front \o back
    BY <1>3 DEF Ranges
  <2> HIDE DEF end, first, last
  <2>4. /\ front \in Seq(Int \X Int) /\ back \in Seq(Int \X Int) /\ Len(back) = 1 /\ back[1][1] = last /\ back[1][2] = end
    <3>1. back \in Seq(Int \X Int) /\ Len(back) = 1 /\ back[1][1] = last /\ back[1][2] = end
      BY <1>1, <2>2
    <3> HIDE DEF back
    <3>2. front \in Seq(Int \X Int)
      <4>1. <<Begin, first>> \in Int \X Int
        BY <1>1, <2>2
      <4>2. PICK pair \in Int \X Int : pair = <<Begin, first>>
        BY <4>1
      <4>3. << pair >> \in Seq(Int \X Int) /\ <<>> \in Seq(Int \X Int)
        OBVIOUS
      <4> QED
        BY <4>2, <4>3
    <3> QED
      BY <3>1, <3>2
  <2>5. first > Begin => Len(front) = 1 /\ front[1][1] = Begin /\ front[1][2] = first
    BY <1>1, <2>2
  <2>6. Len(front) \in Nat
    BY <2>4
  <2> HIDE DEF front, back
  <2>7. /\ g \in Seq(Int \X Int) /\ Len(g) = Len(front) + 1 /\ DOMAIN g = 1..Len(front) + 1
        /\ g[Len(front) + 1] = back[1]
        /\ Len(front) = 1 => g[1] = front[1]
    <3>1. /\ g \in Seq(Int \X Int) /\ Len(g) = Len(front) + Len(back)
          /\ \A i \in 1..Len(front) + Len(back) : g[i] = IF i <= Len(front) THEN front[i] ELSE back[i - Len(front)]
      <4>1. front \in Seq(Int \X Int) /\ back \in Seq(Int \X Int)
        BY <2>4
      <4>2. /\ front \o back \in Seq(Int \X Int) /\ Len(front \o back) = Len(front) + Len(back)
            /\ \A i \in 1..Len(front) + Len(back) :
                 (front \o back)[i] = IF i <= Len(front) THEN front[i] ELSE back[i - Len(front)]
        BY <4>1, ConcatProperties
      <4> QED
        BY <2>3, <4>2, Zenon
    <3>2. DOMAIN g = 1..Len(g)
      BY <3>1, LenProperties
    <3>3. Len(front) + 1 \in 1..Len(front) + Len(back) /\ Len(front) + 1 - Len(front) = 1
          /\ ~(Len(front) + 1 <= Len(front))
      BY <2>4, <2>6
    <3>4. g[Len(front) + 1] = back[1]
      BY <3>1, <3>3
    <3>5. ASSUME Len(front) = 1 PROVE g[1] = front[1]
      BY <2>4, <3>1, <3>5
    <3> QED
      BY <2>4, <3>1, <3>2, <3>4, <3>5
  <2>8. g # <<>>
    BY <2>6, <2>7
  <2>9. ASSUME NEW b \in Bars, b >= now - Wanted /\ b <= now, ~There(b), ~InGap(b) PROVE AheadIn(g, b)
    <3>1. b \in Nat /\ OpensAt(b) = 2 * b /\ Begin <= 2 * b /\ 2 * b < end
      BY <1>1, <2>9, Constants DEF OpensAt
    <3>2. b # coverage[1] /\ b # coverage[2]
      BY <2>1, <2>9
    <3>3. ~(coverage[1] < b /\ b < coverage[2])
      BY <2>1, <2>9 DEF InGap
    <3>4. CASE b < coverage[1]
      <4>1. Within(Begin, first, b) /\ first > Begin
        BY <1>1, <2>1, <2>2, <3>1, <3>4 DEF Within
      <4>2. 1 \in DOMAIN g /\ g[1][1] = Begin /\ g[1][2] = first
        BY <2>5, <2>6, <2>7, <4>1
      <4> QED
        BY <4>1, <4>2 DEF AheadIn
    <3>5. CASE b > coverage[2]
      <4>1. Within(last, end, b)
        BY <1>1, <2>1, <2>2, <3>1, <3>5 DEF Within
      <4>2. Len(front) + 1 \in DOMAIN g /\ g[Len(front) + 1][1] = last /\ g[Len(front) + 1][2] = end
        BY <2>4, <2>6, <2>7
      <4> QED
        BY <4>1, <4>2 DEF AheadIn
    <3> QED
      BY <2>1, <3>1, <3>2, <3>3, <3>4, <3>5
  <2> QED
    BY <2>7, <2>8, <2>9
<1> QED
  BY <1>2, <1>3
-----------------------------------------------------------------------------
(* Every step keeps FeedInv: first those that change nothing but rows.     *)

LEMMA RowsStep ==
  ASSUME FeedInv, NEW next \in [Writers -> JobRow], job' = next,
         UNCHANGED <<now, missing, stored, coverage, warmed>>,
         \A j \in Writers : RowInv(j, next[j]), WarmInv(next["warm"])
  PROVE  FeedInv'
<1>1. StoreTypes' /\ CoverageIsTrue' /\ StoredIsKnown'
  BY DEF FeedInv, StoreTypes, CoverageIsTrue, StoredIsKnown, There
<1>2. ASSUME NEW j \in Writers PROVE RowInv(j, job[j])'
  <2>1. RowInv(j, next[j])
    OBVIOUS
  <2> QED
    BY <2>1 DEF RowInv, PageIsRight, PageIsKnown, ReadIsTrue, There, InPage, RangesAreRight
<1>3. WarmInv(job["warm"])'
  BY DEF WarmInv, Asked, LookedAt, Accounted, There, InPage, Ahead, Within, InGap
<1> QED
  BY <1>1, <1>2, <1>3 DEF FeedInv

LEMMA RowStep ==
  ASSUME FeedInv, NEW j \in Writers, NEW new, RowInv(j, new), j = "warm" => WarmInv(new),
         job' = [job EXCEPT ![j] = new], UNCHANGED <<now, missing, stored, coverage, warmed>>
  PROVE  FeedInv'
<1>1. PICK next : next = [job EXCEPT ![j] = new]
  OBVIOUS
<1>2. job \in [Writers -> JobRow] /\ new \in JobRow
  BY DEF FeedInv, StoreTypes, RowInv
<1>3. next \in [Writers -> JobRow] /\ next[j] = new /\ \A k \in Writers : k # j => next[k] = job[k]
  BY <1>1, <1>2
<1>4. \A k \in Writers : RowInv(k, next[k])
  BY <1>3 DEF FeedInv
<1>5. "warm" \in Writers
  BY DEF Writers
<1>6. WarmInv(next["warm"])
  <2>1. CASE j = "warm"
    BY <1>3, <2>1
  <2>2. CASE j # "warm"
    <3>1. next["warm"] = job["warm"]
      BY <1>3, <1>5, <2>2
    <3> QED
      BY <3>1 DEF FeedInv
  <2> QED
    BY <2>1, <2>2
<1>7. job' = next
  BY <1>1
<1> QED
  BY <1>3, <1>4, <1>6, <1>7, RowsStep

LEMMA QuietStep ==
  ASSUME FeedInv, UNCHANGED <<now, missing, stored, coverage, warmed, job>>
  PROVE  FeedInv'
<1>1. job \in [Writers -> JobRow] /\ \A j \in Writers : RowInv(j, job[j])
  BY DEF FeedInv, StoreTypes
<1>2. PICK next : next = job
  OBVIOUS
<1> QED
  BY <1>1, <1>2, RowsStep DEF FeedInv

\* A writer that has stopped.
LEMMA Stopped ==
  /\ \A j \in Writers : RowInv(j, Rest)
  /\ \A j \in Writers \ {"stream"} : RowInv(j, [Rest EXCEPT !.at = "over"])
  /\ WarmInv(Rest) /\ WarmInv([Rest EXCEPT !.at = "over"])
<1>1. PICK over : over = [Rest EXCEPT !.at = "over"]
  OBVIOUS
<1>2. over \in JobRow /\ over.at = "over" /\ over.ranges = <<>> /\ over.page = {}
  BY <1>1, Resting
<1> QED
  BY <1>1, <1>2, Resting DEF RowInv, PageIsRight, PageIsKnown, ReadIsTrue, RangesAreRight, WarmInv

\* A writer that goes on to its next range.
LEMMA GoesOn ==
  ASSUME NEW q \in JobRow, q.page = {}, NEW n, n = NextRange(q)
  PROVE  /\ \A j \in Writers \ {"stream"} : RowInv(j, n)
         /\ (\A b \in Asked : There(b) \/ AheadIn(q.ranges, b) \/ (~q.filled /\ InGap(b))) => WarmInv(n)
<1>1. /\ n \in JobRow /\ n.ranges = q.ranges /\ n.filled = q.filled /\ n.page = {}
      /\ q.ranges = <<>> => n.at = IF q.filled THEN "whole" ELSE "done"
      /\ q.ranges # <<>> => n.at = "fetch"
      /\ \A b \in Bars : AheadIn(q.ranges, b) => Ahead(n, b)
  BY NextRangeDoes
<1>2. n.at \in {"fetch", "whole", "done"}
  BY <1>1
<1>3. RangesAreRight(n)
  BY <1>1, <1>2 DEF RangesAreRight
<1>4. \A j \in Writers \ {"stream"} : RowInv(j, n)
  BY <1>1, <1>2, <1>3 DEF RowInv, PageIsRight, PageIsKnown, ReadIsTrue
<1>5. ASSUME \A b \in Asked : There(b) \/ AheadIn(q.ranges, b) \/ (~q.filled /\ InGap(b)) PROVE WarmInv(n)
  BY <1>1, <1>5 DEF WarmInv, Accounted, Asked
<1> QED
  BY <1>4, <1>5

LEMMA FetchStep ==
  ASSUME FeedInv, NEW j \in Writers, Fetch(j), UNCHANGED warmed
  PROVE  FeedInv'
<1>1. PICK q : q = job[j]
  OBVIOUS
<1>2. /\ q \in JobRow /\ q.at = "fetch" /\ j # "stream" /\ q.ranges # <<>> /\ q.page = {}
      /\ RowInv(j, q) /\ RangesAreRight(q)
  BY <1>1 DEF FeedInv, RowInv, RangesAreRight, PageIsRight, Fetch
<1>3. q.ranges \in Seq(Int \X Int) /\ q.cursor \in Int /\ q.ranges[1][2] \in Int /\ q.filled \in BOOLEAN
  BY <1>2 DEF JobRow
<1> DEFINE close == WindowEnd(q.cursor, q.ranges[1][2])
           page == Answer(q.cursor, close)
<1>4. close \in Int /\ close <= q.ranges[1][2]
  BY <1>3, WindowEndIs
<1>5. now \in Bars /\ now \in Nat /\ warmed.from \in Nat /\ warmed.from <= now
  BY Constants DEF FeedInv, StoreTypes
<1>6. j = "warm" => \A b \in Asked : Accounted(q, b)
  BY <1>1, <1>2 DEF FeedInv, WarmInv
<1>7. \A b \in Asked : b \in Bars /\ b \in Nat /\ b <= now /\ b \notin missing
  <2>1. \A b \in Asked : b \in Bars /\ b <= warmed.from /\ b \notin missing
    BY <1>5, Constants DEF Asked
  <2> QED
    BY <1>5, <2>1, Constants
<1> DEFINE held == {<<b, Status(b)>> : b \in page}
           next == Max({OpensAt(Max(page)) + 2, q.cursor + 2})
<1>8. PICK new : new = CASE q.cursor >= q.ranges[1][2] -> NextRange([q EXCEPT !.ranges = Tail(@)])
                         [] q.cursor < q.ranges[1][2] /\ page = {} -> [q EXCEPT !.cursor = close]
                         [] OTHER -> [q EXCEPT !.at = "write", !.page = held, !.cursor = next]
  OBVIOUS
<1>new. job' = [job EXCEPT ![j] = new]
  BY <1>1, <1>8, Zenon DEF Fetch, RangeEnd
<1>9. CASE q.cursor >= q.ranges[1][2]
  <2>1. PICK t : t = [q EXCEPT !.ranges = Tail(@)]
    OBVIOUS
  <2> HIDE DEF page, close, held, next
  <2>2. new = NextRange(t)
    <3>1. ~(q.cursor < q.ranges[1][2])
      BY <1>3, <1>9
    <3> QED
      BY <1>8, <1>9, <2>1, <3>1
  <2>3. /\ t \in JobRow /\ t.filled = q.filled /\ t.page = {}
        /\ \A b \in Bars : Ahead(q, b) => AheadIn(t.ranges, b)
    BY <1>2, <1>9, <2>1, TailAhead
  <2>4. RowInv(j, new)
    BY <1>2, <2>2, <2>3, GoesOn
  <2>5. ASSUME j = "warm" PROVE WarmInv(new)
    <3>1. ASSUME NEW b \in Asked PROVE There(b) \/ AheadIn(t.ranges, b) \/ (~t.filled /\ InGap(b))
      BY <1>2, <1>6, <1>7, <2>3, <2>5 DEF Accounted, InPage
    <3> QED
      BY <2>2, <2>3, <3>1, GoesOn
  <2> QED
    BY <1>new, <2>4, <2>5, RowStep DEF Fetch
<1>10. CASE q.cursor < q.ranges[1][2] /\ page = {}
  <2>1. new = [q EXCEPT !.cursor = close]
    <3> HIDE DEF page, close, held, next
    <3>1. ~(q.cursor >= q.ranges[1][2])
      BY <1>3, <1>10
    <3> QED
      BY <1>8, <1>10, <3>1
  <2>2. /\ new \in JobRow /\ new.at = "fetch" /\ new.ranges = q.ranges /\ new.filled = q.filled
        /\ new.page = {} /\ new.cursor = close
    <3> HIDE DEF close
    <3> QED
      BY <1>2, <1>4, <2>1 DEF JobRow
  <2> HIDE DEF close, page
  <2>3. RowInv(j, new)
    BY <1>2, <2>2 DEF RowInv, PageIsRight, PageIsKnown, ReadIsTrue, RangesAreRight
  <2>4. ASSUME j = "warm" PROVE WarmInv(new)
    <3>1. ASSUME NEW b \in Asked, Ahead(q, b) PROVE Ahead(new, b)
      <4>1. CASE Within(q.cursor, q.ranges[1][2], b)
        <5>1. ~Within(q.cursor, close, b)
          BY <1>3, <1>5, <1>7, <1>10, Pages DEF page, close
        <5>2. Within(close, q.ranges[1][2], b)
          BY <1>3, <1>4, <1>7, <4>1, <5>1 DEF Within, OpensAt
        <5> QED
          BY <2>2, <5>2 DEF Ahead
      <4>2. CASE ~Within(q.cursor, q.ranges[1][2], b)
        BY <2>2, <3>1, <4>2 DEF Ahead
      <4> QED
        BY <4>1, <4>2
    <3> QED
      BY <1>2, <1>6, <2>2, <2>4, <3>1 DEF WarmInv, Accounted, InPage
  <2> QED
    BY <1>new, <2>3, <2>4, RowStep DEF Fetch
<1>11. CASE q.cursor < q.ranges[1][2] /\ page # {}
  <2>2. new = [q EXCEPT !.at = "write", !.page = held, !.cursor = next]
    <3> HIDE DEF page, close, held, next
    <3>1. ~(q.cursor >= q.ranges[1][2]) /\ ~(page = {})
      BY <1>3, <1>11
    <3> QED
      BY <1>8, <1>11, <3>1
  <2>3. \A b \in page : b \in Bars /\ b <= now /\ q.cursor <= OpensAt(b) /\ OpensAt(b) <= close /\ b \in Nat
    BY <1>3, <1>4, <1>5, PageHolds, Constants
  <2>4. Max(page) \in page /\ \A b \in page : Max(page) >= b
    <3> HIDE DEF page
    <3>1. page \in SUBSET Bars
      BY <2>3
    <3> QED
      BY <1>11, <3>1, GreatestIs
  <2>5. PICK last \in page : last = Max(page) /\ \A b \in page : last >= b
    BY <2>4
  <2>6. next = 2 * last + 2 /\ next \in Int
    <3>1. last \in Nat /\ q.cursor <= 2 * last
      BY <2>3 DEF OpensAt
    <3> HIDE DEF page
    <3>2. next = Max({2 * last + 2, q.cursor + 2})
      <4>1. next = Max({OpensAt(last) + 2, q.cursor + 2})
        BY <2>5
      <4> QED
        BY <4>1 DEF OpensAt
    <3> HIDE DEF next
    <3>3. PICK a \in Int, b \in Int : a = 2 * last + 2 /\ b = q.cursor + 2
      BY <1>3, <3>1
    <3>4. next = Max({a, b})
      BY <3>2, <3>3
    <3>5. Max({a, b}) = a
      <4>1. Max({a, b}) = IF a >= b THEN a ELSE b
        BY Greater
      <4>2. a >= b
        BY <1>3, <3>1, <3>3
      <4> QED
        BY <4>1, <4>2
    <3> QED
      BY <3>3, <3>4, <3>5
  <2>7. \A x \in held : x[1] \in page /\ x = <<x[1], Status(x[1])>>
    OBVIOUS
  <2>8. \A b \in page : <<b, Status(b)>> \in held
    OBVIOUS
  <2>9. \A b : Status(b) \in Contents
    BY DEF Status, Contents
  <2> HIDE DEF close, page, held, next
  <2>10. held \in SUBSET (Bars \X Contents) /\ held # {}
    <3>1. ASSUME NEW x \in held PROVE x \in Bars \X Contents
      <4>1. x[1] \in Bars /\ Status(x[1]) \in Contents /\ x = <<x[1], Status(x[1])>>
        BY <2>3, <2>7, <2>9
      <4>2. <<x[1], Status(x[1])>> \in Bars \X Contents
        BY <4>1
      <4> QED
        BY <4>1, <4>2, Zenon
    <3> QED
      BY <2>5, <2>8, <3>1
  <2>11. /\ new \in JobRow /\ new.at = "write" /\ new.ranges = q.ranges /\ new.filled = q.filled
         /\ new.page = held /\ new.cursor = next
    BY <1>2, <2>2, <2>6, <2>10 DEF JobRow
  <2>12. RowInv(j, new)
    <3>1. PageIsRight(new)
      BY <2>3, <2>7, <2>10, <2>11 DEF PageIsRight
    <3>2. PageIsKnown(new)
      <4> SUFFICES ASSUME NEW b \in Bars, NEW s \in Unfinished, <<b, s>> \in held, b < warmed.from PROVE FALSE
        BY <2>11 DEF PageIsKnown
      <4>1. s = Status(b)
        BY <2>7
      <4>2. b < now
        BY <1>5, Constants
      <4> QED
        BY <4>1, <4>2 DEF Status, Unfinished
    <3> QED
      BY <1>2, <2>11, <3>1, <3>2 DEF RowInv, ReadIsTrue, RangesAreRight
  <2>13. ASSUME j = "warm" PROVE WarmInv(new)
    <3>1. ASSUME NEW b \in Asked, Ahead(q, b) PROVE Ahead(new, b) \/ InPage(new, b)
      <4>1. CASE Within(q.cursor, q.ranges[1][2], b) /\ b \notin page
        <5>1. ~Within(q.cursor, close, b)
          BY <1>3, <1>5, <1>7, <4>1, Pages DEF page, close
        <5>2. close <= 2 * b
          BY <1>3, <1>4, <1>7, <4>1, <5>1 DEF Within, OpensAt
        <5>3. 2 * last <= close /\ last # b /\ last \in Nat
          BY <2>3, <2>5, <4>1 DEF OpensAt
        <5>4. last < b
          BY <1>4, <1>7, <5>2, <5>3
        <5>5. Within(next, q.ranges[1][2], b)
          BY <1>3, <1>7, <2>6, <4>1, <5>3, <5>4 DEF Within, OpensAt
        <5> QED
          BY <2>11, <5>5 DEF Ahead
      <4>2. CASE b \in page
        BY <2>8, <2>11, <4>2 DEF InPage
      <4>3. CASE ~Within(q.cursor, q.ranges[1][2], b)
        BY <2>11, <3>1, <4>3 DEF Ahead
      <4> QED
        BY <4>1, <4>2, <4>3
    <3> QED
      BY <1>2, <1>6, <2>11, <2>13, <3>1 DEF WarmInv, Accounted, InPage
  <2> QED
    BY <1>new, <2>12, <2>13, RowStep DEF Fetch
<1> QED
  BY <1>3, <1>9, <1>10, <1>11
LEMMA WriteStep ==
  ASSUME FeedInv, NEW j \in Writers, Write(j), UNCHANGED warmed
  PROVE  FeedInv'
<1>1. PICK q : q = job[j]
  OBVIOUS
<1>2. q \in JobRow /\ q.at = "write" /\ RowInv(j, q) /\ q.page \in SUBSET (Bars \X Contents) /\ q.page # {}
  BY <1>1 DEF FeedInv, RowInv, Write, JobRow, PageIsRight
<1> DEFINE w == Window(Merged(q.page))
<1>3. /\ w \in SUBSET Bars /\ w # {}
      /\ \A b \in w : There(b) \/ InPage(q, b)
  <2>1. \A b \in Bars : (\E x \in q.page : x[1] = b) => Merged(q.page)[b] # "none"
    BY <1>2, Merging DEF FeedInv
  <2>2. \A b \in Bars : Merged(q.page)[b] # "none" => There(b) \/ \E x \in q.page : x[1] = b
    BY <1>2, Merging DEF FeedInv
  <2>3. PICK x \in q.page : x[1] \in Bars
    BY <1>2
  <2> QED
    BY <2>1, <2>2, <2>3 DEF Window, InPage
<1>4. PICK l \in w, h \in w : l = Min(w) /\ h = Max(w)
  <2> HIDE DEF w
  <2> QED
    BY <1>3, LeastIs, GreatestIs
<1>5. PICK new : new = [q EXCEPT !.at = "commit", !.read = <<l, h>>]
  OBVIOUS
<1>6. job' = [job EXCEPT ![j] = new]
  <2>1. job' = [job EXCEPT ![j].at = "commit", ![j].read = <<Min(w), Max(w)>>]
    BY <1>1 DEF Write
  <2> HIDE DEF w
  <2>2. job' = [job EXCEPT ![j].at = "commit", ![j].read = <<l, h>>]
    BY <1>4, <2>1
  <2>3. job \in [Writers -> JobRow]
    BY DEF FeedInv, StoreTypes
  <2> QED
    BY <1>1, <1>5, <2>2, <2>3 DEF JobRow
<1> HIDE DEF w
<1>7. l \in Bars /\ h \in Bars /\ (There(l) \/ InPage(q, l)) /\ (There(h) \/ InPage(q, h))
  BY <1>3, <1>4
<1>8. /\ new \in JobRow /\ new.at = "commit" /\ new.ranges = q.ranges /\ new.filled = q.filled
      /\ new.page = q.page /\ new.cursor = q.cursor /\ new.read = <<l, h>>
  BY <1>2, <1>5, <1>7 DEF JobRow
<1>9. RowInv(j, new)
  BY <1>2, <1>7, <1>8 DEF RowInv, PageIsRight, PageIsKnown, ReadIsTrue, RangesAreRight, InPage
<1>10. j = "warm" => WarmInv(new)
  <2>1. j = "warm" => WarmInv(q)
    BY <1>1 DEF FeedInv
  <2> QED
    BY <1>2, <1>8, <2>1 DEF WarmInv, Accounted, InPage, Ahead
<1> QED
  BY <1>6, <1>9, <1>10, RowStep DEF Write

LEMMA CommitStep ==
  ASSUME FeedInv, NEW j \in Writers, Commit(j), UNCHANGED warmed
  PROVE  FeedInv'
<1>1. PICK q : q = job[j]
  OBVIOUS
<1>2. q \in JobRow /\ q.at = "commit" /\ RowInv(j, q) /\ q.page \in SUBSET (Bars \X Contents)
  BY <1>1 DEF FeedInv, RowInv, Commit, JobRow
<1>3. /\ stored' \in [Bars -> {"none"} \cup Contents]
      /\ \A b \in Bars : There(b) \/ InPage(q, b) => There(b)'
      /\ \A b \in Bars, s \in Unfinished : stored'[b] = s => stored[b] = s \/ <<b, s>> \in q.page
      /\ \A b \in Bars : stored'[b] # "none" => There(b) \/ \E x \in q.page : x[1] = b
  <2>1. stored' = Merged(q.page)
    BY <1>1 DEF Commit
  <2> QED
    BY <1>2, <2>1, Merging DEF FeedInv, There, InPage
<1>4. PICK new : new = [(IF j = "stream" THEN Rest ELSE [q EXCEPT !.at = "fetch"]) EXCEPT !.page = {}, !.read = <<>>]
  OBVIOUS
<1>5. job' = [job EXCEPT ![j] = new]
  BY <1>1, <1>4 DEF Commit
<1>6. /\ new \in JobRow /\ new.page = {}
      /\ j = "stream" => new.at = "rest"
      /\ j # "stream" => /\ new.at = "fetch" /\ new.ranges = q.ranges /\ new.cursor = q.cursor
                         /\ new.filled = q.filled
  <2>1. CASE j = "stream"
    <3>1. new = [Rest EXCEPT !.page = {}, !.read = <<>>]
      BY <1>4, <2>1
    <3> QED
      BY <2>1, <3>1, Resting DEF JobRow
  <2>2. CASE j # "stream"
    <3>1. PICK f : f = [q EXCEPT !.at = "fetch"]
      OBVIOUS
    <3>2. f \in JobRow /\ f.at = "fetch" /\ f.ranges = q.ranges /\ f.cursor = q.cursor /\ f.filled = q.filled
      BY <1>2, <3>1 DEF JobRow
    <3>3. new = [f EXCEPT !.page = {}, !.read = <<>>]
      BY <1>4, <2>2, <3>1
    <3> QED
      BY <2>2, <3>2, <3>3 DEF JobRow
  <2> QED
    BY <2>1, <2>2
<1>7. job \in [Writers -> JobRow] /\ now' = now /\ warmed' = warmed /\ missing' = missing /\ "warm" \in Writers
  BY DEF FeedInv, StoreTypes, Commit, Writers
<1>8. /\ job' \in [Writers -> JobRow] /\ job'[j] = new
      /\ \A k \in Writers : k # j => job'[k] = job[k]
  BY <1>5, <1>6, <1>7
<1>9. StoreTypes' /\ CoverageIsTrue'
  <2>1. coverage' = q.read /\ q.read \in Bars \X Bars /\ There(q.read[1])' /\ There(q.read[2])'
    BY <1>1, <1>2, <1>3 DEF Commit, RowInv, ReadIsTrue
  <2>2. CoverageIsTrue'
    BY <2>1 DEF CoverageIsTrue, There
  <2>3. \A b \in Bars : stored'[b] # "none" => b <= now
    BY <1>2, <1>3 DEF FeedInv, StoreTypes, RowInv, PageIsRight, There
  <2> QED
    BY <1>3, <1>7, <1>8, <2>1, <2>2, <2>3 DEF FeedInv, StoreTypes
<1>10. StoredIsKnown'
  BY <1>2, <1>3, <1>7 DEF FeedInv, StoredIsKnown, RowInv, PageIsKnown
<1>11. ASSUME NEW k \in Writers PROVE RowInv(k, job[k])'
  <2>1. CASE k = j
    <3>1. /\ PageIsRight(job[k])' /\ PageIsKnown(job[k])' /\ ReadIsTrue(job[k])'
      BY <1>6, <1>8, <2>1 DEF PageIsRight, PageIsKnown, ReadIsTrue
    <3>2. j # "stream" => RangesAreRight(job[k])'
      BY <1>2, <1>6, <1>8, <2>1 DEF RowInv, RangesAreRight
    <3> QED
      BY <1>6, <1>8, <2>1, <3>1, <3>2 DEF RowInv
  <2>2. CASE k # j
    <3>1. PICK row : row = job[k]
      OBVIOUS
    <3>2. row = job'[k] /\ row \in JobRow
      BY <1>7, <1>8, <2>2, <3>1
    <3>3. RowInv(k, row)
      BY <3>1 DEF FeedInv
    <3>4. ReadIsTrue(row)'
      BY <1>3, <3>3 DEF RowInv, ReadIsTrue, InPage
    <3> QED
      BY <1>7, <3>2, <3>3, <3>4 DEF RowInv, PageIsRight, PageIsKnown, ReadIsTrue, RangesAreRight, There, InPage
  <2> QED
    BY <2>1, <2>2
<1>12. WarmInv(job["warm"])'
  <2>1. PICK w : w = job["warm"]
    OBVIOUS
  <2>2. WarmInv(w)
    BY <2>1 DEF FeedInv
  <2>3. PICK v : v = job'["warm"]
    OBVIOUS
  <2>4. ASSUME NEW b \in Bars, v.at \notin {"rest", "over"}, Accounted(w, b)
        PROVE  There(b)' \/ InPage(v, b) \/ Ahead(v, b) \/ (~v.filled /\ InGap(b)')
    <3>1. InGap(b) => InGap(b)'
      BY <1>3 DEF InGap
    <3>2. CASE j # "warm"
      <4>1. v = w
        BY <1>7, <1>8, <2>1, <2>3, <3>2
      <4> QED
        BY <1>3, <2>4, <3>1, <4>1 DEF Accounted
    <3>3. CASE j = "warm"
      <4>1. v = new /\ w = q
        BY <1>1, <1>8, <2>1, <2>3, <3>3
      <4>2. Ahead(q, b) => Ahead(new, b)
        BY <1>6, <3>3 DEF Ahead
      <4> QED
        BY <1>3, <1>6, <2>4, <3>1, <3>3, <4>1, <4>2 DEF Accounted
    <3> QED
      BY <3>2, <3>3
  <2>5. v.at \notin {"rest", "over"} => w.at \notin {"rest", "over"}
    <3>1. CASE j = "warm"
      BY <1>1, <1>2, <2>1, <3>1
    <3>2. CASE j # "warm"
      BY <1>7, <1>8, <2>1, <2>3, <3>2
    <3> QED
      BY <3>1, <3>2
  <2>6. Asked' = Asked /\ \A b \in Asked : b \in Bars
    BY <1>7 DEF Asked, LookedAt
  <2>7. ASSUME v.at \notin {"rest", "over"}, NEW b \in Asked
        PROVE  There(b)' \/ InPage(v, b) \/ Ahead(v, b) \/ (~v.filled /\ InGap(b)')
    BY <2>2, <2>4, <2>5, <2>6, <2>7 DEF WarmInv
  <2> QED
    BY <2>3, <2>6, <2>7 DEF WarmInv, Accounted, InPage, Ahead
<1> QED
  BY <1>9, <1>10, <1>11, <1>12 DEF FeedInv
LEMMA EnsureHistoryStep ==
  ASSUME FeedInv, EnsureHistory
  PROVE  FeedInv'
<1>1. PICK g : g = Ranges
  OBVIOUS
<1>2. /\ g \in Seq(Int \X Int)
      /\ \A b \in Bars : b >= now - Wanted /\ b <= now => There(b) \/ InGap(b) \/ AheadIn(g, b)
  BY <1>1, RangesHold DEF FeedInv
<1>3. PICK q : q = [Rest EXCEPT !.ranges = g]
  OBVIOUS
<1>4. q \in JobRow /\ q.ranges = g /\ q.page = {} /\ ~q.filled
  BY <1>2, <1>3, Resting DEF JobRow
<1>5. PICK new : new = NextRange(q)
  OBVIOUS
<1>6. /\ job' = [job EXCEPT !["warm"] = new] /\ warmed' = [from |-> now, forming |-> Forming]
      /\ UNCHANGED <<now, missing, stored, coverage>>
  BY <1>1, <1>3, <1>5 DEF EnsureHistory
<1>7. /\ new \in JobRow /\ new.filled = q.filled /\ new.page = {}
      /\ new.at \in {"fetch", "whole", "done"} /\ RangesAreRight(new)
      /\ \A b \in Bars : AheadIn(g, b) => Ahead(new, b)
  BY <1>4, <1>5, NextRangeDoes DEF RangesAreRight
<1>8. job \in [Writers -> JobRow] /\ now \in Bars /\ now \in Nat /\ "warm" \in Writers /\ Wanted \in Nat
  BY Constants DEF FeedInv, StoreTypes, Writers
<1>9. /\ job' \in [Writers -> JobRow] /\ job'["warm"] = new
      /\ \A k \in Writers : k # "warm" => job'[k] = job[k]
  BY <1>6, <1>7, <1>8
<1>10. StoreTypes' /\ CoverageIsTrue'
  <2>1. CoverageIsTrue'
    BY <1>6 DEF FeedInv, CoverageIsTrue, There
  <2>2. Forming \in SUBSET Bars
    BY DEF Forming
  <2>3. warmed' \in [from : Nat, forming : SUBSET Bars] /\ warmed'.from = now
    BY <1>6, <1>8, <2>2
  <2> QED
    BY <1>6, <1>8, <1>9, <2>1, <2>3 DEF FeedInv, StoreTypes
<1>11. StoredIsKnown'
  BY <1>6 DEF StoredIsKnown, Forming, Unfinished
<1>12. ASSUME NEW k \in Writers PROVE RowInv(k, job[k])'
  <2>1. CASE k = "warm"
    <3>1. PageIsRight(job[k])' /\ PageIsKnown(job[k])' /\ ReadIsTrue(job[k])' /\ RangesAreRight(job[k])'
      BY <1>7, <1>9, <2>1 DEF PageIsRight, PageIsKnown, ReadIsTrue, RangesAreRight
    <3> QED
      BY <1>7, <1>9, <2>1, <3>1 DEF RowInv
  <2>2. CASE k # "warm"
    <3>1. job'[k] = job[k] /\ RowInv(k, job[k])
      BY <1>9, <2>2 DEF FeedInv
    <3>2. PageIsKnown(job[k])'
      BY <1>6, <3>1 DEF PageIsKnown, Forming, Unfinished
    <3>3. PageIsRight(job[k])' /\ ReadIsTrue(job[k])'
      BY <1>6, <3>1 DEF RowInv, PageIsRight, ReadIsTrue, There, InPage
    <3> QED
      BY <3>1, <3>2, <3>3 DEF RowInv, RangesAreRight
  <2> QED
    BY <2>1, <2>2
<1>13. WarmInv(job["warm"])'
  <2>1. ASSUME NEW b \in Asked' PROVE There(b) \/ Ahead(new, b) \/ (~new.filled /\ InGap(b))
    <3>1. b \in Bars /\ b >= now - Wanted /\ b <= now
      BY <1>6, <1>8, <2>1, Constants DEF Asked
    <3> QED
      BY <1>2, <1>4, <1>7, <3>1
  <2> QED
    BY <1>6, <1>9, <2>1 DEF WarmInv, Accounted, There, InGap, Ahead, Within
<1> QED
  BY <1>10, <1>11, <1>12, <1>13 DEF FeedInv

LEMMA BarClosesStep ==
  ASSUME FeedInv, BarCloses
  PROVE  FeedInv'
<1>1. /\ now' \in Bars /\ now <= now' /\ now \in Nat /\ now' \in Nat
      /\ UNCHANGED <<missing, stored, coverage, job, warmed>>
  BY Constants DEF BarCloses, FeedInv, StoreTypes, Bars
<1>2. StoreTypes' /\ CoverageIsTrue' /\ StoredIsKnown'
  <2>1. \A b \in Bars : stored[b] # "none" => b <= now'
    BY <1>1, Constants DEF FeedInv, StoreTypes
  <2> QED
    BY <1>1, <2>1 DEF FeedInv, StoreTypes, CoverageIsTrue, StoredIsKnown, There
<1>3. ASSUME NEW j \in Writers PROVE RowInv(j, job[j])'
  <2>1. PICK q : q = job[j]
    OBVIOUS
  <2>2. RowInv(j, q) /\ q = job'[j] /\ q.page \in SUBSET (Bars \X Contents)
    BY <1>1, <2>1 DEF FeedInv, RowInv, JobRow
  <2>3. \A x \in q.page : x[1] <= now'
    <3>1. \A x \in q.page : x[1] \in Nat /\ x[1] <= now
      BY <2>2, Constants DEF RowInv, PageIsRight
    <3> QED
      BY <1>1, <3>1
  <2>4. PageIsRight(q)'
    BY <2>2, <2>3 DEF RowInv, PageIsRight
  <2> QED
    BY <1>1, <2>2, <2>4 DEF RowInv, PageIsRight, PageIsKnown, ReadIsTrue, RangesAreRight, There, InPage
<1>4. WarmInv(job["warm"])'
  <2>1. \A b \in Asked' : b \in Asked
    <3> SUFFICES ASSUME NEW b \in Asked' PROVE b \in Asked
      OBVIOUS
    <3>1. b \in (Bars \cap (warmed.from - Wanted)..warmed.from) \ missing /\ now' - b < GapBars
      BY <1>1 DEF Asked, LookedAt
    <3>2. b \in Nat
      BY <3>1, Constants
    <3>3. now - b < GapBars
      <4>1. PICK later : later = now'
        OBVIOUS
      <4>2. later \in Nat /\ now <= later /\ now \in Nat /\ later - b < GapBars /\ GapBars \in Nat
        BY <1>1, <3>1, <4>1, Constants
      <4> QED
        BY <3>2, <4>2
    <3> QED
      BY <3>1, <3>3 DEF Asked, LookedAt
  <2> QED
    BY <1>1, <2>1 DEF FeedInv, WarmInv, Accounted, There, InPage, Ahead, Within, InGap
<1> QED
  BY <1>2, <1>3, <1>4 DEF FeedInv

LEMMA BackfillStep ==
  ASSUME FeedInv, NEW a \in Bars, NEW b \in Bars, NEW fill \in BOOLEAN, Backfill(a, b, fill)
  PROVE  FeedInv'
<1>1. PICK q : q = [Rest EXCEPT !.ranges = << <<OpensAt(a), OpensAt(b)>> >>, !.filled = ~fill]
  OBVIOUS
<1>2. << <<OpensAt(a), OpensAt(b)>> >> \in Seq(Int \X Int)
  BY Constants DEF OpensAt
<1>3. q \in JobRow /\ q.page = {}
  BY <1>1, <1>2, Resting DEF JobRow
<1>4. PICK new : new = NextRange(q)
  OBVIOUS
<1>5. job' = [job EXCEPT !["tool"] = new]
  BY <1>1, <1>4 DEF Backfill
<1>6. "tool" \in Writers \ {"stream"} /\ "tool" # "warm"
  BY DEF Writers
<1>7. RowInv("tool", new)
  BY <1>3, <1>4, <1>6, GoesOn
<1> QED
  BY <1>5, <1>6, <1>7, RowStep DEF Backfill

LEMMA FillGapsStep ==
  ASSUME FeedInv, NEW j \in Writers \ {"stream"}, FillGaps(j)
  PROVE  FeedInv'
<1>1. PICK g : g = Gaps
  OBVIOUS
<1>2. g \in Seq(Int \X Int) /\ \A b \in Bars : InGap(b) /\ LookedAt(b) => There(b) \/ AheadIn(g, b)
  BY <1>1, GapsHold DEF FeedInv
<1>3. PICK q : q = [Rest EXCEPT !.ranges = g, !.filled = TRUE]
  OBVIOUS
<1>4. q \in JobRow /\ q.page = {} /\ q.ranges = g
  BY <1>2, <1>3, Resting DEF JobRow
<1>5. PICK new : new = NextRange(q)
  OBVIOUS
<1>6. job' = [job EXCEPT ![j] = new]
  BY <1>1, <1>3, <1>5 DEF FillGaps
<1>7. RowInv(j, new)
  BY <1>4, <1>5, GoesOn
<1>8. ASSUME j = "warm" PROVE WarmInv(new)
  <2>1. PICK w : w = job["warm"]
    OBVIOUS
  <2>2. w.at = "done" /\ WarmInv(w) /\ PageIsRight(w)
    BY <1>8, <2>1 DEF FillGaps, FeedInv, RowInv
  <2>3. w.page = {}
    BY <2>2 DEF PageIsRight
  <2>4. \A b \in Asked : There(b) \/ InGap(b)
    BY <2>2, <2>3 DEF WarmInv, Accounted, InPage, Ahead
  <2>5. \A b \in Asked : There(b) \/ AheadIn(q.ranges, b)
    BY <1>2, <1>4, <2>4 DEF Asked
  <2> QED
    BY <1>4, <1>5, <2>5, GoesOn
<1> QED
  BY <1>6, <1>7, <1>8, RowStep DEF FillGaps

LEMMA FailStep ==
  ASSUME FeedInv, NEW j \in Writers \ {"stream"}, Fail(j)
  PROVE  FeedInv'
<1>1. PICK new : new = IF j = "warm" THEN [Rest EXCEPT !.at = "over"] ELSE Rest
  OBVIOUS
<1>2. RowInv(j, new) /\ WarmInv(new)
  <2>1. CASE j = "warm"
    <3>1. new = [Rest EXCEPT !.at = "over"]
      BY <1>1, <2>1
    <3> QED
      BY <3>1, Stopped
  <2>2. CASE j # "warm"
    <3>1. new = Rest
      BY <1>1, <2>2
    <3> QED
      BY <3>1, Stopped
  <2> QED
    BY <2>1, <2>2
<1>3. job' = [job EXCEPT ![j] = new]
  BY <1>1 DEF Fail
<1> QED
  BY <1>2, <1>3, RowStep DEF Fail

LEMMA WarmedStep ==
  ASSUME FeedInv, Warmed
  PROVE  FeedInv'
<1>1. PICK new : new = [Rest EXCEPT !.at = "over"]
  OBVIOUS
<1>2. "warm" \in Writers \ {"stream"}
  BY DEF Writers
<1>3. RowInv("warm", new) /\ WarmInv(new)
  BY <1>1, <1>2, Stopped
<1>4. job' = [job EXCEPT !["warm"] = new]
  BY <1>1 DEF Warmed
<1> QED
  BY <1>2, <1>3, <1>4, RowStep DEF Warmed

LEMMA EventStep ==
  ASSUME FeedInv, Event
  PROVE  FeedInv'
<1>1. PICK page : page = {<<now, Status(now)>>}
  OBVIOUS
<1>2. /\ page \in SUBSET (Bars \X Contents) /\ page # {} /\ \A x \in page : x[1] = now
      /\ \A x, y \in page : x = y
  BY <1>1 DEF FeedInv, StoreTypes, Contents, Status
<1>3. PICK new : new = [Rest EXCEPT !.at = "write", !.page = page]
  OBVIOUS
<1>4. new \in JobRow /\ new.at = "write" /\ new.page = page
  BY <1>2, <1>3, Resting DEF JobRow
<1>5. now \in Nat /\ warmed.from \in Nat /\ warmed.from <= now
  BY Constants DEF FeedInv, StoreTypes
<1>6. PageIsRight(new)
  BY <1>2, <1>4, <1>5 DEF PageIsRight
<1>7. PageIsKnown(new)
  <2> SUFFICES ASSUME NEW b \in Bars, NEW s \in Unfinished, <<b, s>> \in page, b < warmed.from PROVE FALSE
    BY <1>4 DEF PageIsKnown
  <2>1. b = now
    BY <1>2
  <2> QED
    BY <1>5, <2>1
<1>8. RowInv("stream", new)
  BY <1>4, <1>6, <1>7 DEF RowInv, ReadIsTrue
<1>9. job' = [job EXCEPT !["stream"] = new] /\ "stream" \in Writers /\ "stream" # "warm"
  BY <1>1, <1>3 DEF Event, Writers
<1> QED
  BY <1>8, <1>9, RowStep DEF Event

LEMMA RestartedStep ==
  ASSUME FeedInv, Restarted
  PROVE  FeedInv'
<1>1. "stream" \in Writers /\ "stream" # "warm"
  BY DEF Writers
<1>2. PICK new : new = Rest
  OBVIOUS
<1>3. RowInv("stream", new) /\ job' = [job EXCEPT !["stream"] = new]
  BY <1>1, <1>2, Stopped DEF Restarted
<1> QED
  BY <1>1, <1>3, RowStep DEF Restarted

LEMMA RebootStep ==
  ASSUME FeedInv, Reboot
  PROVE  FeedInv'
<1>1. job \in [Writers -> JobRow] /\ \A j \in Writers : RowInv(j, job[j])
  BY DEF FeedInv, StoreTypes
<1>2. PICK next : next = [job EXCEPT !["warm"] = Rest, !["stream"] = Rest]
  OBVIOUS
<1>3. "warm" \in Writers
  BY DEF Writers
<1>4. /\ next \in [Writers -> JobRow] /\ next["warm"] = Rest
      /\ \A j \in Writers : next[j] = job[j] \/ next[j] = Rest
  BY <1>1, <1>2, <1>3, Resting
<1>5. \A j \in Writers : RowInv(j, next[j])
  <2> TAKE j \in Writers
  <2>1. CASE next[j] = job[j]
    BY <1>1, <2>1
  <2>2. CASE next[j] = Rest
    BY <2>2, Stopped
  <2> QED
    BY <1>4, <2>1, <2>2
<1>6. WarmInv(next["warm"])
  BY <1>4, Stopped
<1>7. job' = next
  BY <1>2 DEF Reboot
<1> QED
  BY <1>4, <1>5, <1>6, <1>7, RowsStep DEF Reboot
LEMMA FeedStarts == Init => FeedInv
<1> SUFFICES ASSUME Init PROVE FeedInv
  OBVIOUS
<1>1. left \in Budgets /\ now \in Bars /\ now \in Nat
  BY BoundsAssumption, Constants DEF Init
<1>2. /\ stored \in [Bars -> {"none"} \cup Contents] /\ coverage = <<>>
      /\ job = [j \in Writers |-> Rest]
      /\ warmed \in [from : Nat, forming : SUBSET Bars] /\ warmed.from <= now
      /\ \A b \in Bars : stored[b] = "none"
  BY <1>1 DEF Init, NotWarmed
<1>3. StoreTypes
  BY <1>1, <1>2, Resting DEF StoreTypes
<1>4. \A j \in Writers : job[j] = Rest
  BY <1>2
<1>5. "warm" \in Writers
  BY DEF Writers
<1>6. WarmInv(job["warm"]) /\ \A j \in Writers : RowInv(j, job[j])
  BY <1>4, <1>5, Stopped
<1> QED
  BY <1>2, <1>3, <1>6 DEF FeedInv, CoverageIsTrue, StoredIsKnown, Unfinished

LEMMA FeedStays == FeedInv /\ [Next]_vars => FeedInv'
<1> SUFFICES ASSUME FeedInv, [Next]_vars PROVE FeedInv'
  OBVIOUS
<1>1. CASE \E j \in Writers : Storing(j) /\ UNCHANGED <<streamVars, warmed, left>>
  <2>1. PICK j \in Writers : Storing(j) /\ UNCHANGED <<streamVars, warmed, left>>
    BY <1>1
  <2> QED
    BY <2>1, FetchStep, WriteStep, CommitStep DEF Storing
<1>2. CASE \E j \in Writers \ {"stream"} : FillGaps(j) \/ Fail(j)
  BY <1>2, FillGapsStep, FailStep
<1>3. CASE EnsureHistory \/ BarCloses \/ Warmed
  BY <1>3, EnsureHistoryStep, BarClosesStep, WarmedStep
<1>4. CASE \E a, b \in Bars, fill \in BOOLEAN : Backfill(a, b, fill)
  BY <1>4, BackfillStep
<1>5. CASE \E s \in Series : Subscribe(s)
  BY <1>5, QuietStep DEF Subscribe, storeVars
<1>6. CASE LoopTop \/ Connect \/ Disconnect
  BY <1>6, QuietStep DEF LoopTop, Connect, Disconnect, storeVars
<1>7. CASE Restarted \/ Event \/ Reboot
  BY <1>7, RestartedStep, EventStep, RebootStep
<1>8. CASE UNCHANGED vars
  BY <1>8, QuietStep DEF vars, storeVars
<1> QED
  BY <1>1, <1>2, <1>3, <1>4, <1>5, <1>6, <1>7, <1>8 DEF Next

THEOREM FeedAlways == Spec => []FeedInv
  BY FeedStarts, FeedStays, PTL DEF Spec

-----------------------------------------------------------------------------
(* The theorems.                                                           *)

\* When the warming is done, after any failures of earlier ones, whatever the
\* operator's tool and the stream wrote meanwhile, every bar it was to fetch is
\* stored, and final if it was over when the warming began -- unless it had been
\* stored before it was, or was about to be, and as long as so few bars have
\* closed since that fill_gaps, which reads the newest ones, looks at it.
\* ensure_history, fill_gaps, iter_klines and upsert_bars make this so together.
THEOREM WarmingIsWhole == Spec => []WarmIsWhole
<1>1. ASSUME FeedInv PROVE WarmIsWhole
  <2>1. PICK w : w = job["warm"]
    OBVIOUS
  <2>2. "warm" \in Writers
    BY DEF Writers
  <2>3. WarmInv(w) /\ PageIsRight(w) /\ RangesAreRight(w)
    BY <1>1, <2>1, <2>2 DEF FeedInv, RowInv
  <2>4. ASSUME w.at = "whole", NEW b \in Asked
        PROVE  stored[b] # "none" /\ (b < warmed.from => stored[b] = "final" \/ b \in warmed.forming)
    <3>1. w.page = {} /\ w.filled
      BY <2>3, <2>4 DEF PageIsRight, RangesAreRight
    <3>2. There(b)
      BY <2>3, <2>4, <3>1 DEF WarmInv, Accounted, InPage, Ahead
    <3>3. b \in Bars /\ stored[b] \in {"none", "final"} \cup Unfinished
      BY <1>1, <2>4 DEF Asked, FeedInv, StoreTypes, Contents, Unfinished
    <3>4. stored[b] \in Unfinished /\ b < warmed.from => b \in warmed.forming
      BY <1>1, <3>3 DEF FeedInv, StoredIsKnown
    <3> QED
      BY <3>2, <3>3, <3>4 DEF There
  <2> QED
    BY <2>1, <2>4 DEF WarmIsWhole, Asked
<1> QED
  BY FeedAlways, <1>1, PTL

\* A bar stored as closed is never touched again, whichever of the warming, the
\* tool and the stream commits, and however late (the filter of upsert_bars).
THEOREM FinalBarsStay == Spec => SettledStays
<1>1. ASSUME [Next]_vars PROVE [\A b \in Bars : stored[b] \in {"frozen", "final"} => stored'[b] = stored[b]]_stored
  <2>1. CASE \E j \in Writers : Commit(j)
    <3>1. PICK page : stored' = Merged(page)
      BY <2>1 DEF Commit
    <3> QED
      BY <3>1 DEF Merged
  <2>2. CASE ~\E j \in Writers : Commit(j)
    <3>1. UNCHANGED stored
      BY <1>1, <2>2 DEF Next, vars, storeVars, Storing, Fetch, Write, FillGaps, Fail, EnsureHistory, BarCloses,
                        Warmed, Backfill, Subscribe, LoopTop, Restarted, Connect, Disconnect, Event, Reboot
    <3> QED
      BY <3>1
  <2> QED
    BY <2>1, <2>2
<1> QED
  BY <1>1, PTL DEF Spec, SettledStays
=============================================================================
