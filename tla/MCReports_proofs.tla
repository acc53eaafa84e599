---------------------------- MODULE MCReports_proofs ----------------------------
(***************************************************************************)
(* What the parts of MCReports promise, for any constants.  PageInv says    *)
(* what a client that lists page by page has, and what is still to come,    *)
(* PeriodInv that an answer is of the request that was made, and ReportInv  *)
(* that what the statements of a report returned is of one snapshot.        *)
(***************************************************************************)
EXTENDS MCReports, FiniteFacts, FiniteSetTheorems, SequenceTheorems, TLAPS

allReadVars == <<vars, scene, readVars, part>>

-----------------------------------------------------------------------------
(***************************************************************************)
(* Lists of transactions.                                                   *)
(***************************************************************************)

\* The pages received descend, and end where the cursor continues.
PagesDescend ==
    /\ \A m, n \in 1..Len(entries) : m < n => Pa!Before(entries[n], entries[m])
    /\ stage = "start" => entries = <<>> /\ nextCursor = None
    /\ stage = "listing" =>
         /\ nextCursor # None /\ nextCursor.filter = filter
         /\ Len(entries) > 0 /\ nextCursor.after = entries[Len(entries)]

\* An unchanged row that was listed is listed as it is; one that matches and was not
\* listed comes after the cursor.
UnchangedListed ==
    \A i \in Ids \ touched :
      /\ \A n \in 1..Len(entries) :
           entries[n].id = i => entries[n] = Pa!EntryOf(i) /\ Pa!Matches(table[i], filter)
      /\ stage # "start" /\ Pa!Matches(table[i], filter) =>
           \/ \E n \in 1..Len(entries) : entries[n] = Pa!EntryOf(i)
           \/ stage = "listing" /\ Pa!Before(Pa!EntryOf(i), nextCursor.after)

PageInv == Pa!TypeOK /\ PagesDescend /\ UnchangedListed

-----------------------------------------------------------------------------
\* The cardinality of FiniteSets, under each of its names.
LEMMA SameCardinality ==
  \A S : Pa!Cardinality(S) = Cardinality(S) /\ Pe!Cardinality(S) = Cardinality(S)
BY DEF Pa!Cardinality, Pe!Cardinality, Cardinality

LEMMA BeforeOrders ==
  /\ \A x \in Pa!Entry : ~Pa!Before(x, x)
  /\ \A x, y, z \in Pa!Entry : Pa!Before(x, y) /\ Pa!Before(y, z) => Pa!Before(x, z)
  /\ \A x, y \in Pa!Entry : x = y \/ Pa!Before(x, y) \/ Pa!Before(y, x)
<1>1. ASSUME NEW x \in Pa!Entry PROVE x.date \in Int /\ x.id \in Int
  BY PageAssumption DEF Pa!Entry
<1>2. ASSUME NEW x \in Pa!Entry, NEW y \in Pa!Entry, x.date = y.date, x.id = y.id PROVE x = y
  BY <1>2 DEF Pa!Entry
<1>3. \A x \in Pa!Entry : ~Pa!Before(x, x)
  BY <1>1 DEF Pa!Before
<1>4. \A x, y, z \in Pa!Entry : Pa!Before(x, y) /\ Pa!Before(y, z) => Pa!Before(x, z)
  BY <1>1 DEF Pa!Before
<1>5. \A x, y \in Pa!Entry : x = y \/ Pa!Before(x, y) \/ Pa!Before(y, x)
  BY <1>1, <1>2 DEF Pa!Before
<1> QED
  BY <1>3, <1>4, <1>5

\* The rows that a page continues with, in their order.
LEMMA PageOrdered ==
  ASSUME NEW S, S \subseteq Pa!Entry, IsFiniteSet(S)
  PROVE  /\ Cardinality(S) \in Nat
         /\ Pa!Ordered(S) \in [1..Cardinality(S) -> S]
         /\ \A m, n \in 1..Cardinality(S) :
              m < n => Pa!Before(Pa!Ordered(S)[n], Pa!Ordered(S)[m])
         /\ \A x \in S : \E n \in 1..Cardinality(S) : Pa!Ordered(S)[n] = x
<1> DEFINE k == Cardinality(S)
           Later == {pair \in S \X S : Pa!Before(pair[2], pair[1])}
           Sorted(s) == \A m, n \in 1..k : m < n => \/ s[m].date > s[n].date
                                                    \/ s[m].date = s[n].date /\ s[m].id > s[n].id
<1>1. \A x, y \in S : <<x, y>> \in Later <=> Pa!Before(y, x)
  OBVIOUS
<1>2. StrictOrder(Later, S)
  <2> HIDE DEF Later
  <2> QED
    BY <1>1, BeforeOrders DEF StrictOrder
<1>3. k \in Nat
  BY FS_CardinalityType
<1>4. ASSUME NEW x \in S, NEW y \in S
      PROVE  Pa!Before(y, x) <=> x.date > y.date \/ (x.date = y.date /\ x.id > y.id)
  <2>1. x.date \in Int /\ x.id \in Int /\ y.date \in Int /\ y.id \in Int
    BY PageAssumption DEF Pa!Entry
  <2> QED
    BY <2>1 DEF Pa!Before
<1> HIDE DEF Later, k
<1>5. \A s \in [1..k -> S] : Sorted(s) <=> Ascending(s, k, Later)
  BY <1>1, <1>4 DEF Ascending
<1>6. \E s \in [1..k -> S] : Sorted(s)
  BY <1>2, <1>5, Sorting DEF k
<1> DEFINE chosen == CHOOSE s \in [1..k -> S] : Sorted(s)
<1> HIDE DEF Sorted
<1>7. chosen \in [1..k -> S] /\ Sorted(chosen)
  BY <1>6
<1>8. Pa!Ordered(S) = chosen
  BY SameCardinality DEF Pa!Ordered, Sorted, k
<1> HIDE DEF chosen
<1>9. Ascending(chosen, k, Later)
  BY <1>5, <1>7
<1>10. \A m, n \in 1..k : m < n => Pa!Before(chosen[n], chosen[m])
  BY <1>1, <1>7, <1>9 DEF Ascending
<1>11. \A x \in S : \E n \in 1..k : chosen[n] = x
  BY <1>2, <1>7, <1>9, SortedIsComplete DEF k
<1> QED
  BY <1>3, <1>7, <1>8, <1>10, <1>11 DEF k

\* A page has the first rows that come after the cursor, all of them or as many as it
\* was asked for, and then its cursor is at its last row.
LEMMA PageContinues ==
  ASSUME PageInv, NEW f \in Filters, NEW after \in Pa!Entry \cup {None}, NEW size \in PageSizes
  PROVE  LET page == Pa!Page(f, after, size)
             rest == Pa!Continuing(f, after)
         IN /\ page.items \in Seq(rest) /\ rest \subseteq Pa!Entry
            /\ \A m, n \in 1..Len(page.items) :
                 m < n => Pa!Before(page.items[n], page.items[m])
            /\ \A x \in rest :
                 \/ \E n \in 1..Len(page.items) : page.items[n] = x
                 \/ page.cursor # None /\ Pa!Before(x, page.cursor.after)
            /\ page.cursor # None =>
                 /\ page.cursor = [filter |-> f, after |-> page.items[Len(page.items)]]
                 /\ Len(page.items) > 0
<1> DEFINE rest == Pa!Continuing(f, after)
           found == Pa!Ordered(rest)
           k == Cardinality(rest)
           page == Pa!Page(f, after, size)
<1>1. rest \subseteq {Pa!EntryOf(i) : i \in Ids}
  BY DEF Pa!Continuing
<1>2. \A i \in Ids : Pa!EntryOf(i) \in Pa!Entry
  BY DEF PageInv, Pa!TypeOK, Pa!EntryOf, Pa!Entry
<1>3. rest \subseteq Pa!Entry
  BY <1>1, <1>2
<1>4. IsFiniteSet(rest)
  <2> DEFINE all == {Pa!EntryOf(i) : i \in Ids}
             entry == [i \in Ids |-> Pa!EntryOf(i)]
  <2>1. entry \in Surjection(Ids, all)
    <3>1. entry \in [Ids -> all]
      OBVIOUS
    <3>2. ASSUME NEW x \in all PROVE \E i \in Ids : entry[i] = x
      OBVIOUS
    <3> QED
      BY <3>1, <3>2 DEF Surjection
  <2>2. IsFiniteSet(all)
    BY <2>1, PageAssumption, FS_Surjection
  <2> QED
    BY <1>1, <2>2, FS_Subset
<1> HIDE DEF rest
<1>5. /\ k \in Nat /\ found \in [1..k -> rest]
      /\ \A m, n \in 1..k : m < n => Pa!Before(found[n], found[m])
      /\ \A x \in rest : \E n \in 1..k : found[n] = x
  BY <1>3, <1>4, PageOrdered
<1> HIDE DEF found, k
<1>6. found \in Seq(rest) /\ Len(found) = k
  BY <1>5
<1>7. size \in Nat /\ size > 0
  BY PageAssumption
<1>8. page = [items |-> IF k > size THEN SubSeq(found, 1, size) ELSE found,
              cursor |-> IF k > size
                           THEN [filter |-> f,
                                 after |-> (IF k > size THEN SubSeq(found, 1, size) ELSE found)[size]]
                           ELSE None]
  BY <1>6 DEF Pa!Page, found, rest
<1> HIDE DEF page
<1>9. CASE k > size
  <2> DEFINE items == SubSeq(found, 1, size)
  <2>1. /\ items \in Seq(rest) /\ Len(items) = size
        /\ \A n \in 1..size : items[n] = found[n] /\ n \in 1..k
    BY <1>5, <1>6, <1>7, <1>9
  <2>2. page.items = items /\ page.cursor = [filter |-> f, after |-> items[size]]
    BY <1>8, <1>9
  <2> HIDE DEF items
  <2>3. ASSUME NEW x \in rest
        PROVE  (\E n \in 1..size : items[n] = x) \/ Pa!Before(x, items[size])
    <3>1. PICK n \in 1..k : found[n] = x
      BY <1>5
    <3>2. n \in 1..size \/ size < n
      BY <1>7
    <3> QED
      BY <1>5, <1>7, <2>1, <3>1, <3>2
  <2>4. items[size] \in Pa!Entry
    BY <1>3, <1>5, <1>7, <2>1
  <2>5. page.cursor # None /\ page.cursor.after = items[size]
    <3>1. page.cursor \in [filter : Filters, after : Pa!Entry]
      BY <2>2, <2>4
    <3> QED
      BY <2>2, <3>1, PageAssumption
  <2> QED
    BY <1>3, <1>5, <1>7, <2>1, <2>2, <2>3, <2>5 DEF page, rest
<1>10. CASE ~(k > size)
  <2>1. page.items = found /\ page.cursor = None
    BY <1>8, <1>10
  <2> QED
    BY <1>3, <1>5, <1>6, <2>1 DEF page, rest
<1> QED
  BY <1>9, <1>10
\* What a page adds to what was received descends with it.
LEMMA PageReceived ==
  ASSUME PageInv, NEW f \in Filters, NEW after \in Pa!Entry \cup {None}, NEW size \in PageSizes,
         Pa!Received(Pa!Page(f, after, size)), UNCHANGED <<table, touched>>, filter' = f,
         \/ stage = "start" /\ after = None
         \/ stage = "listing" /\ after = nextCursor.after /\ filter = f
  PROVE  PageInv'
<1> DEFINE page == Pa!Page(f, after, size)
           rest == Pa!Continuing(f, after)
           items == page.items
           m == Len(entries)
           n == Len(items)
<1>1. /\ items \in Seq(rest) /\ rest \subseteq Pa!Entry
      /\ \A j, k \in 1..n : j < k => Pa!Before(items[k], items[j])
      /\ \A x \in rest :
           \/ \E k \in 1..n : items[k] = x
           \/ page.cursor # None /\ Pa!Before(x, page.cursor.after)
      /\ page.cursor # None =>
           page.cursor = [filter |-> f, after |-> items[n]] /\ n > 0
  BY PageContinues
<1>2. /\ entries' = entries \o items /\ nextCursor' = page.cursor
      /\ stage' = IF page.cursor = None THEN "over" ELSE "listing"
      /\ table' = table /\ touched' = touched /\ filter' = f
  BY DEF Pa!Received
<1>3. rest = {Pa!EntryOf(i) : i \in {j \in Ids : Pa!Matches(table[j], f)
                                      /\ (after # None => Pa!Before(Pa!EntryOf(j), after))}}
  BY DEF Pa!Continuing
<1> HIDE DEF page, rest
<1>4. /\ items \in Seq(Pa!Entry) /\ entries \in Seq(Pa!Entry) /\ m \in Nat /\ n \in Nat
      /\ \A k \in 1..n : items[k] \in rest /\ items[k] \in Pa!Entry
      /\ \A k \in 1..m : entries[k] \in Pa!Entry
  BY <1>1 DEF PageInv, Pa!TypeOK
<1> HIDE DEF items
<1>5. /\ entries' \in Seq(Pa!Entry) /\ Len(entries') = m + n
      /\ \A k \in 1..m : entries'[k] = entries[k]
      /\ \A k \in 1..n : entries'[m + k] = items[k]
  BY <1>2, <1>4
<1>6. \A k \in 1..(m + n) : k \in 1..m \/ (k - m \in 1..n /\ m + (k - m) = k)
  BY <1>4
<1>7. \A i \in Ids : Pa!EntryOf(i)' = Pa!EntryOf(i) /\ Pa!EntryOf(i).id = i
  BY <1>2 DEF Pa!EntryOf
<1>8. \A i \in Ids : Pa!EntryOf(i) \in Pa!Entry
  BY DEF PageInv, Pa!TypeOK, Pa!EntryOf, Pa!Entry
<1>9. after # None => stage = "listing" /\ m > 0 /\ after = entries[m]
  BY DEF PageInv, PagesDescend
<1>10. ASSUME NEW j \in 1..m, NEW k \in 1..n PROVE Pa!Before(items[k], entries[j])
  <2>1. after # None
    <3>1. stage # "start"
      BY <1>4 DEF PageInv, PagesDescend
    <3> QED
      BY <1>4, <3>1, PageAssumption DEF PageInv, PagesDescend
  <2>2. Pa!Before(items[k], after)
    BY <1>3, <1>4, <2>1
  <2>3. j = m \/ Pa!Before(entries[m], entries[j])
    BY <1>4, <1>9, <2>1 DEF PageInv, PagesDescend
  <2>4. entries[m] \in Pa!Entry /\ entries[j] \in Pa!Entry /\ items[k] \in Pa!Entry
    BY <1>4, <1>9, <2>1
  <2> QED
    BY <1>9, <2>1, <2>2, <2>3, <2>4, BeforeOrders
<1>11. Pa!TypeOK'
  <2>1. page.cursor # None =>
          page.cursor.filter \in Filters /\ page.cursor.after \in Pa!Entry
    BY <1>1, <1>4
  <2> QED
    BY <1>2, <1>5, <2>1 DEF PageInv, Pa!TypeOK
<1>12. PagesDescend'
  <2>1. ASSUME NEW j \in 1..(m + n), NEW k \in 1..(m + n), j < k
        PROVE  Pa!Before(entries'[k], entries'[j])
    <3>1. CASE k \in 1..m
      BY <1>4, <1>5, <2>1, <3>1 DEF PageInv, PagesDescend
    <3>2. CASE j \in 1..m /\ k - m \in 1..n
      <4>1. entries'[k] = items[k - m] /\ entries'[j] = entries[j]
        BY <1>5, <1>6, <3>2
      <4> QED
        BY <1>10, <3>2, <4>1
    <3>3. CASE j - m \in 1..n /\ k - m \in 1..n
      <4>1. entries'[j] = items[j - m] /\ entries'[k] = items[k - m] /\ j - m < k - m
        <5>1. m + (j - m) = j /\ m + (k - m) = k /\ j - m < k - m
          BY <1>4, <2>1
        <5> QED
          BY <1>5, <3>3, <5>1
      <4> QED
        BY <1>1, <3>3, <4>1
    <3> QED
      BY <1>4, <1>6, <2>1, <3>1, <3>2, <3>3
  <2>2. ASSUME page.cursor # None
        PROVE  /\ page.cursor.filter = f /\ m + n > 0
               /\ page.cursor.after = entries'[m + n]
    BY <1>1, <1>4, <1>5, <2>2
  <2>3. stage' # "start"
    BY <1>2
  <2> QED
    BY <1>2, <1>5, <2>1, <2>2, <2>3 DEF PagesDescend
<1>13. ASSUME NEW i \in Ids \ touched
       PROVE  /\ \A k \in 1..(m + n) :
                   entries'[k].id = i => entries'[k] = Pa!EntryOf(i) /\ Pa!Matches(table[i], f)
              /\ Pa!Matches(table[i], f) =>
                   \/ \E k \in 1..(m + n) : entries'[k] = Pa!EntryOf(i)
                   \/ page.cursor # None /\ Pa!Before(Pa!EntryOf(i), page.cursor.after)
  <2>1. ASSUME NEW k \in 1..m, entries[k].id = i
        PROVE  entries[k] = Pa!EntryOf(i) /\ Pa!Matches(table[i], f)
    BY <1>4, <2>1 DEF PageInv, PagesDescend, UnchangedListed
  <2>2. ASSUME NEW k \in 1..n, items[k].id = i
        PROVE  items[k] = Pa!EntryOf(i) /\ Pa!Matches(table[i], f)
    <3>1. PICK j \in Ids : items[k] = Pa!EntryOf(j) /\ Pa!Matches(table[j], f)
      BY <1>3, <1>4
    <3> QED
      BY <1>7, <2>2, <3>1
  <2>3. ASSUME NEW k \in 1..(m + n), entries'[k].id = i
        PROVE  entries'[k] = Pa!EntryOf(i) /\ Pa!Matches(table[i], f)
    <3>1. CASE k \in 1..m
      BY <1>5, <2>1, <2>3, <3>1
    <3>2. CASE k - m \in 1..n
      <4>1. entries'[k] = items[k - m]
        BY <1>5, <1>6, <3>2
      <4> QED
        BY <2>2, <2>3, <3>2, <4>1
    <3> QED
      BY <1>6, <3>1, <3>2
  <2>4. ASSUME Pa!Matches(table[i], f)
        PROVE  \/ \E k \in 1..(m + n) : entries'[k] = Pa!EntryOf(i)
               \/ page.cursor # None /\ Pa!Before(Pa!EntryOf(i), page.cursor.after)
    <3>1. CASE Pa!EntryOf(i) \in rest
      <4>1. ASSUME NEW k \in 1..n, items[k] = Pa!EntryOf(i)
            PROVE  \E l \in 1..(m + n) : entries'[l] = Pa!EntryOf(i)
        <5>1. m + k \in 1..(m + n) /\ entries'[m + k] = Pa!EntryOf(i)
          BY <1>4, <1>5, <4>1
        <5> QED
          BY <5>1
      <4> QED
        BY <1>1, <3>1, <4>1
    <3>2. CASE Pa!EntryOf(i) \notin rest
      <4>1. after # None /\ ~Pa!Before(Pa!EntryOf(i), after)
        BY <1>3, <2>4, <3>2
      <4>2. PICK k \in 1..m : entries[k] = Pa!EntryOf(i)
        BY <1>9, <2>4, <4>1 DEF PageInv, UnchangedListed
      <4>3. k \in 1..(m + n) /\ entries'[k] = Pa!EntryOf(i)
        BY <1>4, <1>5, <4>2
      <4> QED
        BY <4>3
    <3> QED
      BY <3>1, <3>2
  <2> QED
    BY <2>3, <2>4
<1>14. UnchangedListed'
  <2>1. \A i \in Ids : Pa!Matches(table'[i], filter') <=> Pa!Matches(table[i], f)
    BY <1>2
  <2>2. stage' # "start" /\ (page.cursor # None => stage' = "listing")
    BY <1>2
  <2> QED
    BY <1>2, <1>5, <1>7, <1>13, <2>1, <2>2 DEF UnchangedListed
<1> QED
  BY <1>11, <1>12, <1>14 DEF PageInv

\* A row that changes is no longer an unchanged one.
LEMMA RowsChange ==
  ASSUME PageInv, NEW i \in Ids, Pa!Changes(i)
  PROVE  PageInv'
<1>1. PICK content \in RowContents : table' = [table EXCEPT ![i] = content]
  BY DEF Pa!Changes
<1>2. touched' = touched \cup {i} /\ UNCHANGED <<filter, nextCursor, entries, stage>>
  BY DEF Pa!Changes
<1>3. Pa!TypeOK'
  BY <1>1, <1>2 DEF PageInv, Pa!TypeOK
<1>4. PagesDescend'
  BY <1>2 DEF PageInv, PagesDescend, Pa!Before
<1>5. \A j \in Ids \ touched' : table'[j] = table[j] /\ j \in Ids \ touched
  BY <1>1, <1>2 DEF PageInv, Pa!TypeOK
<1>6. \A j \in Ids \ touched' : Pa!EntryOf(j)' = Pa!EntryOf(j)
  BY <1>5 DEF Pa!EntryOf
<1>7. UnchangedListed'
  BY <1>2, <1>5, <1>6 DEF PageInv, UnchangedListed
<1> QED
  BY <1>3, <1>4, <1>7 DEF PageInv

\* Every step of the lists keeps PageInv, and so do the other parts' steps.
LEMMA PageStep == PageInv /\ [ReportsNext]_allReadVars => PageInv'
<1> SUFFICES ASSUME PageInv, [ReportsNext]_allReadVars PROVE PageInv'
  OBVIOUS
<1>1. CASE UNCHANGED pageVars
  BY <1>1 DEF pageVars, PageInv, Pa!TypeOK, PagesDescend, UnchangedListed, Pa!EntryOf
<1>2. ASSUME NEW f \in Filters, NEW size \in PageSizes, Pa!FirstPage(f, size) PROVE PageInv'
  BY <1>2, PageReceived DEF Pa!FirstPage
<1>3. ASSUME NEW f \in Filters, NEW size \in PageSizes, Pa!NextPage(f, size) PROVE PageInv'
  <2>1. nextCursor.after \in Pa!Entry /\ filter = f
    BY <1>3 DEF Pa!NextPage, Pa!Decoded, PageInv, Pa!TypeOK, PagesDescend
  <2> QED
    BY <1>3, <2>1, PageReceived DEF Pa!NextPage
<1>4. CASE Pa!Next
  BY <1>2, <1>3, <1>4, RowsChange DEF Pa!Next
<1> QED
  BY <1>1, <1>4 DEF ReportsNext, readVars, allReadVars

LEMMA PagesInit == Pa!Init => PageInv
<1> SUFFICES ASSUME Pa!Init PROVE PageInv
  OBVIOUS
<1>1. entries = <<>> /\ Len(entries) = 0 /\ 1..0 = {}
  BY DEF Pa!Init
<1> QED
  BY <1>1 DEF Pa!Init, PageInv, Pa!TypeOK, PagesDescend, UnchangedListed

\* PageInv says that an unchanged row is listed once.
LEMMA ListedOnce == PageInv => Pa!ListingIsSound
<1> SUFFICES ASSUME PageInv PROVE Pa!ListingIsSound
  OBVIOUS
<1> DEFINE m == Len(entries)
           places(i) == {n \in DOMAIN entries : entries[n].id = i}
<1>1. entries \in Seq(Pa!Entry) /\ m \in Nat /\ DOMAIN entries = 1..m
      /\ \A n \in 1..m : entries[n] \in Pa!Entry
  BY DEF PageInv, Pa!TypeOK
<1>2. \A n \in 1..(m - 1) : Pa!Before(entries[n + 1], entries[n])
  <2> SUFFICES ASSUME NEW n \in 1..(m - 1) PROVE Pa!Before(entries[n + 1], entries[n])
    OBVIOUS
  <2>1. n \in 1..m /\ n + 1 \in 1..m /\ n < n + 1
    BY <1>1
  <2> QED
    BY <2>1 DEF PageInv, PagesDescend
<1>3. ASSUME NEW i \in Ids \ touched
      PROVE  /\ Cardinality(places(i)) <= 1
             /\ Cardinality(places(i)) = 1 => Pa!Matches(table[i], filter)
             /\ stage = "over" /\ Pa!Matches(table[i], filter) => Cardinality(places(i)) = 1
  <2>1. ASSUME NEW j \in places(i), NEW k \in places(i) PROVE j = k
    <3>1. entries[j] = entries[k] /\ j \in 1..m /\ k \in 1..m
      BY <1>1 DEF PageInv, UnchangedListed
    <3>2. ~(j < k) /\ ~(k < j)
      BY <1>1, <3>1, BeforeOrders DEF PageInv, PagesDescend
    <3> QED
      BY <1>1, <3>1, <3>2
  <2>2. CASE places(i) = {}
    <3>1. Cardinality(places(i)) = 0
      BY <2>2, FS_EmptySet
    <3>2. ~(\E n \in 1..m : entries[n] = Pa!EntryOf(i))
      BY <1>1, <2>2 DEF Pa!EntryOf
    <3>3. ~(stage = "over" /\ Pa!Matches(table[i], filter))
      BY <3>2 DEF PageInv, UnchangedListed
    <3> QED
      BY <3>1, <3>3
  <2>3. CASE places(i) # {}
    <3>1. PICK n \in places(i) : TRUE
      BY <2>3
    <3>2. places(i) = {n}
      BY <2>1, <3>1
    <3>3. Cardinality(places(i)) = 1
      BY <3>2, FS_Singleton
    <3>4. Pa!Matches(table[i], filter)
      BY <1>1, <3>1 DEF PageInv, UnchangedListed
    <3> QED
      BY <3>3, <3>4
  <2> QED
    BY <2>2, <2>3
<1> QED
  BY <1>2, <1>3, SameCardinality DEF Pa!ListingIsSound

\* A list read page by page descends, and has each row that did not change meanwhile and
\* matches once, and no other one, for any rows, filters, page sizes and changes.
THEOREM ListedPageByPage == ReportsSpec => []ListingIsSound
<1>1. ReportsInit => PageInv
  BY PagesInit DEF ReportsInit
<1>2. PageInv => ListingIsSound
  BY ListedOnce DEF PageInv, ListingIsSound
<1>3. PageInv /\ [ReportsNext]_<<vars, scene, readVars, part>> => PageInv'
  BY PageStep DEF allReadVars
<1> QED
  BY <1>1, <1>2, <1>3, PTL DEF ReportsSpec
-----------------------------------------------------------------------------
(***************************************************************************)
(* The calendar.  Months are followed one by one from the first of          *)
(* FirstYear: their first days ascend, and each day is in one of them.      *)
(***************************************************************************)

Month == {m \in Int : m >= 12 * FirstYear}
LeapYears(y) == Cardinality({x \in FirstYear..(y - 1) : Pe!Leap(x)})
InMonth(d, m) == Pe!FirstDay(m) <= d /\ d < Pe!FirstDay(m) + Pe!LastDay(m)

LEMMA LeapCount ==
  ASSUME NEW y \in Int, y >= FirstYear
  PROVE  /\ LeapYears(y) \in Nat
         /\ LeapYears(y + 1) = LeapYears(y) + (IF Pe!Leap(y) THEN 1 ELSE 0)
<1> USE PeriodAssumption
<1> DEFINE before == {x \in FirstYear..(y - 1) : Pe!Leap(x)}
           upTo == {x \in FirstYear..((y + 1) - 1) : Pe!Leap(x)}
<1>1. IsFiniteSet(before)
  <2>1. IsFiniteSet(FirstYear..(y - 1))
    BY FS_Interval
  <2> QED
    BY <2>1, FS_Subset
<1>2. upTo = before \cup (IF Pe!Leap(y) THEN {y} ELSE {})
  <2>1. \A x : x \in FirstYear..((y + 1) - 1) <=> x \in FirstYear..(y - 1) \/ x = y
    OBVIOUS
  <2> QED
    BY <2>1
<1>3. y \notin before
  OBVIOUS
<1> HIDE DEF before, upTo
<1>4. Cardinality(before) \in Nat
  BY <1>1, FS_CardinalityType
<1>5. Cardinality(upTo) = Cardinality(before) + (IF Pe!Leap(y) THEN 1 ELSE 0)
  <2>1. CASE Pe!Leap(y)
    <3>1. upTo = before \cup {y}
      BY <1>2, <2>1
    <3>2. Cardinality(before \cup {y}) = Cardinality(before) + 1
      BY <1>1, <1>3, FS_AddElement
    <3> QED
      BY <2>1, <3>1, <3>2
  <2>2. CASE ~Pe!Leap(y)
    <3>1. upTo = before
      BY <1>2, <2>2
    <3> QED
      BY <1>4, <2>2, <3>1
  <2> QED
    BY <2>1, <2>2
<1> QED
  BY <1>4, <1>5 DEF LeapYears, before, upTo

\* The month of a year and its place in it.
LEMMA MonthParts ==
  /\ \A y \in Int, k \in 0..11 : (12 * y + k) \div 12 = y /\ (12 * y + k) % 12 = k
  /\ \A m \in Int : m \div 12 \in Int /\ m % 12 \in 0..11 /\ m = 12 * (m \div 12) + (m % 12)
OBVIOUS

\* The first days of the months of a year, and their lengths.
LEMMA YearOfMonths ==
  ASSUME NEW y \in Int, y >= FirstYear
  PROVE  LET base == 1 + 365 * (y - FirstYear) + LeapYears(y)
             leap == IF Pe!Leap(y) THEN 1 ELSE 0
         IN /\ Pe!FirstDay(12 * y + 0) = base       /\ Pe!LastDay(12 * y + 0) = 31
            /\ Pe!FirstDay(12 * y + 1) = base + 31  /\ Pe!LastDay(12 * y + 1) = 28 + leap
            /\ Pe!FirstDay(12 * y + 2) = base + 59 + leap  /\ Pe!LastDay(12 * y + 2) = 31
            /\ Pe!FirstDay(12 * y + 3) = base + 90 + leap  /\ Pe!LastDay(12 * y + 3) = 30
            /\ Pe!FirstDay(12 * y + 4) = base + 120 + leap /\ Pe!LastDay(12 * y + 4) = 31
            /\ Pe!FirstDay(12 * y + 5) = base + 151 + leap /\ Pe!LastDay(12 * y + 5) = 30
            /\ Pe!FirstDay(12 * y + 6) = base + 181 + leap /\ Pe!LastDay(12 * y + 6) = 31
            /\ Pe!FirstDay(12 * y + 7) = base + 212 + leap /\ Pe!LastDay(12 * y + 7) = 31
            /\ Pe!FirstDay(12 * y + 8) = base + 243 + leap /\ Pe!LastDay(12 * y + 8) = 30
            /\ Pe!FirstDay(12 * y + 9) = base + 273 + leap /\ Pe!LastDay(12 * y + 9) = 31
            /\ Pe!FirstDay(12 * y + 10) = base + 304 + leap /\ Pe!LastDay(12 * y + 10) = 30
            /\ Pe!FirstDay(12 * y + 11) = base + 334 + leap /\ Pe!LastDay(12 * y + 11) = 31
<1> DEFINE base == 1 + 365 * (y - FirstYear) + LeapYears(y)
           leap == IF Pe!Leap(y) THEN 1 ELSE 0
           before == <<0, 31, 59, 90, 120, 151, 181, 212, 243, 273, 304, 334>>
<1>1. LeapYears(y) \in Nat /\ FirstYear \in Int
  BY LeapCount, PeriodAssumption
<1>2. ASSUME NEW k \in 0..11
      PROVE  /\ Pe!FirstDay(12 * y + k) = base + before[k + 1]
                                          + (IF k > 1 /\ Pe!Leap(y) THEN 1 ELSE 0)
             /\ Pe!LastDay(12 * y + k) = Pe!DaysIn(y, k + 1)
  <2>1. (12 * y + k) \div 12 = y /\ (12 * y + k) % 12 = k
    BY MonthParts
  <2>2. Pe!Cardinality({x \in FirstYear..(y - 1) : Pe!Leap(x)}) = LeapYears(y)
    BY SameCardinality DEF LeapYears
  <2> DEFINE m == 12 * y + k
  <2> HIDE DEF m
  <2>3. m \div 12 = y /\ m % 12 = k
    BY <2>1 DEF m
  <2>4. /\ Pe!FirstDay(m) = 1 + 365 * (y - FirstYear)
              + Pe!Cardinality({x \in FirstYear..(y - 1) : Pe!Leap(x)})
              + before[k + 1] + (IF k > 1 /\ Pe!Leap(y) THEN 1 ELSE 0)
        /\ Pe!LastDay(m) = Pe!DaysIn(y, k + 1)
    BY <2>3 DEF Pe!FirstDay, Pe!LastDay
  <2> QED
    BY <2>2, <2>4 DEF m
<1> HIDE DEF base
<1>3. base \in Int
  BY <1>1 DEF base
<1>4. /\ before[0 + 1] = 0 /\ before[1 + 1] = 31 /\ before[2 + 1] = 59 /\ before[3 + 1] = 90
      /\ before[4 + 1] = 120 /\ before[5 + 1] = 151 /\ before[6 + 1] = 181 /\ before[7 + 1] = 212
      /\ before[8 + 1] = 243 /\ before[9 + 1] = 273 /\ before[10 + 1] = 304 /\ before[11 + 1] = 334
  OBVIOUS
<1>5. /\ Pe!DaysIn(y, 0 + 1) = 31 /\ Pe!DaysIn(y, 1 + 1) = 28 + leap
      /\ Pe!DaysIn(y, 2 + 1) = 31 /\ Pe!DaysIn(y, 3 + 1) = 30
      /\ Pe!DaysIn(y, 4 + 1) = 31 /\ Pe!DaysIn(y, 5 + 1) = 30
      /\ Pe!DaysIn(y, 6 + 1) = 31 /\ Pe!DaysIn(y, 7 + 1) = 31
      /\ Pe!DaysIn(y, 8 + 1) = 30 /\ Pe!DaysIn(y, 9 + 1) = 31
      /\ Pe!DaysIn(y, 10 + 1) = 30 /\ Pe!DaysIn(y, 11 + 1) = 31
  BY DEF Pe!DaysIn
<1> HIDE DEF before
<1>6. /\ 0 \in 0..11 /\ 1 \in 0..11 /\ 2 \in 0..11 /\ 3 \in 0..11 /\ 4 \in 0..11 /\ 5 \in 0..11
      /\ 6 \in 0..11 /\ 7 \in 0..11 /\ 8 \in 0..11 /\ 9 \in 0..11 /\ 10 \in 0..11 /\ 11 \in 0..11
  OBVIOUS
<1>7. /\ Pe!FirstDay(12 * y + 0) = base       /\ Pe!LastDay(12 * y + 0) = 31
      /\ Pe!FirstDay(12 * y + 1) = base + 31  /\ Pe!LastDay(12 * y + 1) = 28 + leap
      /\ Pe!FirstDay(12 * y + 2) = base + 59 + leap  /\ Pe!LastDay(12 * y + 2) = 31
      /\ Pe!FirstDay(12 * y + 3) = base + 90 + leap  /\ Pe!LastDay(12 * y + 3) = 30
  BY <1>2, <1>3, <1>4, <1>5, <1>6
<1>8. /\ Pe!FirstDay(12 * y + 4) = base + 120 + leap /\ Pe!LastDay(12 * y + 4) = 31
      /\ Pe!FirstDay(12 * y + 5) = base + 151 + leap /\ Pe!LastDay(12 * y + 5) = 30
      /\ Pe!FirstDay(12 * y + 6) = base + 181 + leap /\ Pe!LastDay(12 * y + 6) = 31
      /\ Pe!FirstDay(12 * y + 7) = base + 212 + leap /\ Pe!LastDay(12 * y + 7) = 31
  BY <1>2, <1>3, <1>4, <1>5, <1>6
<1>9. /\ Pe!FirstDay(12 * y + 8) = base + 243 + leap /\ Pe!LastDay(12 * y + 8) = 30
      /\ Pe!FirstDay(12 * y + 9) = base + 273 + leap /\ Pe!LastDay(12 * y + 9) = 31
      /\ Pe!FirstDay(12 * y + 10) = base + 304 + leap /\ Pe!LastDay(12 * y + 10) = 30
      /\ Pe!FirstDay(12 * y + 11) = base + 334 + leap /\ Pe!LastDay(12 * y + 11) = 31
  BY <1>2, <1>3, <1>4, <1>5, <1>6
<1> QED
  BY <1>7, <1>8, <1>9 DEF base

\* A month's successor begins when it ends; the same months of two years.
LEMMA MonthsFollow ==
  ASSUME NEW m \in Month
  PROVE  /\ Pe!FirstDay(m) \in Int /\ Pe!LastDay(m) \in 28..31
         /\ Pe!FirstDay(m + 1) = Pe!FirstDay(m) + Pe!LastDay(m)
         /\ \/ Pe!FirstDay(m + 12) - Pe!FirstDay(m) \in {365, 366}
               /\ Pe!LastDay(m + 12) <= Pe!LastDay(m)
            \/ Pe!FirstDay(m + 12) - Pe!FirstDay(m) = 365
               /\ Pe!LastDay(m + 12) = Pe!LastDay(m) + 1
<1> DEFINE y == m \div 12
           k == m % 12
<1>1. /\ y \in Int /\ k \in 0..11 /\ m = 12 * y + k /\ y >= FirstYear
      /\ FirstYear \in Int
  BY MonthParts, PeriodAssumption DEF Month
<1> HIDE DEF y, k
<1>2. /\ y + 1 \in Int /\ y + 1 >= FirstYear /\ LeapYears(y) \in Nat /\ LeapYears(y + 1) \in Nat
      /\ LeapYears(y + 1) = LeapYears(y) + (IF Pe!Leap(y) THEN 1 ELSE 0)
  BY <1>1, LeapCount
<1> DEFINE base == 1 + 365 * (y - FirstYear) + LeapYears(y)
           leap == IF Pe!Leap(y) THEN 1 ELSE 0
           base2 == 1 + 365 * ((y + 1) - FirstYear) + LeapYears(y + 1)
           leap2 == IF Pe!Leap(y + 1) THEN 1 ELSE 0
<1>3. base \in Int /\ base2 = base + 365 + leap /\ leap \in 0..1 /\ leap2 \in 0..1
  BY <1>1, <1>2
<1> HIDE DEF base, leap, base2, leap2
<1>4. /\ Pe!FirstDay(12 * y + 0) = base       /\ Pe!LastDay(12 * y + 0) = 31
      /\ Pe!FirstDay(12 * y + 1) = base + 31  /\ Pe!LastDay(12 * y + 1) = 28 + leap
      /\ Pe!FirstDay(12 * y + 2) = base + 59 + leap  /\ Pe!LastDay(12 * y + 2) = 31
      /\ Pe!FirstDay(12 * y + 3) = base + 90 + leap  /\ Pe!LastDay(12 * y + 3) = 30
      /\ Pe!FirstDay(12 * y + 4) = base + 120 + leap /\ Pe!LastDay(12 * y + 4) = 31
      /\ Pe!FirstDay(12 * y + 5) = base + 151 + leap /\ Pe!LastDay(12 * y + 5) = 30
      /\ Pe!FirstDay(12 * y + 6) = base + 181 + leap /\ Pe!LastDay(12 * y + 6) = 31
      /\ Pe!FirstDay(12 * y + 7) = base + 212 + leap /\ Pe!LastDay(12 * y + 7) = 31
      /\ Pe!FirstDay(12 * y + 8) = base + 243 + leap /\ Pe!LastDay(12 * y + 8) = 30
      /\ Pe!FirstDay(12 * y + 9) = base + 273 + leap /\ Pe!LastDay(12 * y + 9) = 31
      /\ Pe!FirstDay(12 * y + 10) = base + 304 + leap /\ Pe!LastDay(12 * y + 10) = 30
      /\ Pe!FirstDay(12 * y + 11) = base + 334 + leap /\ Pe!LastDay(12 * y + 11) = 31
  BY <1>1, YearOfMonths DEF base, leap
<1>5. /\ Pe!FirstDay(12 * (y + 1) + 0) = base2      /\ Pe!LastDay(12 * (y + 1) + 0) = 31
      /\ Pe!FirstDay(12 * (y + 1) + 1) = base2 + 31 /\ Pe!LastDay(12 * (y + 1) + 1) = 28 + leap2
      /\ Pe!FirstDay(12 * (y + 1) + 2) = base2 + 59 + leap2  /\ Pe!LastDay(12 * (y + 1) + 2) = 31
      /\ Pe!FirstDay(12 * (y + 1) + 3) = base2 + 90 + leap2  /\ Pe!LastDay(12 * (y + 1) + 3) = 30
      /\ Pe!FirstDay(12 * (y + 1) + 4) = base2 + 120 + leap2 /\ Pe!LastDay(12 * (y + 1) + 4) = 31
      /\ Pe!FirstDay(12 * (y + 1) + 5) = base2 + 151 + leap2 /\ Pe!LastDay(12 * (y + 1) + 5) = 30
      /\ Pe!FirstDay(12 * (y + 1) + 6) = base2 + 181 + leap2 /\ Pe!LastDay(12 * (y + 1) + 6) = 31
      /\ Pe!FirstDay(12 * (y + 1) + 7) = base2 + 212 + leap2 /\ Pe!LastDay(12 * (y + 1) + 7) = 31
      /\ Pe!FirstDay(12 * (y + 1) + 8) = base2 + 243 + leap2 /\ Pe!LastDay(12 * (y + 1) + 8) = 30
      /\ Pe!FirstDay(12 * (y + 1) + 9) = base2 + 273 + leap2 /\ Pe!LastDay(12 * (y + 1) + 9) = 31
      /\ Pe!FirstDay(12 * (y + 1) + 10) = base2 + 304 + leap2 /\ Pe!LastDay(12 * (y + 1) + 10) = 30
      /\ Pe!FirstDay(12 * (y + 1) + 11) = base2 + 334 + leap2 /\ Pe!LastDay(12 * (y + 1) + 11) = 31
  BY <1>2, YearOfMonths DEF base2, leap2
<1>6. /\ 12 * y + 12 = 12 * (y + 1) + 0
      /\ \A j \in 0..11 : (12 * y + j) + 12 = 12 * (y + 1) + j /\ (12 * y + j) + 1 = 12 * y + (j + 1)
  BY <1>1
<1> QED
  BY <1>1, <1>3, <1>4, <1>5, <1>6
\* Months ascend, and are 28 to 31 days apart.
LEMMA MonthsAscend ==
  /\ \A m \in Month, n \in Nat :
       28 * n <= Pe!FirstDay(m + n) - Pe!FirstDay(m) /\ Pe!FirstDay(m + n) - Pe!FirstDay(m) <= 31 * n
  /\ \A m, o \in Month : m < o => Pe!FirstDay(m) + Pe!LastDay(m) <= Pe!FirstDay(o)
<1> DEFINE Apart(m, n) == /\ 28 * n <= Pe!FirstDay(m + n) - Pe!FirstDay(m)
                          /\ Pe!FirstDay(m + n) - Pe!FirstDay(m) <= 31 * n
<1>1. ASSUME NEW m \in Month, NEW n \in Nat PROVE m + n \in Month /\ (m + n) + 1 = m + (n + 1)
  BY PeriodAssumption DEF Month
<1>2. ASSUME NEW m \in Month, NEW n \in Nat PROVE Apart(m, n)
  <2> DEFINE without == {k \in Nat : ~Apart(m, k)}
  <2>1. SUFFICES ASSUME without # {} PROVE FALSE
    OBVIOUS
  <2>2. PICK k \in without : \A j \in without : ~(j < k)
    BY <2>1, Least
  <2>3. k # 0
    <3>1. Pe!FirstDay(m) \in Int /\ m + 0 = m
      BY MonthsFollow DEF Month
    <3> QED
      BY <2>2, <3>1
  <2>4. k - 1 \in Nat /\ Apart(m, k - 1) /\ (k - 1) + 1 = k
    BY <2>2, <2>3
  <2>5. m + (k - 1) \in Month /\ (m + (k - 1)) + 1 = m + k
    BY <1>1, <2>4
  <2>6. /\ Pe!FirstDay(m + k) = Pe!FirstDay(m + (k - 1)) + Pe!LastDay(m + (k - 1))
        /\ Pe!FirstDay(m + (k - 1)) \in Int /\ Pe!LastDay(m + (k - 1)) \in 28..31
        /\ Pe!FirstDay(m) \in Int
    BY <2>5, MonthsFollow
  <2>7. Apart(m, k)
    BY <2>4, <2>6
  <2> QED
    BY <2>2, <2>7
<1>3. ASSUME NEW m \in Month, NEW o \in Month, m < o
      PROVE  Pe!FirstDay(m) + Pe!LastDay(m) <= Pe!FirstDay(o)
  <2>1. m + 1 \in Month /\ o - (m + 1) \in Nat /\ (m + 1) + (o - (m + 1)) = o
    BY <1>3, PeriodAssumption DEF Month
  <2>2. 28 * (o - (m + 1)) <= Pe!FirstDay(o) - Pe!FirstDay(m + 1)
    <3>1. Apart(m + 1, o - (m + 1))
      BY <1>2, <2>1
    <3> QED
      BY <2>1, <3>1
  <2>3. 28 * (o - (m + 1)) >= 0
    BY <2>1
  <2>4. /\ Pe!FirstDay(m + 1) = Pe!FirstDay(m) + Pe!LastDay(m) /\ Pe!FirstDay(m) \in Int
        /\ Pe!LastDay(m) \in Int /\ Pe!FirstDay(o) \in Int /\ 28 * (o - (m + 1)) \in Int
    BY <2>1, MonthsFollow
  <2> QED
    BY <2>2, <2>3, <2>4
<1> QED
  BY <1>2, <1>3

\* The first month begins on day 1.
LEMMA FirstMonth == 12 * FirstYear \in Month /\ Pe!FirstDay(12 * FirstYear) = 1
<1>1. FirstYear \in Int /\ FirstYear >= FirstYear
  BY PeriodAssumption
<1>2. Pe!FirstDay(12 * FirstYear + 0) = 1 + 365 * (FirstYear - FirstYear) + LeapYears(FirstYear)
  BY <1>1, YearOfMonths
<1>3. LeapYears(FirstYear) = 0
  <2>1. {x \in FirstYear..(FirstYear - 1) : Pe!Leap(x)} = {}
    BY <1>1
  <2> QED
    BY <2>1, FS_EmptySet DEF LeapYears
<1> QED
  BY <1>1, <1>2, <1>3 DEF Month

\* Each day is in a month, and in no other one.
LEMMA DayHasMonth ==
  /\ \A d \in Int : d >= 1 => \E m \in Month : InMonth(d, m)
  /\ \A d \in Int, m \in Month :
       InMonth(d, m) => Pe!MonthOf(d) = m /\ Pe!DayOf(d) = d - Pe!FirstDay(m) + 1
<1>1. \A m \in Month : Pe!FirstDay(m) \in Int /\ Pe!LastDay(m) \in 28..31 /\ m \in Int
  BY MonthsFollow DEF Month
<1>2. ASSUME NEW d \in Int, d >= 1 PROVE \E m \in Month : InMonth(d, m)
  <2> DEFINE m0 == 12 * FirstYear
             beyond == {n \in Nat : d < Pe!FirstDay(m0 + n)}
  <2>1. m0 \in Month /\ Pe!FirstDay(m0) = 1 /\ \A n \in Nat : m0 + n \in Month
    BY FirstMonth, PeriodAssumption DEF Month
  <2> HIDE DEF m0
  <2>2. d \in Nat /\ d \in beyond
    <3>1. d \in Nat
      BY <1>2
    <3>2. 28 * d <= Pe!FirstDay(m0 + d) - Pe!FirstDay(m0)
      BY <2>1, <3>1, MonthsAscend
    <3>3. Pe!FirstDay(m0 + d) \in Int
      BY <1>1, <2>1, <3>1
    <3> QED
      BY <1>2, <2>1, <3>1, <3>2, <3>3
  <2>3. PICK n \in beyond : \A k \in beyond : ~(k < n)
    BY <2>2, Least
  <2>4. n # 0
    BY <1>2, <2>1, <2>3, m0 + 0 = m0 DEF Month
  <2>5. n - 1 \in Nat /\ n - 1 \notin beyond /\ m0 + (n - 1) \in Month /\ (m0 + (n - 1)) + 1 = m0 + n
    BY <2>1, <2>3, <2>4 DEF Month
  <2>6. Pe!FirstDay(m0 + n) = Pe!FirstDay(m0 + (n - 1)) + Pe!LastDay(m0 + (n - 1))
    BY <2>5, MonthsFollow
  <2>7. InMonth(d, m0 + (n - 1))
    BY <1>1, <2>3, <2>5, <2>6 DEF InMonth
  <2> QED
    BY <2>5, <2>7
<1>3. ASSUME NEW d \in Int, NEW m \in Month, InMonth(d, m)
      PROVE  Pe!MonthOf(d) = m /\ Pe!DayOf(d) = d - Pe!FirstDay(m) + 1
  <2> DEFINE range == 12 * FirstYear + (d - 1) \div 31 .. 12 * FirstYear + d \div 28
             holds(k) == d \in Pe!FirstDay(k)..(Pe!FirstDay(k) + Pe!LastDay(k) - 1)
  <2>1. \A k \in Month : holds(k) <=> InMonth(d, k)
    BY <1>1 DEF InMonth
  <2>2. d >= 1 /\ m - 12 * FirstYear \in Nat
        /\ 28 * (m - 12 * FirstYear) <= d - 1 /\ d - 1 <= 31 * (m - 12 * FirstYear) + 30
    <3>1. m - 12 * FirstYear \in Nat /\ 12 * FirstYear + (m - 12 * FirstYear) = m
      BY PeriodAssumption DEF Month
    <3>2. /\ 28 * (m - 12 * FirstYear) <= Pe!FirstDay(m) - 1
          /\ Pe!FirstDay(m) - 1 <= 31 * (m - 12 * FirstYear)
      BY <3>1, FirstMonth, MonthsAscend
    <3> QED
      BY <1>1, <1>3, <3>1, <3>2 DEF InMonth
  <2>3. (d - 1) \div 31 <= m - 12 * FirstYear /\ m - 12 * FirstYear <= d \div 28
        /\ (d - 1) \div 31 \in Nat /\ d \div 28 \in Nat
    <3> DEFINE n == m - 12 * FirstYear
    <3>1. n \in Nat /\ d \in Nat /\ 28 * n <= d - 1 /\ d - 1 <= 31 * n + 30 /\ d >= 1
      BY <2>2
    <3> HIDE DEF n
    <3>2. (d - 1) \div 31 <= n /\ n <= d \div 28 /\ (d - 1) \div 31 \in Nat /\ d \div 28 \in Nat
      BY <3>1
    <3> QED
      BY <3>2 DEF n
  <2>4. m \in range /\ range \subseteq Month
    BY <2>3, PeriodAssumption DEF Month
  <2>5. \A k \in Month : InMonth(d, k) => k = m
    <3> SUFFICES ASSUME NEW k \in Month, InMonth(d, k) PROVE k = m
      OBVIOUS
    <3>1. ~(k < m) /\ ~(m < k)
      BY <1>1, <1>3, MonthsAscend DEF InMonth
    <3> QED
      BY <1>1, <3>1
  <2>6. \A k \in range : holds(k) <=> k = m
    BY <1>3, <2>1, <2>4, <2>5
  <2>7. Pe!MonthOf(d) = CHOOSE k \in range : holds(k)
    BY DEF Pe!MonthOf
  <2> HIDE DEF range, holds
  <2>8. Pe!MonthOf(d) = m
    BY <2>4, <2>6, <2>7
  <2> QED
    BY <2>8 DEF Pe!DayOf
<1> QED
  BY <1>2, <1>3
-----------------------------------------------------------------------------
(***************************************************************************)
(* Comparisons.  Back is the shift of a day by months, to the same day of   *)
(* an earlier month or to its last.                                         *)
(***************************************************************************)

Back(d, k) ==
    Pe!FirstDay(Pe!MonthOf(d) - k)
      + (IF Pe!DayOf(d) <= Pe!LastDay(Pe!MonthOf(d) - k)
           THEN Pe!DayOf(d) ELSE Pe!LastDay(Pe!MonthOf(d) - k)) - 1

\* A request as it can be made: its days, and those a year before, are in the calendar.
Asked ==
    /\ request.mode \in Pe!Mode /\ request.sameElapsed \in BOOLEAN
    /\ request.from \in Pe!Days /\ request.from > 367
    /\ request.to \in Pe!Days /\ request.to >= request.from - 1
    /\ request.custom = None \/ request.custom \in [from : Pe!Days, to : Pe!Days]

PeriodInv ==
    part = "periods" =>
      /\ Asked
      /\ answered \in BOOLEAN
      /\ ranges = IF answered THEN Pe!Normalized(request) ELSE None

-----------------------------------------------------------------------------
LEMMA LesserOf ==
  ASSUME NEW m \in Int, NEW n \in Int
  PROVE  Pe!Min({m, n}) = IF m <= n THEN m ELSE n
<1>1. CASE m <= n
  <2>1. \A x \in {m, n} : (\A y \in {m, n} : x <= y) => x = m
    BY <1>1
  <2>2. m \in {m, n} /\ \A y \in {m, n} : m <= y
    BY <1>1
  <2> QED
    BY <1>1, <2>1, <2>2 DEF Pe!Min
<1>2. CASE ~(m <= n)
  <2>1. \A x \in {m, n} : (\A y \in {m, n} : x <= y) => x = n
    BY <1>2
  <2>2. n \in {m, n} /\ \A y \in {m, n} : n <= y
    BY <1>2
  <2> QED
    BY <1>2, <2>1, <2>2 DEF Pe!Min
<1> QED
  BY <1>1, <1>2

\* The shifts of the code are by a month and by twelve.
LEMMA ShiftsGoBack ==
  ASSUME NEW d \in Int, NEW m \in Month, InMonth(d, m)
  PROVE  /\ m - 1 \in Month => Pe!shiftMonth(d, -1) = Back(d, 1)
         /\ m - 12 \in Month => Pe!shiftYear(d, -1) = Back(d, 12)
<1>1. Pe!MonthOf(d) = m /\ Pe!DayOf(d) = d - Pe!FirstDay(m) + 1 /\ m \in Int
  BY DayHasMonth DEF Month
<1>2. Pe!DayOf(d) \in Int
  BY <1>1, MonthsFollow
<1>3. m + (-1) = m - 1 /\ m + 12 * (-1) = m - 12
  BY <1>1
<1>4. ASSUME NEW o \in Month
      PROVE  Pe!UTC(o, Pe!Clamped(Pe!DayOf(d), Pe!LastDay(o)))
               = Pe!FirstDay(o) + (IF Pe!DayOf(d) <= Pe!LastDay(o)
                                     THEN Pe!DayOf(d) ELSE Pe!LastDay(o)) - 1
  <2>1. Pe!LastDay(o) \in Int
    BY MonthsFollow
  <2> QED
    BY <1>2, <2>1, LesserOf DEF Pe!UTC, Pe!Clamped
<1> QED
  BY <1>1, <1>3, <1>4 DEF Pe!shiftMonth, Pe!shiftYear, Back

\* A shifted day is in the month so much earlier, and is of the same number or the last.
LEMMA BackInMonth ==
  ASSUME NEW d \in Int, NEW m \in Month, InMonth(d, m), NEW k \in Nat, m - k \in Month
  PROVE  /\ Back(d, k) \in Int /\ InMonth(Back(d, k), m - k)
         /\ Pe!MonthOf(d) = m /\ Pe!MonthOf(Back(d, k)) = m - k
         /\ Pe!DayOf(Back(d, k)) <= Pe!DayOf(d)
         /\ Pe!DayOf(Back(d, k)) < Pe!DayOf(d)
              => Pe!MonthOf(Back(d, k) + 1) # Pe!MonthOf(Back(d, k))
         /\ k > 0 => Back(d, k) < d
<1> DEFINE o == m - k
           new == Back(d, k)
<1>1. /\ Pe!MonthOf(d) = m /\ Pe!DayOf(d) = d - Pe!FirstDay(m) + 1
      /\ Pe!FirstDay(m) \in Int /\ Pe!LastDay(m) \in 28..31
      /\ Pe!FirstDay(o) \in Int /\ Pe!LastDay(o) \in 28..31
      /\ Pe!FirstDay(o + 1) = Pe!FirstDay(o) + Pe!LastDay(o)
  BY DayHasMonth, MonthsFollow
<1>2. Pe!DayOf(d) \in Int /\ Pe!DayOf(d) >= 1
  BY <1>1 DEF InMonth
<1>3. new = Pe!FirstDay(o) + (IF Pe!DayOf(d) <= Pe!LastDay(o)
                                THEN Pe!DayOf(d) ELSE Pe!LastDay(o)) - 1
  BY <1>1 DEF Back
<1>4. o \in Month /\ o + 1 \in Month /\ o \in Int /\ m \in Int
  BY PeriodAssumption DEF Month
<1> HIDE DEF o, new
<1>5. new \in Int /\ InMonth(new, o)
  BY <1>1, <1>2, <1>3 DEF InMonth
<1>6. Pe!MonthOf(new) = o /\ Pe!DayOf(new) = new - Pe!FirstDay(o) + 1
  BY <1>4, <1>5, DayHasMonth
<1>7. Pe!DayOf(new) <= Pe!DayOf(d)
  BY <1>1, <1>2, <1>3, <1>6
<1>8. ASSUME Pe!DayOf(new) < Pe!DayOf(d) PROVE Pe!MonthOf(new + 1) # Pe!MonthOf(new)
  <2>1. new + 1 = Pe!FirstDay(o + 1)
    BY <1>1, <1>2, <1>3, <1>6, <1>8
  <2>2. InMonth(new + 1, o + 1) /\ new + 1 \in Int
    BY <1>4, <1>5, <2>1, MonthsFollow DEF InMonth
  <2>3. Pe!MonthOf(new + 1) = o + 1
    BY <1>4, <2>2, DayHasMonth
  <2> QED
    BY <1>4, <1>6, <2>3
<1>9. ASSUME k > 0 PROVE new < d
  <2>1. o < m
    BY <1>4, <1>9 DEF o
  <2>2. Pe!FirstDay(o) + Pe!LastDay(o) <= Pe!FirstDay(m)
    BY <1>4, <2>1, MonthsAscend
  <2> QED
    BY <1>1, <1>5, <2>2 DEF InMonth
<1> QED
  BY <1>1, <1>5, <1>6, <1>7, <1>8, <1>9 DEF o, new

\* The ends of a range of at most a year are shifted to a range of at most the maximum.
LEMMA BackKeepsRange ==
  ASSUME NEW d \in Int, NEW e \in Int, d <= e, NEW m \in Month, NEW p \in Month,
         InMonth(d, m), InMonth(e, p), NEW k \in {1, 12}, m - k \in Month
  PROVE  /\ p - k \in Month
         /\ Back(d, k) <= Back(e, k)
         /\ e - d <= 365 => Back(e, k) - Back(d, k) <= 366
<1> DEFINE first(x) == Pe!FirstDay(x)
           last(x) == Pe!LastDay(x)
<1>1. \A x \in Month : x \in Int /\ first(x) \in Int /\ last(x) \in 28..31
  BY MonthsFollow DEF Month
<1>2. m <= p
  <2> SUFFICES ASSUME p < m PROVE FALSE
    BY <1>1
  <2>1. first(p) + last(p) <= first(m)
    BY MonthsAscend
  <2> QED
    BY <1>1, <2>1 DEF InMonth
<1>3. p - k \in Month /\ m - k <= p - k
  BY <1>1, <1>2, PeriodAssumption DEF Month
<1>4. /\ Pe!MonthOf(d) = m /\ Pe!DayOf(d) = d - first(m) + 1
      /\ Pe!MonthOf(e) = p /\ Pe!DayOf(e) = e - first(p) + 1
  BY DayHasMonth
<1>5. /\ Back(d, k) \in Int /\ InMonth(Back(d, k), m - k)
      /\ Back(e, k) \in Int /\ InMonth(Back(e, k), p - k)
  BY <1>3, BackInMonth
<1>6. /\ Back(d, k) = first(m - k) + (IF Pe!DayOf(d) <= last(m - k)
                                        THEN Pe!DayOf(d) ELSE last(m - k)) - 1
      /\ Back(e, k) = first(p - k) + (IF Pe!DayOf(e) <= last(p - k)
                                        THEN Pe!DayOf(e) ELSE last(p - k)) - 1
  BY <1>4 DEF Back
<1>7. Pe!DayOf(d) \in Int /\ Pe!DayOf(e) \in Int
  BY <1>1, <1>4
<1> HIDE DEF first, last
<1>8. Back(d, k) <= Back(e, k)
  <2>1. CASE m = p
    <3>1. Pe!DayOf(d) <= Pe!DayOf(e)
      BY <1>1, <1>4, <2>1
    <3> QED
      BY <1>1, <1>3, <1>6, <1>7, <2>1, <3>1
  <2>2. CASE m # p
    <3>1. m - k < p - k
      BY <1>1, <1>2, <2>2
    <3>2. first(m - k) + last(m - k) <= first(p - k)
      BY <1>3, <3>1, MonthsAscend DEF first, last
    <3> QED
      BY <1>1, <1>3, <1>5, <3>2 DEF InMonth, first, last
  <2> QED
    BY <2>1, <2>2
<1>9. ASSUME e - d <= 365 PROVE Back(e, k) - Back(d, k) <= 366
  <2>1. \A x \in Month : /\ x + 12 \in Month /\ x + 1 \in Month
                         /\ first(x + 1) = first(x) + last(x)
                         /\ \/ first(x + 12) - first(x) \in {365, 366} /\ last(x + 12) <= last(x)
                            \/ first(x + 12) - first(x) = 365 /\ last(x + 12) = last(x) + 1
    BY MonthsFollow, PeriodAssumption DEF Month, first, last
  <2>2. \A x, y \in Month : x <= y => first(x) <= first(y)
    <3> SUFFICES ASSUME NEW x \in Month, NEW y \in Month, x <= y PROVE first(x) <= first(y)
      OBVIOUS
    <3>1. x < y => first(x) + last(x) <= first(y)
      BY MonthsAscend DEF first, last
    <3> QED
      BY <1>1, <3>1
  <2>3. CASE p <= m + 11
    <3>1. /\ (p - k) + 1 \in Month /\ (m - k) + 12 \in Month /\ (p - k) + 1 <= (m - k) + 12
      BY <1>1, <1>3, <2>1, <2>3
    <3>2. first((p - k) + 1) <= first((m - k) + 12)
      BY <2>2, <3>1
    <3>3. first((p - k) + 1) = first(p - k) + last(p - k)
      BY <1>3, <2>1
    <3>4. first((m - k) + 12) <= first(m - k) + 366
      BY <1>1, <1>3, <2>1
    <3> QED
      BY <1>1, <1>3, <1>5, <3>1, <3>2, <3>3, <3>4 DEF InMonth, first, last
  <2>4. CASE p = m + 12
    <3>1. p - k = (m - k) + 12
      BY <1>1, <2>4
    <3>2. Pe!DayOf(e) <= Pe!DayOf(d)
      <4>1. first(p) - first(m) >= 365
        BY <1>1, <2>1, <2>4
      <4> QED
        BY <1>1, <1>4, <1>9, <4>1
    <3>3. \/ first(p - k) - first(m - k) \in {365, 366} /\ last(p - k) <= last(m - k)
          \/ first(p - k) - first(m - k) = 365 /\ last(p - k) = last(m - k) + 1
      BY <2>1, <3>1
    <3> QED
      BY <1>1, <1>3, <1>6, <1>7, <3>2, <3>3
  <2>5. CASE p > m + 12
    <3>1. m + 1 \in Month /\ (m + 1) + 12 \in Month /\ (m + 1) + 12 <= p
      BY <1>1, <2>1, <2>5
    <3>2. first((m + 1) + 12) <= first(p)
      BY <2>2, <3>1
    <3>3. first((m + 1) + 12) >= first(m + 1) + 365 /\ first(m + 1) = first(m) + last(m)
      BY <1>1, <2>1, <3>1
    <3> QED
      BY <1>1, <1>9, <3>1, <3>2, <3>3 DEF InMonth, first, last
  <2> QED
    BY <1>1, <2>3, <2>4, <2>5
<1> QED
  BY <1>3, <1>8, <1>9

\* What the documents say of a shifted day: its month, and its number or the last.
GoneBack(d, k) ==
    /\ Pe!MonthOf(Back(d, k)) = Pe!MonthOf(d) - k
    /\ Pe!DayOf(Back(d, k)) <= Pe!DayOf(d)
    /\ Pe!DayOf(Back(d, k)) < Pe!DayOf(d)
         => Pe!MonthOf(Back(d, k) + 1) # Pe!MonthOf(Back(d, k))

\* The calendar has a last day.
LEMMA DaysAreNumbers ==
  /\ Pe!Days \subseteq Int
  /\ \A d \in Pe!Days : d >= 1
  /\ \A d \in Pe!Days, e \in Int : 1 <= e /\ e <= d => e \in Pe!Days
<1>1. 12 * LastYear + 11 \in Month
  BY PeriodAssumption DEF Month
<1>2. Pe!FirstDay(12 * LastYear + 11) \in Int
  BY <1>1, MonthsFollow
<1> QED
  BY <1>2 DEF Pe!Days

\* A day after the first year has a month, and so has the same day a year before.
LEMMA AfterFirstYear ==
  ASSUME NEW d \in Int, d > 367
  PROVE  \E m \in Month : InMonth(d, m) /\ m - 1 \in Month /\ m - 12 \in Month
<1>1. PICK m \in Month : InMonth(d, m)
  BY DayHasMonth
<1> DEFINE m0 == 12 * FirstYear
<1>2. m0 \in Month /\ Pe!FirstDay(m0) = 1 /\ m0 \in Int /\ m \in Int /\ m >= m0
  BY FirstMonth, PeriodAssumption DEF Month
<1>3. m0 + 12 \in Month /\ m + 1 \in Month
  BY PeriodAssumption DEF Month
<1>4. /\ Pe!FirstDay(m0 + 12) \in Int /\ Pe!FirstDay(m0 + 12) <= 367
      /\ Pe!FirstDay(m) \in Int /\ Pe!LastDay(m) \in Int
      /\ Pe!FirstDay(m + 1) = Pe!FirstDay(m) + Pe!LastDay(m)
  BY <1>2, <1>3, MonthsFollow
<1>5. m >= m0 + 12
  <2> SUFFICES ASSUME m < m0 + 12 PROVE FALSE
    BY <1>2
  <2>1. Pe!FirstDay(m) + Pe!LastDay(m) <= Pe!FirstDay(m0 + 12)
    BY <1>3, MonthsAscend
  <2> QED
    BY <1>1, <1>4, <2>1 DEF InMonth
<1>6. m - 1 \in Month /\ m - 12 \in Month
  BY <1>2, <1>5, PeriodAssumption DEF Month
<1> QED
  BY <1>1, <1>6

\* The two shifts of a requested range.
LEMMA RangeGoesBack ==
  ASSUME NEW d \in Pe!Days, NEW e \in Pe!Days, d > 367, d <= e, NEW k \in {1, 12}
  PROVE  /\ Back(d, k) \in Pe!Days /\ Back(e, k) \in Pe!Days
         /\ Back(d, k) < d /\ Back(d, k) <= Back(e, k)
         /\ e - d <= 365 => Back(e, k) - Back(d, k) <= 366
         /\ GoneBack(d, k) /\ GoneBack(e, k)
         /\ Pe!shiftMonth(d, -1) = Back(d, 1) /\ Pe!shiftMonth(e, -1) = Back(e, 1)
         /\ Pe!shiftYear(d, -1) = Back(d, 12) /\ Pe!shiftYear(e, -1) = Back(e, 12)
<1>1. d \in Int /\ e \in Int /\ e > 367
  BY DaysAreNumbers
<1>2. PICK m \in Month : InMonth(d, m) /\ m - 1 \in Month /\ m - 12 \in Month
  BY <1>1, AfterFirstYear
<1>3. PICK p \in Month : InMonth(e, p) /\ p - 1 \in Month /\ p - 12 \in Month
  BY <1>1, AfterFirstYear
<1>4. m - k \in Month /\ p - k \in Month /\ k \in Nat /\ k > 0
  BY <1>2, <1>3
<1>5. ASSUME NEW x \in Pe!Days, NEW o \in Month, InMonth(x, o), o - k \in Month
      PROVE  Back(x, k) \in Pe!Days /\ Back(x, k) < x /\ GoneBack(x, k)
  <2>1. x \in Int
    BY DaysAreNumbers
  <2>2. /\ Back(x, k) \in Int /\ InMonth(Back(x, k), o - k) /\ Back(x, k) < x
        /\ Pe!MonthOf(x) = o /\ Pe!MonthOf(Back(x, k)) = o - k
        /\ Pe!DayOf(Back(x, k)) <= Pe!DayOf(x)
        /\ Pe!DayOf(Back(x, k)) < Pe!DayOf(x)
             => Pe!MonthOf(Back(x, k) + 1) # Pe!MonthOf(Back(x, k))
    BY <1>4, <1>5, <2>1, BackInMonth
  <2>3. Back(x, k) >= 1
    <3> DEFINE m0 == 12 * FirstYear
               early == o - k
    <3>1. /\ m0 \in Month /\ Pe!FirstDay(m0) = 1 /\ m0 \in Int
          /\ early \in Month /\ early \in Int /\ early >= m0
      BY <1>5, FirstMonth, PeriodAssumption DEF Month
    <3>2. InMonth(Back(x, k), early)
      BY <2>2
    <3> HIDE DEF m0, early
    <3>3. Pe!FirstDay(early) \in Int /\ Pe!LastDay(m0) \in 28..31
      BY <3>1, MonthsFollow
    <3>4. early = m0 \/ Pe!FirstDay(m0) + Pe!LastDay(m0) <= Pe!FirstDay(early)
      BY <3>1, MonthsAscend
    <3>5. Pe!FirstDay(early) >= 1
      BY <3>1, <3>3, <3>4
    <3> QED
      BY <2>2, <3>2, <3>3, <3>5 DEF InMonth
  <2>4. Back(x, k) \in Pe!Days
    <3>1. Back(x, k) <= x
      BY <2>1, <2>2
    <3> QED
      BY <2>2, <2>3, <3>1, DaysAreNumbers
  <2> QED
    BY <2>2, <2>4 DEF GoneBack
<1>6. /\ Back(d, k) \in Pe!Days /\ Back(d, k) < d /\ GoneBack(d, k)
      /\ Back(e, k) \in Pe!Days /\ GoneBack(e, k)
  BY <1>2, <1>3, <1>4, <1>5
<1>7. Back(d, k) <= Back(e, k) /\ (e - d <= 365 => Back(e, k) - Back(d, k) <= 366)
  BY <1>1, <1>2, <1>3, <1>4, BackKeepsRange
<1>8. /\ Pe!shiftMonth(d, -1) = Back(d, 1) /\ Pe!shiftMonth(e, -1) = Back(e, 1)
      /\ Pe!shiftYear(d, -1) = Back(d, 12) /\ Pe!shiftYear(e, -1) = Back(e, 12)
  BY <1>1, <1>2, <1>3, ShiftsGoBack
<1> QED
  BY <1>6, <1>7, <1>8

\* What is compared with a valid requested range.
LEMMA ComparedRange ==
  ASSUME Asked, Pe!Valid(Pe!Span(request.from, request.to)),
         (request.mode = "CUSTOM") = (request.custom # None)
  PROVE  LET compared == Pe!Calculated(request)
             days == request.to - request.from + 1
         IN /\ compared = [from |-> compared.from, to |-> compared.to]
            /\ compared.from \in Pe!Days /\ compared.to \in Pe!Days
            /\ request.mode # "CUSTOM" =>
                 /\ compared.from < request.from /\ compared.from <= compared.to
                 /\ days <= 366 => compared.to - compared.from <= 366
            /\ request.mode = "PREVIOUS_PERIOD" =>
                 compared.to = request.from - 1 /\ compared.from = request.from - days
            /\ request.mode = "PREVIOUS_MONTH" =>
                 /\ compared.from = Back(request.from, 1) /\ compared.to = Back(request.to, 1)
                 /\ GoneBack(request.from, 1) /\ GoneBack(request.to, 1)
            /\ request.mode = "PREVIOUS_YEAR" =>
                 /\ compared.from = Back(request.from, 12) /\ compared.to = Back(request.to, 12)
                 /\ GoneBack(request.from, 12) /\ GoneBack(request.to, 12)
            /\ request.mode = "CUSTOM" => compared = request.custom
<1> DEFINE compared == Pe!Calculated(request)
           f == request.from
           t == request.to
<1>1. /\ f \in Pe!Days /\ t \in Pe!Days /\ f \in Int /\ t \in Int /\ f > 367
      /\ f <= t /\ t - f + 1 <= 367
  <2>1. f \in Pe!Days /\ t \in Pe!Days /\ f \in Int /\ t \in Int /\ f > 367
    BY DaysAreNumbers DEF Asked
  <2>2. f <= t /\ t - f + 1 <= 367
    BY PeriodAssumption DEF Pe!Valid, Pe!Span, Pe!dayCount
  <2> QED
    BY <2>1, <2>2
<1>2. \A k \in {1, 12} :
        /\ Back(f, k) \in Pe!Days /\ Back(t, k) \in Pe!Days
        /\ Back(f, k) < f /\ Back(f, k) <= Back(t, k)
        /\ t - f <= 365 => Back(t, k) - Back(f, k) <= 366
        /\ GoneBack(f, k) /\ GoneBack(t, k)
  BY <1>1, RangeGoesBack
<1>3. /\ Pe!shiftMonth(f, -1) = Back(f, 1) /\ Pe!shiftMonth(t, -1) = Back(t, 1)
      /\ Pe!shiftYear(f, -1) = Back(f, 12) /\ Pe!shiftYear(t, -1) = Back(t, 12)
  BY <1>1, RangeGoesBack
<1>4. t - f + 1 <= 366 => t - f <= 365
  BY <1>1
<1>5. CASE request.mode = "PREVIOUS_PERIOD"
  <2>1. compared = [from |-> (f + (-1)) + (-((t - f + 1) - 1)), to |-> f + (-1)]
    BY <1>5 DEF Pe!Calculated, Pe!Span, Pe!addDays, Pe!dayCount
  <2>2. /\ (f + (-1)) + (-((t - f + 1) - 1)) = f - (t - f + 1) /\ f + (-1) = f - 1
        /\ 1 <= f - (t - f + 1) /\ f - (t - f + 1) <= f - 1 /\ f - 1 <= f /\ 1 <= f - 1
        /\ f - (t - f + 1) <= f /\ f - (t - f + 1) < f
        /\ f - (t - f + 1) \in Int /\ f - 1 \in Int
        /\ (f - 1) - (f - (t - f + 1)) <= 366
    BY <1>1
  <2>3. f - (t - f + 1) \in Pe!Days /\ f - 1 \in Pe!Days
    BY <1>1, <2>2, DaysAreNumbers
  <2>4. compared = [from |-> f - (t - f + 1), to |-> f - 1]
    BY <2>1, <2>2
  <2> HIDE DEF compared, f, t
  <2>5. compared.from = f - (t - f + 1) /\ compared.to = f - 1
    BY <2>4
  <2> QED
    BY <1>5, <2>2, <2>3, <2>4, <2>5 DEF compared, f, t
<1>6. CASE request.mode = "PREVIOUS_MONTH"
  <2>1. compared = [from |-> Back(f, 1), to |-> Back(t, 1)]
    BY <1>3, <1>6 DEF Pe!Calculated, Pe!Span
  <2> HIDE DEF compared, f, t
  <2>2. compared.from = Back(f, 1) /\ compared.to = Back(t, 1)
    BY <2>1
  <2> QED
    BY <1>2, <1>4, <1>6, <2>1, <2>2 DEF compared, f, t
<1>7. CASE request.mode = "PREVIOUS_YEAR"
  <2>1. compared = [from |-> Back(f, 12), to |-> Back(t, 12)]
    BY <1>3, <1>7 DEF Pe!Calculated, Pe!Span
  <2> HIDE DEF compared, f, t
  <2>2. compared.from = Back(f, 12) /\ compared.to = Back(t, 12)
    BY <2>1
  <2> QED
    BY <1>2, <1>4, <1>7, <2>1, <2>2 DEF compared, f, t
<1>8. CASE request.mode = "CUSTOM"
  <2>1. compared = request.custom
    BY <1>8 DEF Pe!Calculated
  <2>2. request.custom \in [from : Pe!Days, to : Pe!Days]
    BY <1>8 DEF Asked
  <2> QED
    BY <1>8, <2>1, <2>2
<1>9. request.mode \in {"PREVIOUS_PERIOD", "PREVIOUS_MONTH", "PREVIOUS_YEAR", "CUSTOM"}
  BY DEF Asked, Pe!Mode
<1> QED
  BY <1>5, <1>6, <1>7, <1>8, <1>9

\* A range that is trimmed ends where the shorter one's length ends, inside itself.
LEMMA TrimmedInside ==
  ASSUME NEW from \in Pe!Days, NEW to \in Pe!Days, NEW n \in Int, 1 <= n, n <= to - from + 1
  PROVE  LET r == Pe!Span(from, from + n - 1)
         IN /\ r = [from |-> from, to |-> r.to]
            /\ r.to \in Pe!Days /\ from <= r.to /\ r.to <= to /\ r.to - from + 1 = n
<1>1. from \in Int /\ to \in Int /\ from >= 1
  BY DaysAreNumbers
<1>2. /\ from + n - 1 \in Int /\ 1 <= from + n - 1 /\ from + n - 1 <= to
      /\ from <= from + n - 1 /\ (from + n - 1) - from + 1 = n
  BY <1>1
<1>3. from + n - 1 \in Pe!Days
  BY <1>2, DaysAreNumbers
<1> QED
  BY <1>2, <1>3 DEF Pe!Span

\* The answer to a request the code accepts.
LEMMA AcceptedRanges ==
  ASSUME Asked, Pe!Valid(Pe!Span(request.from, request.to)),
         (request.mode = "CUSTOM") = (request.custom # None), Pe!Valid(Pe!Calculated(request))
  PROVE  LET compared == Pe!Calculated(request)
             given == Pe!Normalized(request)
         IN /\ given = [current |-> [from |-> request.from, to |-> given.current.to],
                        comparison |-> [from |-> compared.from, to |-> given.comparison.to]]
            /\ given.current.to \in Pe!Days /\ given.comparison.to \in Pe!Days
            /\ request.from <= given.current.to /\ given.current.to <= request.to
            /\ compared.from <= given.comparison.to /\ given.comparison.to <= compared.to
            /\ ~request.sameElapsed =>
                 given.current.to = request.to /\ given.comparison.to = compared.to
            /\ request.sameElapsed =>
                 /\ given.current.to - request.from = given.comparison.to - compared.from
                 /\ compared.to - compared.from = request.to - request.from =>
                      given.current.to = request.to /\ given.comparison.to = compared.to
<1> DEFINE compared == Pe!Calculated(request)
           given == Pe!Normalized(request)
           f == request.from
           t == request.to
           g == compared.from
           u == compared.to
           n == IF t - f + 1 <= u - g + 1 THEN t - f + 1 ELSE u - g + 1
<1>1. /\ f \in Pe!Days /\ t \in Pe!Days /\ g \in Pe!Days /\ u \in Pe!Days
      /\ f \in Int /\ t \in Int /\ g \in Int /\ u \in Int
      /\ compared = [from |-> g, to |-> u]
  BY ComparedRange, DaysAreNumbers DEF Asked
<1>2. f <= t /\ g <= u
  BY DEF Pe!Valid, Pe!Span
<1>3. Pe!Min({t - f + 1, u - g + 1}) = n
  <2> DEFINE v == t - f + 1
             w == u - g + 1
  <2>1. v \in Int /\ w \in Int
    BY <1>1
  <2> HIDE DEF v, w
  <2>2. Pe!Min({v, w}) = IF v <= w THEN v ELSE w
    BY <2>1, LesserOf
  <2> QED
    BY <2>2 DEF v, w
<1>4. given = IF request.sameElapsed
                THEN [current |-> Pe!Span(f, f + (n - 1)), comparison |-> Pe!Span(g, g + (n - 1))]
                ELSE [current |-> Pe!Span(f, t), comparison |-> compared]
  <2>1. ~((request.mode = "CUSTOM") = (request.custom = None))
    OBVIOUS
  <2> HIDE DEF n
  <2> QED
    BY <1>3, <2>1 DEF Pe!Normalized, Pe!Trimmed, Pe!dayCount, Pe!addDays
<1>5. /\ n \in Int /\ 1 <= n /\ n <= t - f + 1 /\ n <= u - g + 1
      /\ (u - g = t - f) => n = t - f + 1 /\ n = u - g + 1
      /\ f + (n - 1) = f + n - 1 /\ g + (n - 1) = g + n - 1
  BY <1>1, <1>2
<1> HIDE DEF compared, given, f, t, g, u, n
<1>6. CASE request.sameElapsed
  <2> DEFINE x == f + n - 1
             y == g + n - 1
  <2>1. /\ x \in Pe!Days /\ f <= x /\ x <= t /\ y \in Pe!Days /\ g <= y /\ y <= u
    BY <1>1, <1>5, TrimmedInside DEF Pe!Span
  <2>2. x - f = y - g /\ ((u - g = t - f) => x = t /\ y = u)
    BY <1>1, <1>5
  <2>3. given = [current |-> [from |-> f, to |-> x], comparison |-> [from |-> g, to |-> y]]
    BY <1>4, <1>5, <1>6 DEF Pe!Span
  <2> HIDE DEF x, y
  <2>4. given.current.to = x /\ given.comparison.to = y
    BY <2>3
  <2> QED
    BY <1>6, <2>1, <2>2, <2>3, <2>4 DEF compared, given, f, t, g, u
<1>7. CASE ~request.sameElapsed
  <2>1. given = [current |-> [from |-> f, to |-> t], comparison |-> [from |-> g, to |-> u]]
    BY <1>1, <1>4, <1>7 DEF Pe!Span
  <2>2. given.current.to = t /\ given.comparison.to = u
    BY <2>1
  <2>3. t <= t /\ u <= u
    BY <1>1
  <2> QED
    BY <1>1, <1>2, <1>7, <2>1, <2>2, <2>3 DEF compared, given, f, t, g, u
<1> QED
  BY <1>6, <1>7

\* A request is refused only for its length, or for an explicit range given or missing.
LEMMA RefusedRanges ==
  ASSUME Asked,
         \/ ~Pe!Valid(Pe!Span(request.from, request.to))
         \/ (request.mode = "CUSTOM") # (request.custom # None)
         \/ ~Pe!Valid(Pe!Calculated(request))
  PROVE  /\ Pe!Normalized(request) = None
         /\ \/ Pe!dayCount(request.from, request.to) \notin 1..(MaxDays - 1)
            \/ request.mode = "CUSTOM" \/ request.custom # None
<1> DEFINE f == request.from
           t == request.to
<1>1. f \in Int /\ t \in Int /\ MaxDays = 367
  BY DaysAreNumbers, PeriodAssumption DEF Asked
<1>2. CASE ~Pe!Valid(Pe!Span(f, t))
  <2>1. Pe!Normalized(request) = None
    BY <1>2 DEF Pe!Normalized
  <2>2. ~(f <= t) \/ ~(t - f + 1 <= 367)
    BY <1>1, <1>2 DEF Pe!Valid, Pe!Span, Pe!dayCount
  <2> QED
    BY <1>1, <2>1, <2>2 DEF Pe!dayCount
<1>3. CASE (request.mode = "CUSTOM") # (request.custom # None)
  <2>1. (request.mode = "CUSTOM") = (request.custom = None)
    BY <1>3
  <2>2. Pe!Normalized(request) = None
    BY <2>1 DEF Pe!Normalized
  <2> QED
    BY <2>1, <2>2
<1>4. CASE /\ Pe!Valid(Pe!Span(f, t)) /\ ~Pe!Valid(Pe!Calculated(request))
           /\ (request.mode = "CUSTOM") = (request.custom # None)
  <2>1. Pe!Normalized(request) = None
    BY <1>4 DEF Pe!Normalized
  <2>2. SUFFICES ASSUME request.mode # "CUSTOM", Pe!dayCount(f, t) \in 1..(MaxDays - 1)
                 PROVE  FALSE
    BY <2>1
  <2> DEFINE compared == Pe!Calculated(request)
  <2>3. t - f + 1 <= 366
    BY <1>1, <2>2 DEF Pe!dayCount
  <2>4. /\ compared.from \in Pe!Days /\ compared.to \in Pe!Days
        /\ compared.from <= compared.to /\ compared.to - compared.from <= 366
    BY <1>4, <2>2, <2>3, ComparedRange
  <2>5. compared.from \in Int /\ compared.to \in Int
    BY <2>4, DaysAreNumbers
  <2> QED
    BY <1>1, <1>4, <2>4, <2>5 DEF Pe!Valid, Pe!dayCount
<1> QED
  BY <1>2, <1>3, <1>4

LEMMA RangesComparable == PeriodInv => PeriodsAreComparable
<1> SUFFICES ASSUME part = "periods", Asked, answered \in BOOLEAN,
                    ranges = IF answered THEN Pe!Normalized(request) ELSE None
             PROVE  Pe!TypeOK /\ Pe!PeriodsAreComparable
  BY DEF PeriodInv, PeriodsAreComparable
<1> DEFINE f == request.from
           t == request.to
           compared == Pe!Calculated(request)
           accepted == /\ Pe!Valid(Pe!Span(f, t)) /\ Pe!Valid(compared)
                       /\ (request.mode = "CUSTOM") = (request.custom # None)
<1>1. /\ f \in Pe!Days /\ t \in Pe!Days /\ f \in Int /\ t \in Int /\ MaxDays = 367
      /\ request.mode \in Pe!Mode /\ request.sameElapsed \in BOOLEAN
  BY DaysAreNumbers, PeriodAssumption DEF Asked
<1>2. CASE ~answered
  <2>1. ranges = None
    BY <1>2
  <2> QED
    BY <1>1, <1>2, <2>1 DEF Pe!TypeOK, Pe!PeriodsAreComparable
<1>3. CASE answered /\ ~accepted
  <2>1. /\ ranges = None
        /\ \/ Pe!dayCount(f, t) \notin 1..(MaxDays - 1)
           \/ request.mode = "CUSTOM" \/ request.custom # None
    BY <1>3, RefusedRanges
  <2> QED
    BY <1>1, <2>1 DEF Pe!TypeOK, Pe!PeriodsAreComparable
<1>4. CASE answered /\ accepted
  <2> DEFINE x == ranges.current.to
             y == ranges.comparison.to
             g == compared.from
             u == compared.to
             days == t - f + 1
  <2>1. /\ ranges = [current |-> [from |-> f, to |-> x], comparison |-> [from |-> g, to |-> y]]
        /\ x \in Pe!Days /\ y \in Pe!Days /\ f <= x /\ x <= t /\ g <= y /\ y <= u
        /\ ~request.sameElapsed => x = t /\ y = u
        /\ request.sameElapsed => x - f = y - g /\ (u - g = t - f => x = t /\ y = u)
    BY <1>4, AcceptedRanges
  <2>2. /\ compared = [from |-> g, to |-> u] /\ g \in Pe!Days /\ u \in Pe!Days
        /\ request.mode # "CUSTOM" => g < f
        /\ request.mode = "PREVIOUS_PERIOD" => u = f - 1 /\ g = f - days
        /\ request.mode = "PREVIOUS_MONTH" =>
             g = Back(f, 1) /\ u = Back(t, 1) /\ GoneBack(f, 1) /\ GoneBack(t, 1)
        /\ request.mode = "PREVIOUS_YEAR" =>
             g = Back(f, 12) /\ u = Back(t, 12) /\ GoneBack(f, 12) /\ GoneBack(t, 12)
        /\ request.mode = "CUSTOM" => compared = request.custom
    BY <1>4, ComparedRange
  <2>3. g \in Int /\ u \in Int /\ x \in Int /\ y \in Int
    BY <2>1, <2>2, DaysAreNumbers
  <2>4. f <= t /\ t - f + 1 <= 367 /\ u - g + 1 <= 367
    BY <1>1, <1>4, <2>2 DEF Pe!Valid, Pe!Span, Pe!dayCount
  <2> HIDE DEF compared, accepted, f, t, x, y, g, u
  <2>5. /\ ranges.current = [from |-> f, to |-> x] /\ ranges.comparison = [from |-> g, to |-> y]
        /\ ranges.current.from = f /\ ranges.current.to = x
        /\ ranges.comparison.from = g /\ ranges.comparison.to = y
    BY <2>1
  <2>6. ranges # None
    <3>1. /\ [from |-> f, to |-> x] \in [from : Int, to : Int]
          /\ [from |-> g, to |-> y] \in [from : Int, to : Int]
      BY <1>1, <2>3
    <3>2. ranges \in [current : [from : Int, to : Int], comparison : [from : Int, to : Int]]
      BY <2>1, <3>1
    <3> QED
      BY <3>2, PeriodAssumption
  <2>7. Pe!TypeOK
    BY <1>1, <2>1, <2>2, <2>5 DEF Pe!TypeOK, f, t
  <2>8. x \in f..t /\ x - f + 1 \in 1..MaxDays /\ y - g + 1 \in 1..MaxDays
    <3>1. /\ f \in Int /\ t \in Int /\ g \in Int /\ u \in Int /\ x \in Int /\ y \in Int
          /\ f <= x /\ x <= t /\ g <= y /\ y <= u /\ t - f + 1 <= 367 /\ u - g + 1 <= 367
      BY <1>1, <2>1, <2>3, <2>4
    <3>2. x \in f..t /\ x - f + 1 \in 1..MaxDays
      BY <1>1, <3>1
    <3>3. y - g + 1 \in 1..MaxDays
      BY <1>1, <3>1
    <3> QED
      BY <3>2, <3>3
  <2>9. request.mode = "PREVIOUS_PERIOD" => y + 1 = f /\ y - g + 1 = days /\ x - f + 1 = days
    <3> SUFFICES ASSUME request.mode = "PREVIOUS_PERIOD"
                 PROVE  y + 1 = f /\ y - g + 1 = days /\ x - f + 1 = days
      OBVIOUS
    <3>1. u - g = t - f /\ u + 1 = f
      BY <1>1, <2>2, <2>3
    <3>2. x = t /\ y = u
      BY <1>1, <2>1, <3>1
    <3> QED
      BY <1>1, <2>3, <3>1, <3>2
  <2>10. request.mode = "CUSTOM" => g = request.custom.from /\ y <= request.custom.to
    BY <2>1, <2>2, <2>3
  <2>11. request.sameElapsed => x - f + 1 = y - g + 1
    BY <2>1
  <2>12. Pe!PeriodsAreComparable
    <3> SUFFICES
          /\ request.mode # "CUSTOM" => g < f
          /\ request.mode = "PREVIOUS_MONTH" => GoneBack(f, 1) /\ g = Back(f, 1)
          /\ request.mode = "PREVIOUS_YEAR" => GoneBack(f, 12) /\ g = Back(f, 12)
          /\ ~request.sameElapsed =>
               /\ x = t
               /\ request.mode = "PREVIOUS_MONTH" => GoneBack(t, 1) /\ y = Back(t, 1)
               /\ request.mode = "PREVIOUS_YEAR" => GoneBack(t, 12) /\ y = Back(t, 12)
      BY <2>5, <2>6, <2>8, <2>9, <2>10, <2>11
         DEF Pe!PeriodsAreComparable, Pe!dayCount, GoneBack, f, t
    <3> QED
      BY <2>1, <2>2
  <2> QED
    BY <2>7, <2>12
<1> QED
  BY <1>2, <1>3, <1>4

-----------------------------------------------------------------------------
\* The request is one of those the instance makes.
LEMMA PeriodsInit == ReportsInit => PeriodInv
<1> SUFFICES ASSUME Pe!Init PROVE Asked /\ answered = FALSE /\ ranges = None
  BY DEF ReportsInit, PeriodInv
<1>1. ranges = None /\ answered = FALSE
  BY DEF Pe!Init
<1>2. PICK f \in Froms, n \in Lengths, mode \in Pe!Mode, same \in BOOLEAN, custom \in Pe!Explicit :
        request = [from |-> Pe!DayNumber(f), to |-> Pe!DayNumber(f) + n - 1, mode |-> mode,
                   sameElapsed |-> same, custom |-> custom]
  BY DEF Pe!Init
<1> DEFINE from == Pe!DayNumber(f)
<1>3. from \in Pe!Days /\ from > 367 /\ n \in Nat /\ from + n - 1 \in Pe!Days
  BY PeriodAssumption
<1>4. from \in Int
  BY <1>3, DaysAreNumbers
<1>5. from + n - 1 >= from - 1
  BY <1>3, <1>4
<1>6. custom = None \/ custom \in [from : Pe!Days, to : Pe!Days]
  BY PeriodAssumption DEF Pe!Explicit, Pe!Span
<1> HIDE DEF from
<1>7. /\ request.from = from /\ request.to = from + n - 1 /\ request.mode = mode
      /\ request.sameElapsed = same /\ request.custom = custom
  BY <1>2 DEF from
<1> QED
  BY <1>1, <1>3, <1>4, <1>5, <1>6, <1>7 DEF Asked

LEMMA PeriodsStep == PeriodInv /\ [ReportsNext]_allReadVars => PeriodInv'
<1> SUFFICES ASSUME PeriodInv, [ReportsNext]_allReadVars, part' = "periods" PROVE PeriodInv'
  BY DEF PeriodInv
<1>1. part = "periods"
  BY DEF ReportsNext, allReadVars
<1>2. request' = request
  BY <1>1 DEF ReportsNext, allReadVars, readVars, periodVars, Pe!Next, Pe!Normalize
<1>3. \/ answered' = TRUE /\ ranges' = Pe!Normalized(request)
      \/ answered' = answered /\ ranges' = ranges
  BY <1>1 DEF ReportsNext, allReadVars, readVars, periodVars, Pe!Next, Pe!Normalize
<1>4. Pe!Normalized(request)' = Pe!Normalized(request)
  BY <1>2
<1>5. Asked'
  BY <1>1, <1>2 DEF PeriodInv, Asked
<1>6. answered' \in BOOLEAN /\ ranges' = IF answered' THEN Pe!Normalized(request)' ELSE None
  <2>1. answered \in BOOLEAN /\ ranges = IF answered THEN Pe!Normalized(request) ELSE None
    BY <1>1 DEF PeriodInv
  <2>2. CASE answered' = TRUE /\ ranges' = Pe!Normalized(request)
    BY <1>4, <2>2
  <2>3. CASE answered' = answered /\ ranges' = ranges
    BY <1>4, <2>1, <2>3
  <2> QED
    BY <1>3, <2>2, <2>3
<1> QED
  BY <1>5, <1>6 DEF PeriodInv

\* The ranges of every comparison are as docs/accounting-policy.md has them, whatever days
\* of the calendar, lengths and explicit ranges are asked for.
THEOREM RangesCompared == ReportsSpec => []PeriodsAreComparable
<1>1. ReportsInit => PeriodInv
  BY PeriodsInit
<1>2. PeriodInv /\ [ReportsNext]_allReadVars => PeriodInv'
  BY PeriodsStep
<1>3. PeriodInv => PeriodsAreComparable
  BY RangesComparable
<1> QED
  BY <1>1, <1>2, <1>3, PTL DEF ReportsSpec, allReadVars
-----------------------------------------------------------------------------
(***************************************************************************)
(* Reports.  A report's rows are classes of transactions: those of one key, *)
(* currency and status.  Its sums are taken class by class.                 *)
(***************************************************************************)

LEMMA SameSum ==
  /\ \A f, S : Sp!SumFunctionOnSet(f, S) = SumFunctionOnSet(f, S)
  /\ \A S : Sp!Cardinality(S) = Cardinality(S)
<1>1. \A f, S : Sp!SumFunctionOnSet(f, S) = SumFunctionOnSet(f, S)
  BY DEF Sp!SumFunctionOnSet, SumFunctionOnSet, Sp!FoldFunctionOnSet, FoldFunctionOnSet,
         Sp!MapThenFoldSet, MapThenFoldSet
<1>2. \A S : Sp!Cardinality(S) = Cardinality(S)
  BY DEF Sp!Cardinality, Cardinality
<1> QED
  BY <1>1, <1>2

\* The effects of a row: numbers, or none when its amount is none; the views and the
\* domain agree on them.
LEMMA EffectsOfRow ==
  ASSUME NEW row, Sp!IsRow(row)
  PROVE  /\ Sp!SpendEffect(row) \in Int \cup {None}
         /\ Sp!CashflowEffect(row) \in Int \cup {None}
         /\ Sp!SpendEffect(row) = None => row.amount = None
         /\ Sp!Gone(row) => Sp!SpendEffect(row) = 0 /\ Sp!CashflowEffect(row) = 0
         /\ ~Sp!Gone(row) =>
              /\ Sp!SpendEffect(row) = Sp!DomainSpending(row)
              /\ Sp!CashflowEffect(row) = Sp!DomainCashflow(row)
<1>1. /\ row.amount \in Int \cup {None} /\ row.excluded \in BOOLEAN /\ row.duplicate \in BOOLEAN
      /\ None \notin Int
  BY ReportAssumption DEF Sp!IsRow
<1>2. /\ Sp!Plus(row.amount) \in Int \cup {None} /\ Sp!Minus(row.amount) \in Int \cup {None}
      /\ Sp!Plus(row.amount) = None => row.amount = None
      /\ Sp!Minus(row.amount) = None => row.amount = None
  <2>1. CASE row.amount = None
    BY <2>1 DEF Sp!Plus, Sp!Minus
  <2>2. CASE row.amount \in Int
    <3>1. Sp!Plus(row.amount) \in Int /\ Sp!Minus(row.amount) \in Int
      BY <1>1, <2>2 DEF Sp!Plus, Sp!Minus, Sp!Abs
    <3> QED
      BY <1>1, <3>1
  <2> QED
    BY <1>1, <2>1, <2>2
<1>3. 0 \in Int /\ 0 # None
  BY <1>1
<1>4. /\ Sp!SpendEffect(row) \in {0, Sp!Plus(row.amount), Sp!Minus(row.amount)}
      /\ Sp!Gone(row) => Sp!SpendEffect(row) = 0
      /\ ~Sp!Gone(row) => Sp!SpendEffect(row) = Sp!DomainSpending(row)
  <2>1. CASE Sp!Gone(row) \/ row.excluded
    BY <1>1, <2>1 DEF Sp!SpendEffect, Sp!DomainSpending
  <2>2. CASE ~Sp!Gone(row) /\ ~row.excluded /\ row.role \in Sp!Spent
    BY <2>2 DEF Sp!SpendEffect, Sp!DomainSpending, Sp!Spent, Sp!Returned
  <2>3. CASE ~Sp!Gone(row) /\ ~row.excluded /\ row.role \in Sp!Returned
    BY <2>3 DEF Sp!SpendEffect, Sp!DomainSpending, Sp!Spent, Sp!Returned
  <2>4. CASE ~Sp!Gone(row) /\ ~row.excluded /\ row.role \notin Sp!Spent \cup Sp!Returned
    BY <2>4 DEF Sp!SpendEffect, Sp!DomainSpending, Sp!Spent, Sp!Returned
  <2> QED
    BY <1>1, <2>1, <2>2, <2>3, <2>4
<1>5. /\ Sp!CashflowEffect(row) \in {0, Sp!Plus(row.amount), Sp!Minus(row.amount)}
      /\ Sp!Gone(row) => Sp!CashflowEffect(row) = 0
      /\ ~Sp!Gone(row) => Sp!CashflowEffect(row) = Sp!DomainCashflow(row)
  <2> DEFINE counts == ~Sp!Gone(row) /\ row.account \in Deposits /\ row.role # "TRANSFER"
  <2>1. CASE ~counts
    BY <2>1 DEF Sp!CashflowEffect, Sp!DomainCashflow
  <2>2. CASE counts /\ row.direction = "INFLOW"
    BY <2>2 DEF Sp!CashflowEffect, Sp!DomainCashflow
  <2>3. CASE counts /\ row.direction = "OUTFLOW"
    BY <2>3 DEF Sp!CashflowEffect, Sp!DomainCashflow
  <2>4. CASE counts /\ row.direction \notin {"INFLOW", "OUTFLOW"}
    BY <2>4 DEF Sp!CashflowEffect, Sp!DomainCashflow
  <2> QED
    BY <2>1, <2>2, <2>3, <2>4
<1> QED
  BY <1>1, <1>2, <1>3, <1>4, <1>5

-----------------------------------------------------------------------------
\* Sums of effects, which are numbers or none.
Effect == [Shops -> Int \cup {None}]

LEMMA SumOfEffects ==
  ASSUME NEW effect \in Effect, NEW ts \in SUBSET Shops
  PROVE  LET counted == {t \in ts : effect[t] # None}
         IN /\ Sp!Sum(effect, ts) = SumFunctionOnSet(effect, counted)
            /\ counted \in SUBSET Shops /\ IsFiniteSet(counted) /\ Integral(effect, counted)
            /\ Sp!Sum(effect, ts) \in Int
<1> DEFINE counted == {t \in ts : effect[t] # None}
<1>1. counted \in SUBSET Shops /\ IsFiniteSet(counted)
  BY ReportAssumption, FS_Subset
<1>2. Integral(effect, counted)
  BY DEF Effect, Integral
<1>3. Sp!Sum(effect, ts) = SumFunctionOnSet(effect, counted)
  BY SameSum DEF Sp!Sum
<1> HIDE DEF counted
<1>4. SumFunctionOnSet(effect, counted) \in Int
  BY <1>1, <1>2, SumOfRest
<1> QED
  BY <1>1, <1>2, <1>3, <1>4 DEF counted

\* Transactions without an effect can be left out.
LEMMA SumOfEffective ==
  ASSUME NEW effect \in Effect, NEW ts \in SUBSET Shops, NEW some \in SUBSET ts,
         \A t \in ts \ some : ~Sp!Effective(effect[t])
  PROVE  Sp!Sum(effect, ts) = Sp!Sum(effect, some)
<1> DEFINE all == {t \in ts : effect[t] # None}
           few == {t \in some : effect[t] # None}
<1>1. /\ Sp!Sum(effect, ts) = SumFunctionOnSet(effect, all) /\ IsFiniteSet(all)
      /\ Integral(effect, all) /\ Sp!Sum(effect, some) = SumFunctionOnSet(effect, few)
  BY SumOfEffects
<1>2. few \in SUBSET all /\ \A t \in all \ few : effect[t] = 0
  BY DEF Sp!Effective
<1> HIDE DEF all, few
<1> QED
  BY <1>1, <1>2, SumOfNonzero

\* The rows of a report and the transactions of each.
RowsOf(ts, rowOf) == {rowOf[t] : t \in ts}
RowsOfGroup(rows, g) == {r \in rows : r.group = g}
NetOf(rows) == [r \in rows |-> r.spending.net]
CountOf(rows) == [r \in rows |-> r.spending.count]
CashOf(rows) == [r \in rows |-> r.cash.net]
EffectiveOf(effect, ts) == {t \in ts : Sp!Effective(effect[t])}

\* The transactions of the row of t.
Shares(seen, ts, key, t) ==
    {u \in ts : Sp!Group(seen[u]) = Sp!Group(seen[t]) /\ key[u] = key[t]}

LEMMA FiniteRows ==
  ASSUME NEW ts \in SUBSET Shops, NEW rowOf
  PROVE  IsFiniteSet(RowsOf(ts, rowOf))
<1> DEFINE rows == {rowOf[t] : t \in ts}
           row == [t \in ts |-> rowOf[t]]
<1>1. IsFiniteSet(ts)
  BY ReportAssumption, FS_Subset
<1>2. row \in Surjection(ts, rows)
  BY DEF Surjection
<1> HIDE DEF rows, row
<1>3. IsFiniteSet(rows)
  BY <1>1, <1>2, FS_Surjection
<1> QED
  BY <1>3 DEF rows, RowsOf

LEMMA SumByRows ==
  ASSUME NEW seen, NEW effect \in Effect, NEW ts \in SUBSET Shops, NEW some \in SUBSET ts,
         NEW key, NEW rowOf, NEW g, NEW value,
         \A t \in ts : rowOf[t].key = key[t] /\ rowOf[t].group = Sp!Group(seen[t]),
         \A t, u \in ts : key[t] = key[u] /\ Sp!Group(seen[t]) = Sp!Group(seen[u])
                            => rowOf[t] = rowOf[u],
         \A t \in ts : value[rowOf[t]] = Sp!Sum(effect, Shares(seen, some, key, t))
  PROVE  SumFunctionOnSet(value, RowsOfGroup(RowsOf(ts, rowOf), g))
           = Sp!Sum(effect, Sp!At(seen, some, g))
<1> DEFINE rows == {r \in RowsOf(ts, rowOf) : r.group = g}
           of == {t \in Sp!At(seen, some, g) : effect[t] # None}
           shares(t) == Shares(seen, some, key, t)
<1>1. IsFiniteSet(rows)
  <2>1. IsFiniteSet(RowsOf(ts, rowOf))
    BY FiniteRows
  <2> QED
    BY <2>1, FS_Subset
<1>2. /\ Sp!Sum(effect, Sp!At(seen, some, g)) = SumFunctionOnSet(effect, of)
      /\ IsFiniteSet(of) /\ Integral(effect, of)
  <2>1. Sp!At(seen, some, g) \in SUBSET Shops
    BY DEF Sp!At
  <2> QED
    BY <2>1, SumOfEffects
<1>3. \A t \in of : t \in ts /\ rowOf[t] \in rows
  BY DEF Sp!At, RowsOf
<1>4. ASSUME NEW r \in rows
      PROVE  value[r] = SumFunctionOnSet(effect, {t \in of : rowOf[t] = r})
  <2>1. PICK t \in ts : r = rowOf[t] /\ Sp!Group(seen[t]) = g
    BY DEF RowsOf
  <2>2. {u \in of : rowOf[u] = r} = {u \in shares(t) : effect[u] # None}
    <3>1. ASSUME NEW u \in of, rowOf[u] = r PROVE u \in shares(t) /\ effect[u] # None
      BY <2>1, <3>1 DEF Sp!At, Shares
    <3>2. ASSUME NEW u \in shares(t), effect[u] # None PROVE u \in of /\ rowOf[u] = r
      BY <2>1, <3>2 DEF Sp!At, Shares
    <3> HIDE DEF of, shares
    <3> QED
      BY <3>1, <3>2
  <2>3. shares(t) \in SUBSET Shops
    BY DEF Shares
  <2>4. value[r] = Sp!Sum(effect, shares(t))
    BY <2>1
  <2> HIDE DEF shares, of
  <2>5. Sp!Sum(effect, shares(t)) = SumFunctionOnSet(effect, {u \in shares(t) : effect[u] # None})
    BY <2>3, SumOfEffects
  <2> QED
    BY <2>2, <2>4, <2>5
<1> HIDE DEF rows, of
<1>5. SumFunctionOnSet(value, rows) = SumFunctionOnSet(effect, of)
  <2>1. /\ IsFiniteSet(of) /\ Integral(effect, of) /\ IsFiniteSet(rows)
        /\ \A t \in of : rowOf[t] \in rows
        /\ \A r \in rows : value[r] = SumFunctionOnSet(effect, Class(of, rowOf, r))
    BY <1>1, <1>2, <1>3, <1>4 DEF Class
  <2> QED
    BY <2>1, SumByClasses
<1> QED
  BY <1>2, <1>5 DEF rows, RowsOfGroup

\* The number of transactions with an effect is a sum as well.
Ones(effect) == [t \in Shops |-> IF Sp!Effective(effect[t]) THEN 1 ELSE 0]

LEMMA CountOfEffective ==
  ASSUME NEW effect, NEW ts \in SUBSET Shops
  PROVE  /\ Ones(effect) \in Effect
         /\ Sp!Cardinality({t \in ts : Sp!Effective(effect[t])}) = Sp!Sum(Ones(effect), ts)
<1> DEFINE ones == Ones(effect)
           some == {t \in ts : Sp!Effective(effect[t])}
           counted == {t \in some : ones[t] # None}
<1>1. ones \in Effect
  BY DEF Effect, Ones
<1>2. /\ some \in SUBSET ts /\ some \in SUBSET Shops
      /\ \A t \in ts \ some : ones[t] = 0
      /\ \A t \in some : ones[t] = 1
  BY DEF Ones
<1>3. counted = some
  BY <1>2, ReportAssumption
<1> HIDE DEF ones, some
<1>4. Sp!Sum(ones, ts) = Sp!Sum(ones, some)
  BY <1>1, <1>2, SumOfEffective DEF Sp!Effective
<1>5. Sp!Sum(ones, some) = SumFunctionOnSet(ones, some)
  BY <1>1, <1>2, <1>3, SumOfEffects
<1>6. IsFiniteSet(some)
  BY <1>2, ReportAssumption, FS_Subset
<1>7. SumFunctionOnSet(ones, some) = Cardinality(some)
  BY <1>2, <1>6, SumOfOnes
<1> QED
  BY <1>1, <1>4, <1>5, <1>7, SameSum DEF ones, some

\* The effects of what a report sees.
LEMMA EffectsSeen ==
  ASSUME NEW seen \in [Shops -> Entries]
  PROVE  /\ Sp!Spends(seen) \in Effect /\ Sp!Cashes(seen) \in Effect
         /\ \A t \in Shops : /\ Sp!Spends(seen)[t] = Sp!SpendEffect(seen[t])
                             /\ Sp!Cashes(seen)[t] = Sp!CashflowEffect(seen[t])
<1>1. \A t \in Shops : Sp!IsRow(seen[t])
  BY ReportAssumption
<1> QED
  BY <1>1, EffectsOfRow DEF Sp!Spends, Sp!Cashes, Effect

\* Net spending is what was spent less what was returned.
LEMMA NetSpending ==
  ASSUME NEW seen \in [Shops -> Entries], NEW ts \in SUBSET Shops
  PROVE  LET metrics == Sp!Spending(seen, ts)
         IN /\ metrics.net = Sp!Sum(Sp!Spends(seen), ts)
            /\ metrics.count = Sp!Cardinality({t \in ts : Sp!Effective(Sp!Spends(seen)[t])})
            /\ metrics.net = metrics.gross - metrics.refund
<1> DEFINE spend == Sp!Spends(seen)
           gross == [t \in ts |-> IF spend[t] = None THEN None ELSE Sp!Positive(spend[t])]
           refund == [t \in ts |-> IF spend[t] = None THEN None ELSE Sp!Positive(-spend[t])]
           counted == {t \in ts : spend[t] # None}
           metrics == Sp!Spending(seen, ts)
<1>1. metrics = [gross |-> Sp!Sum(gross, ts), refund |-> Sp!Sum(refund, ts),
                 net |-> Sp!Sum(spend, ts),
                 count |-> Sp!Cardinality({t \in ts : Sp!Effective(spend[t])})]
  BY DEF Sp!Spending
<1>2. spend \in Effect
  BY EffectsSeen
<1> HIDE DEF spend, metrics
<1>3. Sp!Sum(spend, ts) = SumFunctionOnSet(spend, counted) /\ IsFiniteSet(counted)
  BY <1>2, SumOfEffects
<1>4. ASSUME NEW t \in ts
      PROVE  /\ gross[t] # None <=> t \in counted
             /\ refund[t] # None <=> t \in counted
             /\ t \in counted => /\ gross[t] \in Int /\ refund[t] \in Int
                                 /\ spend[t] = gross[t] - refund[t]
  <2>1. spend[t] = None \/ spend[t] \in Int
    BY <1>2 DEF Effect
  <2>2. None \notin Int
    BY ReportAssumption
  <2>3. CASE spend[t] = None
    BY <2>3
  <2>4. CASE spend[t] \in Int
    <3>1. gross[t] = Sp!Positive(spend[t]) /\ refund[t] = Sp!Positive(-spend[t]) /\ t \in counted
      BY <2>2, <2>4
    <3>2. /\ Sp!Positive(spend[t]) \in Int /\ Sp!Positive(-spend[t]) \in Int
          /\ spend[t] = Sp!Positive(spend[t]) - Sp!Positive(-spend[t])
      BY <2>4 DEF Sp!Positive
    <3> HIDE DEF gross, refund, counted
    <3> QED
      BY <2>2, <3>1, <3>2
  <2> QED
    BY <2>1, <2>3, <2>4
<1>5. {t \in ts : gross[t] # None} = counted /\ {t \in ts : refund[t] # None} = counted
  <2> HIDE DEF gross, refund
  <2>1. counted \subseteq ts
    OBVIOUS
  <2> HIDE DEF counted
  <2> QED
    BY <1>4, <2>1
<1>6. /\ Sp!Sum(gross, ts) = SumFunctionOnSet(gross, counted)
      /\ Sp!Sum(refund, ts) = SumFunctionOnSet(refund, counted)
  BY <1>5, SameSum DEF Sp!Sum
<1>7. counted \subseteq ts
  OBVIOUS
<1> HIDE DEF gross, refund, counted
<1>8. /\ Integral(gross, counted) /\ Integral(refund, counted)
      /\ \A t \in counted : spend[t] = gross[t] - refund[t]
  BY <1>4, <1>7 DEF Integral
<1>9. SumFunctionOnSet(spend, counted)
        = SumFunctionOnSet(gross, counted) - SumFunctionOnSet(refund, counted)
  BY <1>3, <1>8, SumOfDifference
<1>10. /\ metrics.net = Sp!Sum(spend, ts)
       /\ metrics.count = Sp!Cardinality({t \in ts : Sp!Effective(spend[t])})
       /\ metrics.gross = Sp!Sum(gross, ts) /\ metrics.refund = Sp!Sum(refund, ts)
  BY <1>1
<1> QED
  BY <1>3, <1>6, <1>9, <1>10 DEF metrics, spend

\* A list that is not cut has all of its rows, and none has more than the limit.
LEMMA CutOrWhole ==
  ASSUME NEW found, IsFiniteSet(found), NEW size, NEW given \in Sp!Largest(found, size)
  PROVE  /\ IsFiniteSet(given.rows) /\ Sp!Cardinality(given.rows) <= Limit
         /\ given.rows \in SUBSET found
         /\ given.cut \/ given.rows = found
<1>1. PICK shown \in SUBSET found :
        /\ given = [rows |-> shown, cut |-> Cardinality(found) > Limit]
        /\ Cardinality(shown) = Sp!Shown(Cardinality(found))
  BY SameSum DEF Sp!Largest
<1>2. Cardinality(found) \in Nat /\ Limit \in Nat
  BY ReportAssumption, FS_CardinalityType
<1>3. Sp!Shown(Cardinality(found))
        = IF Cardinality(found) <= Limit THEN Cardinality(found) ELSE Limit
  BY <1>2, LesserOf DEF Sp!Shown, Sp!Min, Pe!Min
<1>4. IsFiniteSet(shown) /\ (Cardinality(shown) = Cardinality(found) => shown = found)
  BY FS_Subset
<1>5. given.rows = shown /\ given.cut = (Cardinality(found) > Limit)
  BY <1>1
<1>6. Cardinality(shown) <= Limit
  BY <1>1, <1>2, <1>3
<1>7. Sp!Cardinality(shown) <= Limit
  BY <1>6, SameSum
<1>8. CASE Cardinality(found) > Limit
  BY <1>4, <1>5, <1>7, <1>8
<1>9. CASE Cardinality(found) <= Limit
  <2>1. shown = found
    BY <1>1, <1>3, <1>4, <1>9
  <2> QED
    BY <1>4, <1>5, <1>7, <2>1
<1> QED
  BY <1>2, <1>8, <1>9

-----------------------------------------------------------------------------
LEMMA SharesAgree ==
  ASSUME NEW seen, NEW ts, NEW key, NEW t \in ts, NEW u \in ts,
         key[t] = key[u], Sp!Group(seen[t]) = Sp!Group(seen[u])
  PROVE  Shares(seen, ts, key, t) = Shares(seen, ts, key, u)
BY DEF Shares

\* The groups of a statement are those of its transactions.
LEMMA GroupsShare ==
  ASSUME NEW seen, NEW ts, NEW key
  PROVE  /\ \A t \in ts : [key |-> key[t], group |-> Sp!Group(seen[t]),
                           of |-> Shares(seen, ts, key, t)] \in Sp!Groups(seen, ts, key)
         /\ \A e \in Sp!Groups(seen, ts, key) :
              \E t \in ts : e = [key |-> key[t], group |-> Sp!Group(seen[t]),
                                 of |-> Shares(seen, ts, key, t)]
<1>1. \A t \in ts : {u \in Sp!At(seen, ts, Sp!Group(seen[t])) : key[u] = key[t]}
                      = Shares(seen, ts, key, t)
  BY DEF Shares, Sp!At
<1> QED
  BY <1>1 DEF Sp!Groups

\* The transactions of a time series, and their periods.
Moved(seen, q) == {t \in Sp!Eligible(seen, q) : \/ Sp!Effective(Sp!SpendEffect(seen[t]))
                                                \/ Sp!Effective(Sp!CashflowEffect(seen[t]))}
PeriodsOf(seen, q) == [t \in Moved(seen, q) |-> PeriodOf(seen[t].date)]

\* The time series adds up to the totals, and a row of it is one of its period.
LEMMA SeriesAddsUp ==
  ASSUME NEW seen \in [Shops -> Entries], NEW q
  PROVE  LET series == Sp!TimeSeries(seen, q)
         IN /\ \A g :
                 /\ SumFunctionOnSet(NetOf(series), RowsOfGroup(series, g))
                      = Sp!Sum(Sp!Spends(seen), Sp!At(seen, Sp!Eligible(seen, q), g))
                 /\ SumFunctionOnSet(CashOf(series), RowsOfGroup(series, g))
                      = Sp!Sum(Sp!Cashes(seen), Sp!At(seen, Sp!Eligible(seen, q), g))
            /\ \A r \in series : \E t \in Moved(seen, q) :
                 /\ r.key = PeriodsOf(seen, q)[t] /\ r.group = Sp!Group(seen[t])
                 /\ r.spending.net
                      = Sp!Sum(Sp!Spends(seen), Shares(seen, Moved(seen, q), PeriodsOf(seen, q), t))
<1> DEFINE series == Sp!TimeSeries(seen, q)
           eligible == Sp!Eligible(seen, q)
           moved == {t \in eligible : \/ Sp!Effective(Sp!SpendEffect(seen[t]))
                                      \/ Sp!Effective(Sp!CashflowEffect(seen[t]))}
           key == [t \in moved |-> PeriodOf(seen[t].date)]
           shares(t) == Shares(seen, moved, key, t)
           rowOf == [t \in moved |-> [key |-> key[t], group |-> Sp!Group(seen[t]),
                                      spending |-> Sp!Spending(seen, shares(t)),
                                      cash |-> Sp!CashFlow(seen, shares(t))]]
           spends == Sp!Spends(seen)
           cashes == Sp!Cashes(seen)
<1>1. /\ eligible \in SUBSET Shops /\ moved \in SUBSET eligible /\ moved \in SUBSET Shops
      /\ \A t \in moved : shares(t) \in SUBSET moved /\ shares(t) \in SUBSET Shops
  BY DEF Sp!Eligible, Shares
<1>2. series = RowsOf(moved, rowOf)
  <2>1. series = {[key |-> e.key, group |-> e.group, spending |-> Sp!Spending(seen, e.of),
                   cash |-> Sp!CashFlow(seen, e.of)] : e \in Sp!Groups(seen, moved, key)}
    BY DEF Sp!TimeSeries
  <2> HIDE DEF series, moved, key, rowOf
  <2>2. /\ \A t \in moved : [key |-> key[t], group |-> Sp!Group(seen[t]), of |-> shares(t)]
                              \in Sp!Groups(seen, moved, key)
        /\ \A e \in Sp!Groups(seen, moved, key) : \E t \in moved :
             e = [key |-> key[t], group |-> Sp!Group(seen[t]), of |-> shares(t)]
    BY GroupsShare
  <2>3. \A t \in moved : rowOf[t] = [key |-> key[t], group |-> Sp!Group(seen[t]),
                                     spending |-> Sp!Spending(seen, shares(t)),
                                     cash |-> Sp!CashFlow(seen, shares(t))]
    BY DEF rowOf
  <2> HIDE DEF shares
  <2>4. ASSUME NEW r \in series PROVE r \in RowsOf(moved, rowOf)
    BY <2>1, <2>2, <2>3 DEF RowsOf
  <2>5. ASSUME NEW r \in RowsOf(moved, rowOf) PROVE r \in series
    <3>1. PICK t \in moved : r = rowOf[t]
      BY DEF RowsOf
    <3> DEFINE e == [key |-> key[t], group |-> Sp!Group(seen[t]), of |-> shares(t)]
    <3>2. e \in Sp!Groups(seen, moved, key)
      BY <2>2
    <3>3. e.key = key[t] /\ e.group = Sp!Group(seen[t]) /\ e.of = shares(t)
      OBVIOUS
    <3> HIDE DEF e
    <3> QED
      BY <2>1, <2>3, <3>1, <3>2, <3>3
  <2> QED
    BY <2>4, <2>5
<1>3. ASSUME NEW t \in moved
      PROVE  /\ rowOf[t].key = key[t] /\ rowOf[t].group = Sp!Group(seen[t])
             /\ rowOf[t].spending.net = Sp!Sum(spends, shares(t))
             /\ rowOf[t].cash.net = Sp!Sum(cashes, shares(t))
  <2>1. /\ Sp!Spending(seen, shares(t)).net = Sp!Sum(spends, shares(t))
        /\ Sp!CashFlow(seen, shares(t)).net = Sp!Sum(cashes, shares(t))
    BY DEF Sp!Spending, Sp!CashFlow
  <2> HIDE DEF shares, key, spends, cashes
  <2> QED
    BY <2>1
<1>4. ASSUME NEW t \in moved, NEW u \in moved,
             key[t] = key[u], Sp!Group(seen[t]) = Sp!Group(seen[u])
      PROVE  rowOf[t] = rowOf[u]
  <2>1. shares(t) = shares(u)
    BY <1>4, SharesAgree
  <2> HIDE DEF shares, key, moved
  <2> QED
    BY <1>4, <2>1
<1>5. spends \in Effect /\ cashes \in Effect
      /\ \A t \in Shops : /\ spends[t] = Sp!SpendEffect(seen[t])
                          /\ cashes[t] = Sp!CashflowEffect(seen[t])
  BY EffectsSeen
<1>6. \A t \in eligible \ moved : ~Sp!Effective(spends[t]) /\ ~Sp!Effective(cashes[t])
  BY <1>1, <1>5
<1> HIDE DEF series, eligible, moved, key, rowOf, spends, cashes, shares
<1>8. \A r \in series : \E t \in moved :
        /\ r.key = key[t] /\ r.group = Sp!Group(seen[t])
        /\ r.spending.net = Sp!Sum(spends, shares(t))
  BY <1>2, <1>3 DEF RowsOf
<1>9. ASSUME NEW effect \in Effect, NEW value, NEW g,
             \A t \in eligible \ moved : ~Sp!Effective(effect[t]),
             \A t \in moved : value[rowOf[t]] = Sp!Sum(effect, shares(t))
      PROVE  SumFunctionOnSet(value, {r \in series : r.group = g})
               = Sp!Sum(effect, Sp!At(seen, eligible, g))
  <2>1. \A t \in moved : value[rowOf[t]] = Sp!Sum(effect, Shares(seen, moved, key, t))
    BY <1>9 DEF shares
  <2>2. SumFunctionOnSet(value, RowsOfGroup(RowsOf(moved, rowOf), g))
          = Sp!Sum(effect, Sp!At(seen, moved, g))
    <3>1. moved \in SUBSET moved
      OBVIOUS
    <3>2. \A t \in moved : rowOf[t].key = key[t] /\ rowOf[t].group = Sp!Group(seen[t])
      BY <1>3
    <3>3. \A t, u \in moved : key[t] = key[u] /\ Sp!Group(seen[t]) = Sp!Group(seen[u])
                                => rowOf[t] = rowOf[u]
      BY <1>4
    <3> QED
      BY <1>1, <2>1, <3>1, <3>2, <3>3, SumByRows
  <2>3. /\ Sp!At(seen, eligible, g) \in SUBSET Shops
        /\ Sp!At(seen, moved, g) \in SUBSET Sp!At(seen, eligible, g)
        /\ \A t \in Sp!At(seen, eligible, g) \ Sp!At(seen, moved, g) : ~Sp!Effective(effect[t])
    BY <1>1, <1>9 DEF Sp!At
  <2>4. Sp!Sum(effect, Sp!At(seen, eligible, g)) = Sp!Sum(effect, Sp!At(seen, moved, g))
    BY <2>3, SumOfEffective
  <2> QED
    BY <1>2, <2>2, <2>4 DEF RowsOfGroup
<1>10. ASSUME NEW g
       PROVE  /\ SumFunctionOnSet([r \in series |-> r.spending.net], {r \in series : r.group = g})
                   = Sp!Sum(spends, Sp!At(seen, eligible, g))
              /\ SumFunctionOnSet([r \in series |-> r.cash.net], {r \in series : r.group = g})
                   = Sp!Sum(cashes, Sp!At(seen, eligible, g))
  <2> DEFINE net == [r \in series |-> r.spending.net]
             cash == [r \in series |-> r.cash.net]
  <2>1. \A t \in moved : rowOf[t] \in series
    BY <1>2 DEF RowsOf
  <2>2. \A t \in moved : /\ net[rowOf[t]] = Sp!Sum(spends, shares(t))
                         /\ cash[rowOf[t]] = Sp!Sum(cashes, shares(t))
    BY <1>3, <2>1
  <2> HIDE DEF net, cash
  <2>3. SumFunctionOnSet(net, {r \in series : r.group = g})
          = Sp!Sum(spends, Sp!At(seen, eligible, g))
    BY <1>5, <1>6, <1>9, <2>2
  <2>4. SumFunctionOnSet(cash, {r \in series : r.group = g})
          = Sp!Sum(cashes, Sp!At(seen, eligible, g))
    BY <1>5, <1>6, <1>9, <2>2
  <2> QED
    BY <2>3, <2>4 DEF net, cash
<1> QED
  BY <1>8, <1>10 DEF series, eligible, moved, key, shares, spends, cashes, Moved, PeriodsOf,
                     RowsOfGroup, NetOf, CashOf

\* A breakdown by a field that is not cut adds up to the totals, and has their groups.
LEMMA BreakdownAddsUp ==
  ASSUME NEW seen \in [Shops -> Entries], NEW q, NEW field, NEW given \in Sp!Breakdowns(seen, q, field)
  PROVE  /\ Sp!Cardinality(given.rows) <= Limit
         /\ \A r \in given.rows : \E t \in Sp!Eligible(seen, q) : r.group = Sp!Group(seen[t])
         /\ ~given.cut => \A g :
              /\ SumFunctionOnSet(NetOf(given.rows), RowsOfGroup(given.rows, g))
                   = Sp!Sum(Sp!Spends(seen), Sp!At(seen, Sp!Eligible(seen, q), g))
              /\ SumFunctionOnSet(CountOf(given.rows), RowsOfGroup(given.rows, g))
                   = Sp!Cardinality(EffectiveOf(Sp!Spends(seen),
                                                Sp!At(seen, Sp!Eligible(seen, q), g)))
<1> DEFINE eligible == Sp!Eligible(seen, q)
           spent == {t \in eligible : Sp!Effective(Sp!SpendEffect(seen[t]))}
           key == [t \in spent |-> seen[t][field]]
           shares(t) == Shares(seen, spent, key, t)
           rowOf == [t \in spent |-> [key |-> key[t], group |-> Sp!Group(seen[t]),
                                      spending |-> Sp!Spending(seen, shares(t))]]
           found == RowsOf(spent, rowOf)
           spends == Sp!Spends(seen)
           ones == Ones(spends)
<1>1. /\ eligible \in SUBSET Shops /\ spent \in SUBSET eligible /\ spent \in SUBSET Shops
      /\ \A t \in spent : shares(t) \in SUBSET spent /\ shares(t) \in SUBSET Shops
  BY DEF Sp!Eligible, Shares
<1>2. \E size : given \in Sp!Largest(found, size)
  <2> DEFINE rows == {[key |-> e.key, group |-> e.group, spending |-> Sp!Spending(seen, e.of)] :
                      e \in Sp!Groups(seen, spent, key)}
  <2>1. given \in Sp!Largest(rows, [r \in rows |-> Sp!Abs(r.spending.net)])
    BY DEF Sp!Breakdowns
  <2> HIDE DEF spent, key, rowOf
  <2>2. /\ \A t \in spent : [key |-> key[t], group |-> Sp!Group(seen[t]), of |-> shares(t)]
                              \in Sp!Groups(seen, spent, key)
        /\ \A e \in Sp!Groups(seen, spent, key) : \E t \in spent :
             e = [key |-> key[t], group |-> Sp!Group(seen[t]), of |-> shares(t)]
    BY GroupsShare
  <2>3. \A t \in spent : rowOf[t] = [key |-> key[t], group |-> Sp!Group(seen[t]),
                                     spending |-> Sp!Spending(seen, shares(t))]
    BY DEF rowOf
  <2> HIDE DEF shares
  <2>4. ASSUME NEW r \in rows PROVE r \in found
    BY <2>2, <2>3 DEF RowsOf
  <2>5. ASSUME NEW r \in found PROVE r \in rows
    <3>1. PICK t \in spent : r = rowOf[t]
      BY DEF RowsOf
    <3> DEFINE e == [key |-> key[t], group |-> Sp!Group(seen[t]), of |-> shares(t)]
    <3>2. e \in Sp!Groups(seen, spent, key)
      BY <2>2
    <3>3. e.key = key[t] /\ e.group = Sp!Group(seen[t]) /\ e.of = shares(t)
      OBVIOUS
    <3> HIDE DEF e
    <3> QED
      BY <2>3, <3>1, <3>2, <3>3
  <2> HIDE DEF rows, found
  <2>6. rows = found
    BY <2>4, <2>5
  <2> QED
    BY <2>1, <2>6
<1>3. spends \in Effect /\ \A t \in Shops : spends[t] = Sp!SpendEffect(seen[t])
  BY EffectsSeen
<1>4. ones \in Effect
      /\ \A ts \in SUBSET Shops :
           Sp!Cardinality({t \in ts : Sp!Effective(spends[t])}) = Sp!Sum(ones, ts)
  BY CountOfEffective
<1>5. ASSUME NEW t \in spent
      PROVE  /\ rowOf[t].key = key[t] /\ rowOf[t].group = Sp!Group(seen[t])
             /\ rowOf[t].spending.net = Sp!Sum(spends, shares(t))
             /\ rowOf[t].spending.count = Sp!Sum(ones, shares(t))
  <2>1. /\ Sp!Spending(seen, shares(t)).net = Sp!Sum(spends, shares(t))
        /\ Sp!Spending(seen, shares(t)).count
             = Sp!Cardinality({u \in shares(t) : Sp!Effective(spends[u])})
    BY DEF Sp!Spending
  <2> HIDE DEF shares, key, spends, ones
  <2>2. Sp!Spending(seen, shares(t)).count = Sp!Sum(ones, shares(t))
    BY <1>1, <1>4, <2>1
  <2> QED
    BY <2>1, <2>2
<1>6. ASSUME NEW t \in spent, NEW u \in spent,
             key[t] = key[u], Sp!Group(seen[t]) = Sp!Group(seen[u])
      PROVE  rowOf[t] = rowOf[u]
  <2>1. shares(t) = shares(u)
    BY <1>6, SharesAgree
  <2> HIDE DEF shares, key, spent
  <2> QED
    BY <1>6, <2>1
<1>7. \A t \in eligible \ spent : ~Sp!Effective(spends[t]) /\ ~Sp!Effective(ones[t])
  <2>1. \A t \in eligible \ spent : t \in Shops /\ ~Sp!Effective(spends[t])
    BY <1>1, <1>3
  <2> QED
    BY <2>1 DEF Ones, Sp!Effective
<1> HIDE DEF eligible, spent, key, rowOf, spends, ones, shares
<1>8. IsFiniteSet(found)
  BY <1>1, FiniteRows
<1>9. \A r \in found : \E t \in eligible : r.group = Sp!Group(seen[t])
  BY <1>1, <1>5 DEF RowsOf
<1> HIDE DEF found
<1>10. /\ Sp!Cardinality(given.rows) <= Limit /\ given.rows \in SUBSET found
       /\ given.cut \/ given.rows = found
  BY <1>2, <1>8, CutOrWhole
<1>11. ASSUME NEW effect \in Effect, NEW value, NEW g,
              \A t \in eligible \ spent : ~Sp!Effective(effect[t]),
              \A t \in spent : value[rowOf[t]] = Sp!Sum(effect, shares(t))
       PROVE  SumFunctionOnSet(value, RowsOfGroup(found, g))
                = Sp!Sum(effect, Sp!At(seen, eligible, g))
  <2>1. \A t \in spent : value[rowOf[t]] = Sp!Sum(effect, Shares(seen, spent, key, t))
    BY <1>11 DEF shares
  <2>2. SumFunctionOnSet(value, RowsOfGroup(RowsOf(spent, rowOf), g))
          = Sp!Sum(effect, Sp!At(seen, spent, g))
    <3>1. spent \in SUBSET spent
      OBVIOUS
    <3>2. \A t \in spent : rowOf[t].key = key[t] /\ rowOf[t].group = Sp!Group(seen[t])
      BY <1>5
    <3>3. \A t, u \in spent : key[t] = key[u] /\ Sp!Group(seen[t]) = Sp!Group(seen[u])
                                => rowOf[t] = rowOf[u]
      BY <1>6
    <3> QED
      BY <1>1, <2>1, <3>1, <3>2, <3>3, SumByRows
  <2>3. /\ Sp!At(seen, eligible, g) \in SUBSET Shops
        /\ Sp!At(seen, spent, g) \in SUBSET Sp!At(seen, eligible, g)
        /\ \A t \in Sp!At(seen, eligible, g) \ Sp!At(seen, spent, g) : ~Sp!Effective(effect[t])
    BY <1>1, <1>11 DEF Sp!At
  <2>4. Sp!Sum(effect, Sp!At(seen, eligible, g)) = Sp!Sum(effect, Sp!At(seen, spent, g))
    BY <2>3, SumOfEffective
  <2> QED
    BY <2>2, <2>4 DEF found
<1>12. ASSUME ~given.cut, NEW g
       PROVE  /\ SumFunctionOnSet([r \in given.rows |-> r.spending.net], RowsOfGroup(given.rows, g))
                   = Sp!Sum(spends, Sp!At(seen, eligible, g))
              /\ SumFunctionOnSet([r \in given.rows |-> r.spending.count],
                                  RowsOfGroup(given.rows, g))
                   = Sp!Cardinality({t \in Sp!At(seen, eligible, g) : Sp!Effective(spends[t])})
  <2> DEFINE net == [r \in given.rows |-> r.spending.net]
             count == [r \in given.rows |-> r.spending.count]
  <2>1. given.rows = found
    BY <1>10, <1>12
  <2>2. \A t \in spent : rowOf[t] \in given.rows
    BY <2>1 DEF found, RowsOf
  <2>3. \A t \in spent : /\ net[rowOf[t]] = Sp!Sum(spends, shares(t))
                         /\ count[rowOf[t]] = Sp!Sum(ones, shares(t))
    BY <1>5, <2>2
  <2> HIDE DEF net, count
  <2>4. SumFunctionOnSet(net, RowsOfGroup(given.rows, g))
          = Sp!Sum(spends, Sp!At(seen, eligible, g))
    BY <1>3, <1>7, <1>11, <2>1, <2>3
  <2>5. SumFunctionOnSet(count, RowsOfGroup(given.rows, g))
          = Sp!Sum(ones, Sp!At(seen, eligible, g))
    BY <1>4, <1>7, <1>11, <2>1, <2>3
  <2>6. Sp!At(seen, eligible, g) \in SUBSET Shops
    BY <1>1 DEF Sp!At
  <2> QED
    BY <1>4, <2>4, <2>5, <2>6 DEF net, count
<1> QED
  BY <1>9, <1>10, <1>12 DEF eligible, spends, NetOf, CountOf, EffectiveOf

\* Category changes that are not cut add up to the net spending of each range.
LEMMA ChangesAddUp ==
  ASSUME NEW seen \in [Shops -> Entries], NEW q, NEW given \in Sp!CategoryChanges(seen, q)
  PROVE  /\ Sp!Cardinality(given.rows) <= Limit
         /\ ~given.cut => \A g :
              /\ SumFunctionOnSet([r \in given.rows |-> r.current], RowsOfGroup(given.rows, g))
                   = Sp!Sum(Sp!Spends(seen), Sp!At(seen, Sp!InRange(seen, q, q), g))
              /\ SumFunctionOnSet([r \in given.rows |-> r.comparison], RowsOfGroup(given.rows, g))
                   = Sp!Sum(Sp!Spends(seen), Sp!At(seen, Sp!InRange(seen, q, q.compared), g))
<1> DEFINE spent(range) == {t \in Sp!InRange(seen, q, range) :
                              Sp!Effective(Sp!SpendEffect(seen[t]))}
           now == spent(q)
           then == spent(q.compared)
           both == now \cup then
           key == [t \in both |-> seen[t].category]
           spends == Sp!Spends(seen)
           rowOf == [t \in both |-> [group |-> Sp!Group(seen[t]), key |-> key[t],
                                     current |-> Sp!Sum(spends, Shares(seen, now, key, t)),
                                     comparison |-> Sp!Sum(spends, Shares(seen, then, key, t))]]
           found == RowsOf(both, rowOf)
<1>1. /\ now \in SUBSET both /\ then \in SUBSET both /\ both \in SUBSET Shops
      /\ now \in SUBSET Sp!InRange(seen, q, q) /\ then \in SUBSET Sp!InRange(seen, q, q.compared)
      /\ Sp!InRange(seen, q, q) \in SUBSET Shops /\ Sp!InRange(seen, q, q.compared) \in SUBSET Shops
  BY DEF Sp!InRange
<1>2. spends \in Effect /\ \A t \in Shops : spends[t] = Sp!SpendEffect(seen[t])
  BY EffectsSeen
<1>3. \E size : given \in Sp!Largest(found, size)
  <2> DEFINE of(ts, k) == {t \in Sp!At(seen, ts, k.group) : seen[t].category = k.key}
             line(k) == [group |-> k.group, key |-> k.key,
                         current |-> Sp!Sum(spends, of(now, k)),
                         comparison |-> Sp!Sum(spends, of(then, k))]
             rows == {line(k) : k \in Sp!ChangedKeys(seen, now, then)}
             keyOf(t) == [group |-> Sp!Group(seen[t]), key |-> seen[t].category]
  <2>1. given \in Sp!Largest(rows, [r \in rows |-> Sp!Abs(r.current - r.comparison)])
    BY DEF Sp!CategoryChanges
  <2>2. \A k : k \in Sp!ChangedKeys(seen, now, then) <=> \E t \in both : k = keyOf(t)
    BY DEF Sp!ChangedKeys
  <2>3. ASSUME NEW t \in both, NEW ts \in SUBSET both
        PROVE  of(ts, keyOf(t)) = Shares(seen, ts, key, t)
    <3>1. keyOf(t).group = Sp!Group(seen[t]) /\ keyOf(t).key = key[t]
      OBVIOUS
    <3>2. \A u \in ts : key[u] = seen[u].category
      OBVIOUS
    <3> HIDE DEF keyOf, key, both
    <3> QED
      BY <3>1, <3>2 DEF Shares, Sp!At
  <2>4. ASSUME NEW t \in both PROVE line(keyOf(t)) = rowOf[t]
    <3>1. keyOf(t).group = Sp!Group(seen[t]) /\ keyOf(t).key = key[t]
      OBVIOUS
    <3>2. rowOf[t] = [group |-> Sp!Group(seen[t]), key |-> key[t],
                      current |-> Sp!Sum(spends, Shares(seen, now, key, t)),
                      comparison |-> Sp!Sum(spends, Shares(seen, then, key, t))]
      OBVIOUS
    <3>3. of(now, keyOf(t)) = Shares(seen, now, key, t)
          /\ of(then, keyOf(t)) = Shares(seen, then, key, t)
      <4> HIDE DEF of, keyOf, key, now, then, both
      <4> QED
        BY <1>1, <2>3
    <3> HIDE DEF of, keyOf, key, rowOf, now, then, both
    <3> QED
      BY <3>1, <3>2, <3>3
  <2> HIDE DEF line, keyOf, rowOf, now, then, both
  <2>5. rows = found
    <3>1. \A r : r \in rows <=> \E t \in both : r = line(keyOf(t))
      BY <2>2
    <3>2. \A r : r \in found <=> \E t \in both : r = rowOf[t]
      BY DEF RowsOf
    <3> HIDE DEF rows, found
    <3> QED
      BY <2>4, <3>1, <3>2
  <2> HIDE DEF rows, found
  <2> QED
    BY <2>1, <2>5
<1>4. ASSUME NEW t \in both
      PROVE  /\ rowOf[t].key = key[t] /\ rowOf[t].group = Sp!Group(seen[t])
             /\ rowOf[t].current = Sp!Sum(spends, Shares(seen, now, key, t))
             /\ rowOf[t].comparison = Sp!Sum(spends, Shares(seen, then, key, t))
  <2> HIDE DEF now, then, key, spends
  <2> QED
    OBVIOUS
<1>5. ASSUME NEW t \in both, NEW u \in both,
             key[t] = key[u], Sp!Group(seen[t]) = Sp!Group(seen[u])
      PROVE  rowOf[t] = rowOf[u]
  <2>1. Shares(seen, now, key, t) = Shares(seen, now, key, u)
        /\ Shares(seen, then, key, t) = Shares(seen, then, key, u)
    <3> HIDE DEF now, then, key
    <3> QED
      BY <1>5 DEF Shares
  <2> HIDE DEF now, then, key, both
  <2> QED
    BY <1>5, <2>1
<1>6. \A range : \A t \in Sp!InRange(seen, q, range) \ spent(range) : ~Sp!Effective(spends[t])
  BY <1>2 DEF Sp!InRange
<1>7. /\ \A t \in Sp!InRange(seen, q, q) \ now : ~Sp!Effective(spends[t])
      /\ \A t \in Sp!InRange(seen, q, q.compared) \ then : ~Sp!Effective(spends[t])
  BY <1>6
<1> HIDE DEF now, then, both, key, spends, rowOf, spent
<1>8. IsFiniteSet(found)
  BY <1>1, FiniteRows
<1> HIDE DEF found
<1>9. /\ Sp!Cardinality(given.rows) <= Limit /\ given.rows \in SUBSET found
      /\ given.cut \/ given.rows = found
  BY <1>3, <1>8, CutOrWhole
<1>10. ASSUME NEW some \in SUBSET both, NEW all \in SUBSET Shops, some \in SUBSET all,
              NEW value, NEW g, \A t \in all \ some : ~Sp!Effective(spends[t]),
              \A t \in both : value[rowOf[t]] = Sp!Sum(spends, Shares(seen, some, key, t))
       PROVE  SumFunctionOnSet(value, RowsOfGroup(found, g)) = Sp!Sum(spends, Sp!At(seen, all, g))
  <2>1. SumFunctionOnSet(value, RowsOfGroup(RowsOf(both, rowOf), g))
          = Sp!Sum(spends, Sp!At(seen, some, g))
    <3>1. \A t \in both : rowOf[t].key = key[t] /\ rowOf[t].group = Sp!Group(seen[t])
      BY <1>4
    <3>2. \A t, u \in both : key[t] = key[u] /\ Sp!Group(seen[t]) = Sp!Group(seen[u])
                               => rowOf[t] = rowOf[u]
      BY <1>5
    <3> QED
      BY <1>1, <1>2, <1>10, <3>1, <3>2, SumByRows
  <2>2. /\ Sp!At(seen, all, g) \in SUBSET Shops
        /\ Sp!At(seen, some, g) \in SUBSET Sp!At(seen, all, g)
        /\ \A t \in Sp!At(seen, all, g) \ Sp!At(seen, some, g) : ~Sp!Effective(spends[t])
    BY <1>10 DEF Sp!At
  <2>3. Sp!Sum(spends, Sp!At(seen, all, g)) = Sp!Sum(spends, Sp!At(seen, some, g))
    BY <1>2, <2>2, SumOfEffective
  <2> QED
    BY <2>1, <2>3 DEF found
<1>11. ASSUME ~given.cut, NEW g
       PROVE  /\ SumFunctionOnSet([r \in given.rows |-> r.current], RowsOfGroup(given.rows, g))
                   = Sp!Sum(spends, Sp!At(seen, Sp!InRange(seen, q, q), g))
              /\ SumFunctionOnSet([r \in given.rows |-> r.comparison], RowsOfGroup(given.rows, g))
                   = Sp!Sum(spends, Sp!At(seen, Sp!InRange(seen, q, q.compared), g))
  <2> DEFINE current == [r \in given.rows |-> r.current]
             comparison == [r \in given.rows |-> r.comparison]
  <2>1. given.rows = found
    BY <1>9, <1>11
  <2>2. \A t \in both : rowOf[t] \in given.rows
    BY <2>1 DEF found, RowsOf
  <2>3. \A t \in both : /\ current[rowOf[t]] = Sp!Sum(spends, Shares(seen, now, key, t))
                        /\ comparison[rowOf[t]] = Sp!Sum(spends, Shares(seen, then, key, t))
    BY <1>4, <2>2
  <2> HIDE DEF current, comparison
  <2>4. SumFunctionOnSet(current, RowsOfGroup(given.rows, g))
          = Sp!Sum(spends, Sp!At(seen, Sp!InRange(seen, q, q), g))
    BY <1>1, <1>7, <1>10, <2>1, <2>3
  <2>5. SumFunctionOnSet(comparison, RowsOfGroup(given.rows, g))
          = Sp!Sum(spends, Sp!At(seen, Sp!InRange(seen, q, q.compared), g))
    BY <1>1, <1>7, <1>10, <2>1, <2>3
  <2> QED
    BY <2>4, <2>5 DEF current, comparison
<1> QED
  BY <1>9, <1>11 DEF spends

\* A row of the series for a whole month has what the monthly view has for it.
LEMMA MonthsOfSeries ==
  ASSUME NEW seen \in [Shops -> Entries], NEW q \in Queries, q.months # {},
         NEW r \in Sp!TimeSeries(seen, q), r.group.status = "POSTED", r.key \in q.months
  PROVE  r.spending.net = Sp!MonthlySpend(seen, r.key, r.group)
<1> DEFINE moved == Moved(seen, q)
           key == PeriodsOf(seen, q)
           spends == Sp!Spends(seen)
           month == {t \in Shops : /\ seen[t].status = "POSTED"
                                   /\ PeriodOf(seen[t].date) = r.key
                                   /\ Sp!Group(seen[t]) = r.group}
<1>1. PICK t \in moved : /\ r.key = key[t] /\ r.group = Sp!Group(seen[t])
                         /\ r.spending.net = Sp!Sum(spends, Shares(seen, moved, key, t))
  BY SeriesAddsUp
<1>2. \A u \in Shops : Sp!Group(seen[u]).status = seen[u].status
  BY DEF Sp!Group
<1>3. Shares(seen, moved, key, t) \in SUBSET month
  <2> SUFFICES ASSUME NEW u \in Shares(seen, moved, key, t) PROVE u \in month
    OBVIOUS
  <2>1. u \in moved /\ Sp!Group(seen[u]) = r.group /\ key[u] = r.key
    BY <1>1 DEF Shares
  <2>2. u \in Shops /\ key[u] = PeriodOf(seen[u].date)
    BY <2>1 DEF Sp!Eligible, Moved, PeriodsOf
  <2>3. seen[u].status = "POSTED"
    BY <1>2, <2>1, <2>2
  <2> QED
    BY <2>1, <2>2, <2>3
<1>4. ASSUME NEW u \in month \ Shares(seen, moved, key, t)
      PROVE  ~Sp!Effective(spends[u])
  <2>1. u \in Shops /\ seen[u].status = "POSTED" /\ PeriodOf(seen[u].date) = r.key
        /\ Sp!Group(seen[u]) = r.group /\ seen[u] \in Entries
    OBVIOUS
  <2>2. q.account = None /\ q.category = None /\ Sp!Within(seen[u], q)
    BY <2>1, ReportAssumption
  <2>3. u \in Sp!Eligible(seen, q)
    BY <2>1, <2>2 DEF Sp!Eligible, Sp!Wanted
  <2>4. SUFFICES ASSUME Sp!Effective(spends[u]) PROVE FALSE
    OBVIOUS
  <2>5. u \in moved /\ key[u] = PeriodOf(seen[u].date)
    <3>1. spends[u] = Sp!SpendEffect(seen[u])
      BY <2>1, EffectsSeen
    <3>2. u \in moved
      BY <2>3, <2>4, <3>1 DEF Moved
    <3> QED
      BY <3>2 DEF PeriodsOf
  <2>6. u \in Shares(seen, moved, key, t)
    BY <1>1, <2>1, <2>5 DEF Shares
  <2> QED
    BY <2>6
<1>5. spends \in Effect /\ month \in SUBSET Shops
  BY EffectsSeen
<1>6. Sp!MonthlySpend(seen, r.key, r.group) = Sp!Sum(spends, month)
  BY DEF Sp!MonthlySpend
<1> HIDE DEF month, spends, moved, key
<1> QED
  BY <1>1, <1>3, <1>4, <1>5, <1>6, SumOfEffective

-----------------------------------------------------------------------------
(***************************************************************************)
(* A report in the making: what its statements have returned is what they   *)
(* are of its snapshot, which does not change once it is taken.             *)
(***************************************************************************)

ReportTaken ==
    /\ DOMAIN answers = {"totals", "categories", "merchants", "series", "unconverted"}
    /\ at # "idle" => query \in Queries
    /\ at \in {"merchants", "series"} => query.kind = "summary"
    /\ at \in {"categories", "merchants", "series", "warnings", "done"} =>
         answers.totals = IF query.kind = "summary" THEN Sp!Totals(snapshot, query)
                          ELSE Sp!Changes(snapshot, query)
    /\ at \in {"merchants", "series", "warnings", "done"} =>
         answers.categories \in IF query.kind = "summary"
                                THEN Sp!Breakdowns(snapshot, query, "category")
                                ELSE Sp!CategoryChanges(snapshot, query)
    /\ at \in {"series", "warnings", "done"} /\ query.kind = "summary" =>
         answers.merchants \in Sp!Breakdowns(snapshot, query, "merchant")
    /\ at \in {"warnings", "done"} /\ query.kind = "summary" =>
         answers.series = Sp!TimeSeries(snapshot, query)
    /\ at = "done" /\ query.kind = "summary" =>
         answers.unconverted = Sp!Unconverted(snapshot, query)

ReportInv == part = "summary" => Sp!TypeOK /\ ReportTaken

-----------------------------------------------------------------------------
LEMMA EffectsAlwaysAgree == Sp!TypeOK => Sp!EffectsAgree
BY EffectsOfRow DEF Sp!TypeOK, Sp!EffectsAgree

\* Each total of a summary is of one group of the eligible transactions.
LEMMA TotalsOfGroups ==
  ASSUME NEW seen \in [Shops -> Entries], NEW q
  PROVE  /\ \A u \in Sp!Totals(seen, q) :
              LET ts == Sp!At(seen, Sp!Eligible(seen, q), u.group)
              IN /\ u.spending = Sp!Spending(seen, ts) /\ u.cash.net = Sp!Sum(Sp!Cashes(seen), ts)
                 /\ ts \in SUBSET Shops
         /\ \A t \in Sp!Eligible(seen, q) :
              \E u \in Sp!Totals(seen, q) : u.group = Sp!Group(seen[t])
<1> DEFINE eligible == Sp!Eligible(seen, q)
           total(g) == [group |-> g, spending |-> Sp!Spending(seen, Sp!At(seen, eligible, g)),
                        cash |-> Sp!CashFlow(seen, Sp!At(seen, eligible, g))]
<1>1. Sp!Totals(seen, q) = {total(g) : g \in {Sp!Group(seen[t]) : t \in eligible}}
  BY DEF Sp!Totals
<1>2. \A g : /\ total(g).group = g
             /\ total(g).spending = Sp!Spending(seen, Sp!At(seen, eligible, g))
             /\ total(g).cash.net = Sp!Sum(Sp!Cashes(seen), Sp!At(seen, eligible, g))
  BY DEF Sp!CashFlow
<1>3. \A g : Sp!At(seen, eligible, g) \in SUBSET Shops
  BY DEF Sp!At, Sp!Eligible
<1> HIDE DEF total, eligible
<1>4. \A u \in Sp!Totals(seen, q) : \E g : u = total(g)
  BY <1>1
<1>5. \A t \in eligible : total(Sp!Group(seen[t])) \in Sp!Totals(seen, q)
  BY <1>1
<1> QED
  BY <1>2, <1>3, <1>4, <1>5 DEF eligible

LEMMA SummaryAddsUp == Sp!TypeOK /\ ReportTaken => Sp!SummaryIsConsistent
<1> SUFFICES ASSUME Sp!TypeOK, ReportTaken, at = "done", query.kind = "summary"
             PROVE  Sp!SummaryIsConsistent
  BY DEF Sp!SummaryIsConsistent
<1> DEFINE eligible == Sp!Eligible(snapshot, query)
           spends == Sp!Spends(snapshot)
<1>1. /\ snapshot \in [Shops -> Entries] /\ query \in Queries
      /\ answers.totals = Sp!Totals(snapshot, query)
      /\ answers.categories \in Sp!Breakdowns(snapshot, query, "category")
      /\ answers.merchants \in Sp!Breakdowns(snapshot, query, "merchant")
      /\ answers.series = Sp!TimeSeries(snapshot, query)
      /\ answers.unconverted = Sp!Unconverted(snapshot, query)
  BY DEF Sp!TypeOK, ReportTaken
<1>2. /\ \A u \in answers.totals :
           /\ u.spending = Sp!Spending(snapshot, Sp!At(snapshot, eligible, u.group))
           /\ u.cash.net = Sp!Sum(Sp!Cashes(snapshot), Sp!At(snapshot, eligible, u.group))
           /\ Sp!At(snapshot, eligible, u.group) \in SUBSET Shops
      /\ \A t \in eligible : \E u \in answers.totals : u.group = Sp!Group(snapshot[t])
  BY <1>1, TotalsOfGroups
<1>3. \A u \in answers.totals :
        /\ u.spending.net = Sp!Sum(spends, Sp!At(snapshot, eligible, u.group))
        /\ u.spending.count
             = Sp!Cardinality(EffectiveOf(spends, Sp!At(snapshot, eligible, u.group)))
        /\ u.spending.net = u.spending.gross - u.spending.refund
  BY <1>1, <1>2, NetSpending DEF EffectiveOf
<1>4. ASSUME NEW field, NEW given \in Sp!Breakdowns(snapshot, query, field)
      PROVE  /\ \A r \in given.rows : \E u \in answers.totals : u.group = r.group
             /\ ~given.cut => \A u \in answers.totals :
                  /\ Sp!Added(given.rows, u.group, LAMBDA r : r.spending.net) = u.spending.net
                  /\ Sp!Added(given.rows, u.group, LAMBDA r : r.spending.count) = u.spending.count
  <2>1. \A r \in given.rows : \E t \in eligible : r.group = Sp!Group(snapshot[t])
    BY <1>1, <1>4, BreakdownAddsUp
  <2>2. ASSUME ~given.cut, NEW u \in answers.totals
        PROVE  /\ SumFunctionOnSet(NetOf(given.rows), RowsOfGroup(given.rows, u.group))
                    = u.spending.net
               /\ SumFunctionOnSet(CountOf(given.rows), RowsOfGroup(given.rows, u.group))
                    = u.spending.count
    BY <1>1, <1>3, <1>4, <2>2, BreakdownAddsUp
  <2> HIDE DEF eligible, spends
  <2> QED
    BY <1>2, <2>1, <2>2, SameSum DEF Sp!Added, RowsOfGroup, NetOf, CountOf
<1>5. ASSUME NEW u \in answers.totals
      PROVE  /\ Sp!Added(answers.series, u.group, LAMBDA r : r.spending.net) = u.spending.net
             /\ Sp!Added(answers.series, u.group, LAMBDA r : r.cash.net) = u.cash.net
  <2>1. /\ SumFunctionOnSet(NetOf(answers.series), RowsOfGroup(answers.series, u.group))
             = u.spending.net
        /\ SumFunctionOnSet(CashOf(answers.series), RowsOfGroup(answers.series, u.group))
             = u.cash.net
    BY <1>1, <1>2, <1>3, SeriesAddsUp
  <2> QED
    BY <2>1, SameSum DEF Sp!Added, RowsOfGroup, NetOf, CashOf
<1>6. query.months # {} =>
        \A r \in answers.series : r.group.status = "POSTED" /\ r.key \in query.months =>
          r.spending.net = Sp!MonthlySpend(snapshot, r.key, r.group)
  BY <1>1, MonthsOfSeries
<1>7. ASSUME answers.unconverted = 0, NEW t \in eligible
      PROVE  Sp!SpendEffect(snapshot[t]) # None
  <2> DEFINE missing == {u \in eligible : snapshot[u].amount = None}
  <2>1. missing \in SUBSET Shops /\ t \in Shops
    BY DEF Sp!Eligible
  <2>2. IsFiniteSet(missing)
    BY <2>1, ReportAssumption, FS_Subset
  <2>3. Cardinality(missing) = 0
    BY <1>1, <1>7, SameSum DEF Sp!Unconverted
  <2>4. missing = {}
    BY <2>2, <2>3, FS_EmptySet
  <2>5. snapshot[t].amount # None
    BY <2>4
  <2>6. Sp!IsRow(snapshot[t])
    BY <1>1, <2>1, ReportAssumption
  <2> QED
    BY <2>5, <2>6, EffectsOfRow
<1> HIDE DEF eligible, spends
<1>8. \A list \in {answers.categories, answers.merchants} :
        /\ \A r \in list.rows : \E u \in answers.totals : u.group = r.group
        /\ ~list.cut => \A u \in answers.totals :
             /\ Sp!Added(list.rows, u.group, LAMBDA r : r.spending.net) = u.spending.net
             /\ Sp!Added(list.rows, u.group, LAMBDA r : r.spending.count) = u.spending.count
  BY <1>1, <1>4
<1> QED
  BY <1>3, <1>5, <1>6, <1>7, <1>8 DEF Sp!SummaryIsConsistent, eligible

LEMMA ComparisonAddsUp == Sp!TypeOK /\ ReportTaken => Sp!ComparisonIsConsistent
<1> SUFFICES ASSUME Sp!TypeOK, ReportTaken, at = "done", query.kind = "compare"
             PROVE  Sp!ComparisonIsConsistent
  BY DEF Sp!ComparisonIsConsistent
<1> DEFINE spends == Sp!Spends(snapshot)
           now == Sp!InRange(snapshot, query, query)
           then == Sp!InRange(snapshot, query, query.compared)
           given == answers.categories
<1>1. /\ snapshot \in [Shops -> Entries]
      /\ answers.totals = Sp!Changes(snapshot, query)
      /\ given \in Sp!CategoryChanges(snapshot, query)
  BY DEF Sp!TypeOK, ReportTaken
<1>2. \A u \in answers.totals : /\ u.current = Sp!Sum(spends, Sp!At(snapshot, now, u.group))
                                /\ u.comparison = Sp!Sum(spends, Sp!At(snapshot, then, u.group))
  BY <1>1 DEF Sp!Changes
<1>3. ~given.cut => \A g :
        /\ SumFunctionOnSet([r \in given.rows |-> r.current], RowsOfGroup(given.rows, g))
             = Sp!Sum(spends, Sp!At(snapshot, now, g))
        /\ SumFunctionOnSet([r \in given.rows |-> r.comparison], RowsOfGroup(given.rows, g))
             = Sp!Sum(spends, Sp!At(snapshot, then, g))
  BY <1>1, ChangesAddUp
<1> HIDE DEF spends, now, then, given
<1>4. ASSUME NEW u \in answers.totals
      PROVE  /\ u.current = Sp!Sum(spends, {t \in now : Sp!Group(snapshot[t]) = u.group})
             /\ \/ given.cut
                \/ /\ Sp!Added(given.rows, u.group, LAMBDA r : r.current) = u.current
                   /\ Sp!Added(given.rows, u.group, LAMBDA r : r.comparison) = u.comparison
  <2>1. Sp!At(snapshot, now, u.group) = {t \in now : Sp!Group(snapshot[t]) = u.group}
    BY DEF Sp!At
  <2>2. ~given.cut =>
          /\ Sp!Added(given.rows, u.group, LAMBDA r : r.current) = u.current
          /\ Sp!Added(given.rows, u.group, LAMBDA r : r.comparison) = u.comparison
    BY <1>2, <1>3, SameSum DEF Sp!Added, RowsOfGroup
  <2> QED
    BY <1>2, <2>1, <2>2
<1> QED
  BY <1>4 DEF Sp!ComparisonIsConsistent, spends, now, given
-----------------------------------------------------------------------------
LEMMA ReportsInitially == ReportsInit => ReportInv
<1> SUFFICES ASSUME Sp!Init PROVE Sp!TypeOK /\ ReportTaken
  BY DEF ReportsInit, ReportInv
<1>1. /\ ledger \in [Shops -> Entries] /\ snapshot = ledger /\ at = "idle" /\ query = None
      /\ answers = Sp!NoAnswer /\ writes = 0
  BY DEF Sp!Init
<1>2. \A t \in Shops : Sp!IsRow(ledger[t])
  BY <1>1, ReportAssumption
<1>3. /\ DOMAIN answers = {"totals", "categories", "merchants", "series", "unconverted"}
      /\ answers.categories = None /\ answers.merchants = None
  BY <1>1 DEF Sp!NoAnswer
<1>4. writes \in 0..MaxWrites
  BY <1>1, ReportAssumption
<1>5. Sp!TypeOK
  BY <1>1, <1>2, <1>3, <1>4 DEF Sp!TypeOK, Sp!Place
<1>6. ReportTaken
  BY <1>1, <1>3 DEF ReportTaken
<1> QED
  BY <1>5, <1>6

\* A commit changes what the report sees only before its first statement.
LEMMA CommitsAreNotSeen ==
  ASSUME Sp!TypeOK, ReportTaken, NEW t \in Shops, Sp!Writes(t)
  PROVE  Sp!TypeOK' /\ ReportTaken'
<1>1. PICK content \in Entries : ledger' = [ledger EXCEPT ![t] = content]
  BY DEF Sp!Writes
<1>2. /\ writes < MaxWrites /\ writes' = writes + 1 /\ writes \in 0..MaxWrites
      /\ snapshot' = IF at = "idle" THEN ledger' ELSE snapshot
      /\ at' = at /\ query' = query /\ answers' = answers
  BY DEF Sp!Writes, Sp!TypeOK
<1>3. ledger' \in [Shops -> Entries] /\ snapshot' \in [Shops -> Entries]
  BY <1>1, <1>2 DEF Sp!TypeOK
<1>4. \A u \in Shops : Sp!IsRow(ledger'[u])
  BY <1>3, ReportAssumption
<1>5. writes' \in 0..MaxWrites
  BY <1>2, ReportAssumption
<1>6. Sp!TypeOK'
  BY <1>2, <1>3, <1>4, <1>5 DEF Sp!TypeOK
<1>7. ReportTaken'
  <2>1. CASE at = "idle"
    BY <1>2, <2>1 DEF ReportTaken
  <2>2. CASE at # "idle"
    <3>1. snapshot' = snapshot
      BY <1>2, <2>2
    <3> QED
      BY <1>2, <3>1 DEF ReportTaken
  <2> QED
    BY <2>1, <2>2
<1> QED
  BY <1>6, <1>7

\* Lists of the statements have no more rows than the limit.
LEMMA ListsAreLimited ==
  ASSUME NEW seen \in [Shops -> Entries], NEW q
  PROVE  /\ \A field : \A list \in Sp!Breakdowns(seen, q, field) : Sp!Cardinality(list.rows) <= Limit
         /\ \A list \in Sp!CategoryChanges(seen, q) : Sp!Cardinality(list.rows) <= Limit
BY BreakdownAddsUp, ChangesAddUp

\* What a statement returns is added to what was returned, all of the same snapshot.
LEMMA StatementsAgree ==
  ASSUME Sp!TypeOK, ReportTaken,
         \/ \E q \in Queries : Sp!Begin(q)
         \/ Sp!ReadTotals \/ Sp!ReadCategories \/ Sp!ReadMerchants \/ Sp!ReadSeries
         \/ Sp!ReadWarnings
  PROVE  Sp!TypeOK' /\ ReportTaken'
<1>1. /\ ledger \in [Shops -> Entries] /\ snapshot \in [Shops -> Entries]
      /\ \A t \in Shops : Sp!IsRow(ledger[t])
      /\ \A list \in {answers.categories, answers.merchants} :
           list # None => Sp!Cardinality(list.rows) <= Limit
      /\ at \in Sp!Place /\ query \in Queries \cup {None} /\ writes \in 0..MaxWrites
  BY DEF Sp!TypeOK
<1>2. ledger' = ledger /\ writes' = writes
  BY DEF Sp!Begin, Sp!ReadTotals, Sp!ReadCategories, Sp!ReadMerchants, Sp!ReadSeries,
         Sp!ReadWarnings
<1>3. ASSUME snapshot' \in [Shops -> Entries], at' \in Sp!Place, query' \in Queries \cup {None},
             \A list \in {answers.categories, answers.merchants}' :
               list # None => Sp!Cardinality(list.rows) <= Limit
      PROVE  Sp!TypeOK'
  BY <1>1, <1>2, <1>3 DEF Sp!TypeOK
<1>4. ASSUME NEW q \in Queries, Sp!Begin(q) PROVE Sp!TypeOK' /\ ReportTaken'
  <2>1. at' = "totals" /\ snapshot' = ledger /\ query' = q /\ answers' = answers
    BY <1>4 DEF Sp!Begin
  <2>2. ReportTaken'
    BY <2>1 DEF ReportTaken
  <2> QED
    BY <1>1, <1>3, <2>1, <2>2 DEF Sp!Place
<1>5. ASSUME Sp!ReadTotals PROVE Sp!TypeOK' /\ ReportTaken'
  <2>1. /\ at = "totals" /\ at' \in {"failed", "categories"}
        /\ snapshot' = snapshot /\ query' = query
        /\ answers' = [answers EXCEPT !.totals = IF query.kind = "summary"
                                                 THEN Sp!Totals(snapshot, query)
                                                 ELSE Sp!Changes(snapshot, query)]
    BY <1>5 DEF Sp!ReadTotals, Sp!Seen
  <2>2. ReportTaken'
    BY <2>1 DEF ReportTaken
  <2>3. answers'.categories = answers.categories /\ answers'.merchants = answers.merchants
    BY <2>1 DEF ReportTaken
  <2> QED
    BY <1>1, <1>3, <2>1, <2>2, <2>3 DEF Sp!Place
<1>6. ASSUME Sp!ReadCategories PROVE Sp!TypeOK' /\ ReportTaken'
  <2>1. PICK list \in IF query.kind = "summary" THEN Sp!Breakdowns(snapshot, query, "category")
                      ELSE Sp!CategoryChanges(snapshot, query) :
          answers' = [answers EXCEPT !.categories = list]
    BY <1>6 DEF Sp!ReadCategories, Sp!Seen
  <2>2. /\ at = "categories" /\ snapshot' = snapshot /\ query' = query
        /\ at' = IF query.kind = "summary" THEN "merchants" ELSE "warnings"
    BY <1>6 DEF Sp!ReadCategories
  <2>3. ReportTaken'
    BY <2>1, <2>2 DEF ReportTaken
  <2>4. answers'.categories = list /\ answers'.merchants = answers.merchants
    BY <2>1 DEF ReportTaken
  <2>5. Sp!Cardinality(list.rows) <= Limit
    BY <1>1, <2>1, ListsAreLimited
  <2> QED
    BY <1>1, <1>3, <2>2, <2>3, <2>4, <2>5 DEF Sp!Place
<1>7. ASSUME Sp!ReadMerchants PROVE Sp!TypeOK' /\ ReportTaken'
  <2>1. PICK list \in Sp!Breakdowns(snapshot, query, "merchant") :
          answers' = [answers EXCEPT !.merchants = list]
    BY <1>7 DEF Sp!ReadMerchants, Sp!Seen
  <2>2. at = "merchants" /\ snapshot' = snapshot /\ query' = query /\ at' = "series"
    BY <1>7 DEF Sp!ReadMerchants
  <2>3. ReportTaken'
    BY <2>1, <2>2 DEF ReportTaken
  <2>4. answers'.categories = answers.categories /\ answers'.merchants = list
    BY <2>1 DEF ReportTaken
  <2>5. Sp!Cardinality(list.rows) <= Limit
    BY <1>1, <2>1, ListsAreLimited
  <2> QED
    BY <1>1, <1>3, <2>2, <2>3, <2>4, <2>5 DEF Sp!Place
<1>8. ASSUME Sp!ReadSeries PROVE Sp!TypeOK' /\ ReportTaken'
  <2>1. /\ at = "series" /\ snapshot' = snapshot /\ query' = query /\ at' = "warnings"
        /\ answers' = [answers EXCEPT !.series = Sp!TimeSeries(snapshot, query)]
    BY <1>8 DEF Sp!ReadSeries, Sp!Seen
  <2>2. ReportTaken'
    BY <2>1 DEF ReportTaken
  <2>3. answers'.categories = answers.categories /\ answers'.merchants = answers.merchants
    BY <2>1 DEF ReportTaken
  <2> QED
    BY <1>1, <1>3, <2>1, <2>2, <2>3 DEF Sp!Place
<1>9. ASSUME Sp!ReadWarnings PROVE Sp!TypeOK' /\ ReportTaken'
  <2>1. PICK missing : /\ answers' = [answers EXCEPT !.unconverted = missing]
                       /\ query.kind = "summary" => missing = Sp!Unconverted(snapshot, query)
    BY <1>9 DEF Sp!ReadWarnings, Sp!Seen
  <2>2. at = "warnings" /\ snapshot' = snapshot /\ query' = query /\ at' = "done"
    BY <1>9 DEF Sp!ReadWarnings
  <2>3. ReportTaken'
    BY <2>1, <2>2 DEF ReportTaken
  <2>4. answers'.categories = answers.categories /\ answers'.merchants = answers.merchants
    BY <2>1 DEF ReportTaken
  <2> QED
    BY <1>1, <1>3, <2>2, <2>3, <2>4 DEF Sp!Place
<1> QED
  BY <1>4, <1>5, <1>6, <1>7, <1>8, <1>9

LEMMA ReportsStep == ReportInv /\ [ReportsNext]_allReadVars => ReportInv'
<1> SUFFICES ASSUME ReportInv, [ReportsNext]_allReadVars, part' = "summary"
             PROVE  Sp!TypeOK' /\ ReportTaken'
  BY DEF ReportInv
<1>1. part = "summary"
  BY DEF ReportsNext, allReadVars
<1>2. Sp!TypeOK /\ ReportTaken
  BY <1>1 DEF ReportInv
<1>3. \/ Sp!Next
      \/ UNCHANGED reportVars
  BY <1>1 DEF ReportsNext, allReadVars, readVars
<1>4. CASE UNCHANGED reportVars
  BY <1>2, <1>4 DEF reportVars, Sp!TypeOK, ReportTaken
<1>5. CASE Sp!Next
  BY <1>2, <1>5, CommitsAreNotSeen, StatementsAgree DEF Sp!Next
<1> QED
  BY <1>3, <1>4, <1>5

\* What the owner is told adds up, for any rows, queries, limits and writes in between: the
\* statements of a report see one snapshot, its rows are disjoint classes of the eligible
\* transactions, and the views have the effects the domain has.
THEOREM ReportsAddUp == ReportsSpec => []ReportsAreConsistent
<1>1. ReportsInit => ReportInv
  BY ReportsInitially
<1>2. ReportInv /\ [ReportsNext]_allReadVars => ReportInv'
  BY ReportsStep
<1>3. ReportInv => ReportsAreConsistent
  BY EffectsAlwaysAgree, SummaryAddsUp, ComparisonAddsUp
     DEF ReportInv, ReportsAreConsistent, Sp!ReportsAreConsistent
<1> QED
  BY <1>1, <1>2, <1>3, PTL DEF ReportsSpec, allReadVars
=============================================================================
