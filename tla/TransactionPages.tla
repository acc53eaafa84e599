--------------------------- MODULE TransactionPages ---------------------------
(***************************************************************************)
(* Listing transactions page by page: list() of                             *)
(* transaction-api-repository.ts behind the cursors of                      *)
(* transaction-route.ts, while the rows change.                             *)
(*                                                                         *)
(* A page is one statement.  The next one continues after the last row's    *)
(* date and id, which the cursor carries with the filters it was made for.  *)
(* Row contents other than date, status and filters, and the warnings, are  *)
(* left out.  Dates and ids are integers.                                   *)
(***************************************************************************)
EXTENDS Integers, Sequences, FiniteSets

CONSTANTS
    Ids,
    RowContents,  \* what a row may hold: account, category, date, status
    Filters,      \* of requests: account, category, status, from, to
    PageSizes,    \* limits of requests; up to 100 in the code
    None,
    MaxRowWrites  \* bound: rows that change

VARIABLES
    table,    \* the transactions
    filter,   \* what the client lists
    cursor,   \* nextCursor of the last page
    entries,  \* the items the client has received, in order
    touched,  \* the rows that changed since the first page
    stage
vars == <<table, filter, cursor, entries, touched, stage>>

Entry == [id : Ids, date : {c.date : c \in RowContents}]

\* Rows, filters and cursors keep their types.
TypeOK ==
    /\ table \in [Ids -> RowContents]
    /\ filter \in Filters \cup {None}
    /\ cursor # None => cursor.filter \in Filters /\ cursor.after \in Entry
    /\ entries \in Seq(Entry)
    /\ touched \subseteq Ids
    /\ stage \in {"start", "listing", "over"}

Init ==
    /\ table \in [Ids -> RowContents]
    /\ filter = None /\ cursor = None /\ entries = <<>>
    /\ touched = {} /\ stage = "start"

-----------------------------------------------------------------------------
\* The conditions of list() other than the cursor's.
Matches(row, f) ==
    /\ row.status # "DELETED"
    /\ row.date \in f.from..f.to
    /\ f.account \in {None, row.account}
    /\ f.category \in {None, row.category}
    /\ f.status \in {None, row.status}

\* Mutant: a row of the cursor's day is not after the cursor.
MutBefore(x, y) == x.date < y.date

\* (date, id) < (date, id).
Before(x, y) == x.date < y.date \/ (x.date = y.date /\ x.id < y.id)

EntryOf(i) == [id |-> i, date |-> table[i].date]

Continuing(f, after) ==
    {EntryOf(i) : i \in {j \in Ids : Matches(table[j], f)
                                     /\ (after # None => Before(EntryOf(j), after))}}

\* Date and id, descending.
Ordered(found) ==
    CHOOSE s \in [1..Cardinality(found) -> found] :
      \A m, n \in 1..Cardinality(found) :
        m < n => \/ s[m].date > s[n].date
                 \/ (s[m].date = s[n].date /\ s[m].id > s[n].id)

\* One row more than the page has is read, to see whether there is a next page.
Page(f, after, size) ==
    LET found == Ordered(Continuing(f, after))
        more == Len(found) > size
        items == IF more THEN SubSeq(found, 1, size) ELSE found
    IN [items |-> items,
        cursor |-> IF more THEN [filter |-> f, after |-> items[size]] ELSE None]

\* decodeCursor(): a cursor is valid with the filters it was made for.
Decoded(f) == cursor.filter = f

Received(page) ==
    /\ entries' = entries \o page.items
    /\ cursor' = page.cursor
    /\ stage' = IF page.cursor = None THEN "over" ELSE "listing"

\* A request without a cursor.
FirstPage(f, size) ==
    /\ stage = "start"
    /\ filter' = f
    /\ Received(Page(f, None, size))
    /\ UNCHANGED <<table, touched>>

\* A request with the cursor, and with filters that may be other ones.
NextPage(f, size) ==
    /\ stage = "listing" /\ Decoded(f)
    /\ Received(Page(f, cursor.after, size))
    /\ UNCHANGED <<table, filter, touched>>

\* A row is imported, corrected, moved to another day or deleted.
Changes(i) ==
    /\ stage = "listing" /\ Cardinality(touched) < MaxRowWrites
    /\ \E content \in RowContents \ {table[i]} : table' = [table EXCEPT ![i] = content]
    /\ touched' = touched \cup {i}
    /\ UNCHANGED <<filter, cursor, entries, stage>>

Next ==
    \/ \E f \in Filters, size \in PageSizes : FirstPage(f, size) \/ NextPage(f, size)
    \/ \E i \in Ids : Changes(i)

Spec == Init /\ [][Next]_vars

-----------------------------------------------------------------------------
\* What a client lists page by page descends, and of the rows that did not change since
\* its first page it has no one that does not match and, at the end, every one that does,
\* once: whatever changes meanwhile, whatever the page sizes, and whatever filters the
\* client sends with its cursor.
ListingIsSound ==
    LET times(i) == Cardinality({n \in DOMAIN entries : entries[n].id = i})
    IN /\ \A n \in 1..(Len(entries) - 1) : Before(entries[n + 1], entries[n])
       /\ \A i \in Ids \ touched :
            /\ times(i) <= 1
            /\ times(i) = 1 => Matches(table[i], filter)
            /\ stage = "over" /\ Matches(table[i], filter) => times(i) = 1
=============================================================================
