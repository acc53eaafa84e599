------------------------------- MODULE MCReports -------------------------------
(***************************************************************************)
(* The small instance of the catalog, and one of what the owner reads:      *)
(* reports, lists of transactions and the ranges of comparisons.  Reports   *)
(* and lists have rows of their own, so a behaviour runs one of Parts.      *)
(***************************************************************************)
EXTENDS MCCatalog, Integers, Sequences

CONSTANTS
    Parts, Shops, Entries, CurrencyOf, Deposits, Queries, PeriodOf(_), Limit, MaxTotals, MaxWrites,
    Ids, RowContents, Filters, PageSizes, MaxRowWrites,
    FirstYear, LastYear, Froms, Lengths, Customs, MaxDays

VARIABLES ledger, at, query, snapshot, answers, writes
reportVars == <<ledger, at, query, snapshot, answers, writes>>
Sp == INSTANCE SpendingReport WITH
        Transactions <- Shops, Contents <- Entries, rows <- ledger, pc <- at

\* A query for whole months has all of their days, and no other filter.
ASSUME ReportAssumption ==
    /\ IsFiniteSet(Shops) /\ Limit \in Nat /\ MaxWrites \in Nat /\ None \notin Int
    /\ \A content \in Entries : Sp!IsRow(content)
    /\ \A q \in Queries :
         /\ q.kind \in {"summary", "compare"}
         /\ q.months # {} =>
              /\ q.account = None /\ q.category = None
              /\ \A content \in Entries :
                   PeriodOf(content.date) \in q.months => Sp!Within(content, q)

\* Each account has the currency of the country it is in.
MCCurrencyOf == [x \in {"checking", "card", "abroad"} |-> IF x = "abroad" THEN "USD" ELSE "BRL"]

\* Periods are days 1, 2..3 and 4.
MCPeriodOf(day) == day \div 2

Bought ==
    [account |-> "checking", date |-> 2, status |-> "POSTED", role |-> "PURCHASE",
     category |-> "food", merchant |-> "shop", amount |-> -5, direction |-> "OUTFLOW",
     excluded |-> FALSE, duplicate |-> FALSE]

\* One content of each kind the effects, the filters and the groups tell apart.
MCEntries ==
    {Bought,
     [Bought EXCEPT !.date = 4, !.category = "travel", !.amount = -2, !.role = "FEE"],
     [Bought EXCEPT !.account = "card", !.date = 3, !.role = "REFUND", !.amount = 3,
                    !.direction = "INFLOW", !.merchant = None],
     [Bought EXCEPT !.role = "TRANSFER", !.category = None, !.amount = 7,
                    !.direction = "INFLOW"],
     [Bought EXCEPT !.date = 3, !.status = "PENDING", !.category = "travel"],
     [Bought EXCEPT !.account = "abroad", !.amount = None],
     [Bought EXCEPT !.duplicate = TRUE],
     [Bought EXCEPT !.excluded = TRUE, !.amount = -1],
     [Bought EXCEPT !.status = "DELETED"]}

MCQueries ==
    LET all == [kind |-> "summary", from |-> 2, to |-> 4, account |-> None,
                category |-> None, pending |-> TRUE, months |-> {1, 2}, compared |-> None]
    IN {all,
        [all EXCEPT !.from = 3, !.pending = FALSE, !.category = "food", !.months = {}],
        [all EXCEPT !.kind = "compare", !.months = {}, !.compared = [from |-> 2, to |-> 3]],
        [all EXCEPT !.kind = "compare", !.from = 4, !.pending = FALSE, !.months = {},
                    !.account = "checking", !.compared = [from |-> 2, to |-> 3]]}

VARIABLES table, filter, nextCursor, entries, touched, stage
pageVars == <<table, filter, nextCursor, entries, touched, stage>>
Pa == INSTANCE TransactionPages WITH cursor <- nextCursor

ASSUME PageAssumption ==
    /\ Ids \subseteq Int /\ IsFiniteSet(Ids)
    /\ \A content \in RowContents : content.date \in Int
    /\ PageSizes \subseteq Nat \ {0}
    /\ None \notin Pa!Entry \cup [filter : Filters, after : Pa!Entry]

MCRowContents ==
    {[account |-> "x", category |-> known, date |-> day, status |-> "POSTED"] :
     known \in {"food", None}, day \in {1, 2}}
    \cup {[account |-> "x", category |-> "food", date |-> 2, status |-> s] :
          s \in {"PENDING", "DELETED"}}
MCFilters ==
    LET any == [account |-> None, category |-> None, status |-> None, from |-> 1, to |-> 2]
    IN {any, [any EXCEPT !.category = "food", !.account = "x"],
        [any EXCEPT !.status = "POSTED", !.from = 2]}

VARIABLES request, ranges, answered
periodVars == <<request, ranges, answered>>
Pe == INSTANCE Periods

ASSUME PeriodAssumption ==
    /\ FirstYear \in Int /\ LastYear \in Int /\ FirstYear <= LastYear
    /\ MaxDays = 367 /\ Lengths \subseteq Nat
    /\ \A f \in Froms :
         /\ Pe!DayNumber(f) \in Pe!Days /\ Pe!DayNumber(f) > MaxDays
         /\ \A n \in Lengths : Pe!DayNumber(f) + n - 1 \in Pe!Days
    /\ \A x \in Customs : {Pe!DayNumber(x[1]), Pe!DayNumber(x[1]) + x[2] - 1} \subseteq Pe!Days
    /\ None \notin [from : Int, to : Int]
    /\ None \notin [current : [from : Int, to : Int], comparison : [from : Int, to : Int]]

\* Around the ends of months and of February in a leap year and the years beside it.
MCFroms ==
    {<<2024, month, day>> : month \in 1..12, day \in {1, 15, 28, 29}}
    \cup {<<2024, month, 31>> : month \in {1, 3, 5, 7, 8, 10, 12}}
    \cup {<<2023, 2, 28>>, <<2023, 3, 1>>, <<2025, 2, 28>>, <<2025, 3, 1>>}
MCLengths == {0, 1, 2, 28, 29, 30, 31, 32, 60, 365, 366, 367, 368}
MCCustoms == {<<<<2023, 2, 1>>, 28>>, <<<<2023, 2, 1>>, 367>>, <<<<2024, 2, 1>>, 368>>}

VARIABLE part
readVars == <<reportVars, pageVars, periodVars>>

\* A part that does not run stays in one of its initial states.
ReportsInit ==
    /\ part \in Parts
    /\ MCInit
    /\ part # "catalog" => scene = "alone" /\ \A x \in Categories : ~category[x].exists
    /\ Sp!Init
    /\ part # "summary" => ledger = [t \in Shops |-> Bought]
    /\ Pa!Init
    /\ part # "pages" => \A i \in Ids : table[i] = CHOOSE row \in RowContents : TRUE
    /\ IF part = "periods" THEN Pe!Init
       ELSE request = None /\ ranges = None /\ answered = FALSE

ReportsNext ==
    /\ UNCHANGED part
    /\ \/ part = "catalog" /\ MCNext /\ UNCHANGED readVars
       \/ part = "summary" /\ Sp!Next /\ UNCHANGED <<vars, scene, pageVars, periodVars>>
       \/ part = "pages" /\ Pa!Next /\ UNCHANGED <<vars, scene, reportVars, periodVars>>
       \/ part = "periods" /\ Pe!Next /\ UNCHANGED <<vars, scene, reportVars, pageVars>>

ReportsSpec == ReportsInit /\ [][ReportsNext]_<<vars, scene, readVars, part>>

\* ReportsAreConsistent of SpendingReport, with the types of its state.
ReportsAreConsistent == part = "summary" => Sp!TypeOK /\ Sp!ReportsAreConsistent

\* ListingIsSound of TransactionPages, with the types of its state.
ListingIsSound == part = "pages" => Pa!TypeOK /\ Pa!ListingIsSound

\* PeriodsAreComparable of Periods, with the types of its state.
PeriodsAreComparable == part = "periods" => Pe!TypeOK /\ Pe!PeriodsAreComparable
=============================================================================
