---------------------------- MODULE SpendingReport ----------------------------
(***************************************************************************)
(* The accounting effects of a transaction, and the two reports made of     *)
(* them: summarize() and comparePeriods() of analytics/src/index.ts.        *)
(*                                                                         *)
(* A report reads its totals, breakdowns, time series and warnings by       *)
(* statements of their own, in one repeatable-read transaction, while       *)
(* imports, corrections and deletions commit other contents of the rows.    *)
(* Effects are computed twice in the repository: by the views of the        *)
(* database and by calculateTransactionEffects() of the domain.             *)
(*                                                                         *)
(* Dates are day numbers and amounts small integers.  Freshness, history    *)
(* and bill warnings come from other tables and are left out, and so are    *)
(* labels, percentages and the bound on the length of a time series.        *)
(***************************************************************************)
EXTENDS Integers, FiniteSets, FiniteSetsExt, Functions

CONSTANTS
    Transactions,
    Contents,      \* the contents a transaction's row may have
    CurrencyOf,    \* of each account
    Deposits,      \* the checking and savings accounts
    Queries,       \* requests: kind, ranges and filters
    PeriodOf(_),   \* date_trunc() of a day
    Limit,         \* rows of a breakdown; 100 in the code
    MaxTotals,     \* rows of the totals; 200 in the code
    None,
    MaxWrites      \* bound: rows that change

Spent == {"PURCHASE", "FEE", "TAX"}
Returned == {"REFUND", "CREDIT"}
Role == Spent \cup Returned \cup {"INCOME", "TRANSFER", "CARD_BILL_PAYMENT", "UNKNOWN"}

\* A row of v_financial_transaction_effective; the amount is analytics_amount_signed.
IsRow(row) ==
    /\ row.role \in Role /\ row.status \in {"PENDING", "POSTED", "DELETED"}
    /\ row.amount \in Int \cup {None}
    /\ row.direction \in {"INFLOW", "OUTFLOW", "NEUTRAL"}
    /\ {row.excluded, row.duplicate} \subseteq BOOLEAN

Abs(n) == IF n < 0 THEN -n ELSE n
Plus(amount) == IF amount = None THEN None ELSE Abs(amount)
Minus(amount) == IF amount = None THEN None ELSE -Abs(amount)
Gone(row) == row.status = "DELETED" \/ row.duplicate

-----------------------------------------------------------------------------
(* The effects, by the views and by the domain.                             *)

\* v_transaction_spend_effect.
SpendEffect(row) ==
    CASE Gone(row) \/ row.excluded -> 0
      [] ~Gone(row) /\ ~row.excluded /\ row.role \in Spent -> Plus(row.amount)
      [] ~Gone(row) /\ ~row.excluded /\ row.role \in Returned -> Minus(row.amount)
      [] OTHER -> 0

\* v_transaction_cashflow_effect.
CashflowEffect(row) ==
    LET counts == ~Gone(row) /\ row.account \in Deposits /\ row.role # "TRANSFER"
    IN CASE counts /\ row.direction = "INFLOW" -> Plus(row.amount)
         [] counts /\ row.direction = "OUTFLOW" -> Minus(row.amount)
         [] OTHER -> 0

\* spendingEffect() and cashflowEffect() of the domain, which knows no deletions.
DomainSpending(row) ==
    IF row.excluded THEN 0
    ELSE IF row.role \in {"PURCHASE", "FEE", "TAX"} THEN Plus(row.amount)
    ELSE IF row.role \in {"REFUND", "CREDIT"} THEN Minus(row.amount) ELSE 0
DomainCashflow(row) ==
    IF row.account \notin Deposits \/ row.role = "TRANSFER" THEN 0
    ELSE IF row.direction = "INFLOW" THEN Plus(row.amount)
    ELSE IF row.direction = "OUTFLOW" THEN Minus(row.amount) ELSE 0

-----------------------------------------------------------------------------
(* Statements.  Each is a function of the rows it sees.                     *)

Positive(n) == IF n > 0 THEN n ELSE 0
\* sum() ignores null.
Sum(effect, ts) == SumFunctionOnSet(effect, {t \in ts : effect[t] # None})

\* The effects of the transactions.
Spends(seen) == [t \in Transactions |-> SpendEffect(seen[t])]
Cashes(seen) == [t \in Transactions |-> CashflowEffect(seen[t])]

Effective(effect) == effect # None /\ effect # 0

Within(row, range) == row.date \in range.from..range.to
Wanted(row, q) ==
    /\ row.status = "POSTED" \/ (q.pending /\ row.status = "PENDING")
    /\ q.account \in {None, row.account}
    /\ q.category \in {None, row.category}

\* The common table "eligible".
Eligible(seen, q) == {t \in Transactions : Wanted(seen[t], q) /\ Within(seen[t], q)}

Group(row) == [currency |-> CurrencyOf[row.account], status |-> row.status]
At(seen, ts, g) == {t \in ts : Group(seen[t]) = g}

\* The metrics of a group of transactions.
Spending(seen, ts) ==
    LET spend == Spends(seen)
    IN [gross |-> Sum([t \in ts |-> IF spend[t] = None THEN None ELSE Positive(spend[t])], ts),
        refund |-> Sum([t \in ts |-> IF spend[t] = None THEN None ELSE Positive(-spend[t])], ts),
        net |-> Sum(spend, ts),
        count |-> Cardinality({t \in ts : Effective(spend[t])})]
CashFlow(seen, ts) ==
    [net |-> Sum(Cashes(seen), ts),
     count |-> Cardinality({t \in ts : Effective(Cashes(seen)[t])})]

\* The groups of the transactions of one key, currency and status.
Groups(seen, ts, key) ==
    {[key |-> key[t], group |-> Group(seen[t]),
      of |-> {u \in At(seen, ts, Group(seen[t])) : key[u] = key[t]}] : t \in ts}

Totals(seen, q) ==
    LET eligible == Eligible(seen, q)
    IN {[group |-> g, spending |-> Spending(seen, At(seen, eligible, g)),
         cash |-> CashFlow(seen, At(seen, eligible, g))] :
        g \in {Group(seen[t]) : t \in eligible}}

\* One row more than the limit is read, and cut off; the largest rows are kept.
Shown(count) == Min({count, Limit})
Largest(found, size) ==
    {[rows |-> shown, cut |-> Cardinality(found) > Limit] :
     shown \in {s \in SUBSET found : /\ Cardinality(s) = Shown(Cardinality(found))
                                     /\ \A a \in s, b \in found \ s : size[a] >= size[b]}}

\* A breakdown by a field keeps the groups of the largest net spending.
Breakdowns(seen, q, field) ==
    LET spent == {t \in Eligible(seen, q) : Effective(SpendEffect(seen[t]))}
        found == {[key |-> e.key, group |-> e.group, spending |-> Spending(seen, e.of)] :
                  e \in Groups(seen, spent, [t \in spent |-> seen[t][field]])}
    IN Largest(found, [r \in found |-> Abs(r.spending.net)])

TimeSeries(seen, q) ==
    LET moved == {t \in Eligible(seen, q) : \/ Effective(SpendEffect(seen[t]))
                                            \/ Effective(CashflowEffect(seen[t]))}
    IN {[key |-> e.key, group |-> e.group, spending |-> Spending(seen, e.of),
         cash |-> CashFlow(seen, e.of)] :
        e \in Groups(seen, moved, [t \in moved |-> PeriodOf(seen[t].date)])}

Unconverted(seen, q) == Cardinality({t \in Eligible(seen, q) : seen[t].amount = None})

\* The two ranges of a comparison, "periodized": a row in both counts in both.
InRange(seen, q, range) == {t \in Transactions : Wanted(seen[t], q) /\ Within(seen[t], range)}
Changes(seen, q) ==
    LET now == InRange(seen, q, q)
        then == InRange(seen, q, q.compared)
    IN {[group |-> g, current |-> Sum(Spends(seen), At(seen, now, g)),
         comparison |-> Sum(Spends(seen), At(seen, then, g))] :
        g \in {Group(seen[t]) : t \in now \cup then}}

\* The full join of the categories of both ranges.
ChangedKeys(seen, now, then) ==
    {[group |-> Group(seen[t]), key |-> seen[t].category] : t \in now \cup then}

CategoryChanges(seen, q) ==
    LET spent(range) == {t \in InRange(seen, q, range) : Effective(SpendEffect(seen[t]))}
        of(ts, k) == {t \in At(seen, ts, k.group) : seen[t].category = k.key}
        found == {[group |-> k.group, key |-> k.key,
                   current |-> Sum(Spends(seen), of(spent(q), k)),
                   comparison |-> Sum(Spends(seen), of(spent(q.compared), k))] :
                  k \in ChangedKeys(seen, spent(q), spent(q.compared))}
    IN Largest(found, [r \in found |-> Abs(r.current - r.comparison)])

\* v_monthly_spend_by_category, which the anomalies and the forecast read.
MonthlySpend(seen, month, g) ==
    Sum(Spends(seen), {t \in Transactions : /\ seen[t].status = "POSTED"
                                            /\ PeriodOf(seen[t].date) = month
                                            /\ Group(seen[t]) = g})

-----------------------------------------------------------------------------
VARIABLES
    rows,      \* the committed transactions
    pc,        \* the statement the report is at
    query,
    snapshot,  \* what its database transaction sees
    answers,   \* what its statements have returned
    writes
vars == <<rows, pc, query, snapshot, answers, writes>>

NoAnswer == [totals |-> {}, categories |-> None, merchants |-> None, series |-> {},
             unconverted |-> 0]
Place == {"idle", "totals", "categories", "merchants", "series", "warnings", "done", "failed"}

\* Rows, places and queries keep their types; no breakdown is longer than its limit.
TypeOK ==
    /\ rows \in [Transactions -> Contents] /\ snapshot \in [Transactions -> Contents]
    /\ \A t \in Transactions : IsRow(rows[t])
    /\ pc \in Place /\ query \in Queries \cup {None}
    /\ \A part \in {answers.categories, answers.merchants} :
         part # None => Cardinality(part.rows) <= Limit
    /\ writes \in 0..MaxWrites

Init ==
    /\ rows \in [Transactions -> Contents]
    /\ pc = "idle" /\ query = None /\ snapshot = rows /\ answers = NoAnswer
    /\ writes = 0

\* A transaction commits another content of a row.
Writes(t) ==
    /\ writes < MaxWrites /\ pc \notin {"done", "failed"}
    /\ \E content \in Contents \ {rows[t]} : rows' = [rows EXCEPT ![t] = content]
    /\ writes' = writes + 1
    /\ snapshot' = IF pc = "idle" THEN rows' ELSE snapshot
    /\ UNCHANGED <<pc, query, answers>>

\* The first statement after "begin" takes the snapshot.
Begin(q) ==
    /\ pc = "idle"
    /\ query' = q /\ snapshot' = rows
    /\ pc' = "totals"
    /\ UNCHANGED <<rows, answers, writes>>

\* Mutant: read committed; each statement sees the latest rows.
MutSeen == rows

\* Repeatable read.
Seen == snapshot

ReadTotals ==
    /\ pc = "totals"
    /\ answers' = [answers EXCEPT !.totals = IF query.kind = "summary" THEN Totals(Seen, query)
                                             ELSE Changes(Seen, query)]
    /\ pc' = IF Cardinality(answers'.totals) > MaxTotals THEN "failed" ELSE "categories"
    /\ UNCHANGED <<rows, query, snapshot, writes>>

ReadCategories ==
    /\ pc = "categories"
    /\ \E b \in IF query.kind = "summary" THEN Breakdowns(Seen, query, "category")
                ELSE CategoryChanges(Seen, query) :
         answers' = [answers EXCEPT !.categories = b]
    /\ pc' = IF query.kind = "summary" THEN "merchants" ELSE "warnings"
    /\ UNCHANGED <<rows, query, snapshot, writes>>

ReadMerchants ==
    /\ pc = "merchants"
    /\ \E b \in Breakdowns(Seen, query, "merchant") :
         answers' = [answers EXCEPT !.merchants = b]
    /\ pc' = "series"
    /\ UNCHANGED <<rows, query, snapshot, writes>>

ReadSeries ==
    /\ pc = "series"
    /\ answers' = [answers EXCEPT !.series = TimeSeries(Seen, query)]
    /\ pc' = "warnings"
    /\ UNCHANGED <<rows, query, snapshot, writes>>

\* The count of unconverted rows; the warnings follow from it and from the cuts.
ReadWarnings ==
    /\ pc = "warnings"
    /\ answers' = [answers EXCEPT !.unconverted =
                     IF query.kind = "summary" THEN Unconverted(Seen, query)
                     ELSE Cardinality({t \in InRange(Seen, query, query)
                                             \cup InRange(Seen, query, query.compared) :
                                       Seen[t].amount = None})]
    /\ pc' = "done"
    /\ UNCHANGED <<rows, query, snapshot, writes>>

Next ==
    \/ \E t \in Transactions : Writes(t)
    \/ \E q \in Queries : Begin(q)
    \/ ReadTotals \/ ReadCategories \/ ReadMerchants \/ ReadSeries \/ ReadWarnings

Spec == Init /\ [][Next]_vars

-----------------------------------------------------------------------------
(* Properties.                                                              *)

\* The views count what the domain counts, and nothing of a transaction that is deleted
\* or a confirmed duplicate.
EffectsAgree ==
    \A t \in Transactions :
      LET row == rows[t]
      IN IF Gone(row) THEN SpendEffect(row) = 0 /\ CashflowEffect(row) = 0
         ELSE SpendEffect(row) = DomainSpending(row) /\ CashflowEffect(row) = DomainCashflow(row)

Added(rs, g, Value(_)) ==
    SumFunctionOnSet([r \in rs |-> Value(r)], {r \in rs : r.group = g})

\* The parts of a summary are of one moment: in every currency and status the time series
\* adds up to the totals, a breakdown adds up to them unless the answer says it is cut,
\* and a whole month is what the monthly view has for it, whatever commits meanwhile.
SummaryIsConsistent ==
    pc = "done" /\ query.kind = "summary" =>
      /\ \A part \in {answers.categories, answers.merchants} :
           \A r \in part.rows : \E t \in answers.totals : t.group = r.group
      /\ \A t \in answers.totals :
           LET net(r) == r.spending.net
               count(r) == r.spending.count
           IN /\ t.spending.net = t.spending.gross - t.spending.refund
              /\ Added(answers.series, t.group, net) = t.spending.net
              /\ Added(answers.series, t.group, LAMBDA r : r.cash.net) = t.cash.net
              /\ \A part \in {answers.categories, answers.merchants} :
                   \/ part.cut
                   \/ /\ Added(part.rows, t.group, net) = t.spending.net
                      /\ Added(part.rows, t.group, count) = t.spending.count
      /\ query.months # {} =>
           \A r \in answers.series :
             r.group.status = "POSTED" /\ r.key \in query.months =>
               r.spending.net = MonthlySpend(snapshot, r.key, r.group)
      /\ answers.unconverted = 0 =>
           \A t \in Eligible(snapshot, query) : SpendEffect(snapshot[t]) # None

\* The parts of a comparison agree: what categories changed adds up to what the totals
\* changed, each side is the net spending of its range, and nothing of either is missing.
ComparisonIsConsistent ==
    pc = "done" /\ query.kind = "compare" =>
      \A t \in answers.totals :
        /\ t.current = Sum(Spends(snapshot), {u \in InRange(snapshot, query, query) :
                                                Group(snapshot[u]) = t.group})
        /\ \/ answers.categories.cut
           \/ /\ Added(answers.categories.rows, t.group, LAMBDA r : r.current) = t.current
              /\ Added(answers.categories.rows, t.group, LAMBDA r : r.comparison) = t.comparison

\* What the owner is told adds up: the parts of a report are of one moment, whatever is
\* imported, corrected or deleted meanwhile, and count what the accounting rules of the
\* domain count.
ReportsAreConsistent == EffectsAgree /\ SummaryIsConsistent /\ ComparisonIsConsistent
=============================================================================
