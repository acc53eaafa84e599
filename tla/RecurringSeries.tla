---------------------------- MODULE RecurringSeries ----------------------------
(***************************************************************************)
(* Recurring series: detection from the purchases of each confirmed merchant *)
(* and currency, the owner's answers, and the merge of two merchants, which  *)
(* moves series.  They run beside each other; what a session writes is seen  *)
(* at its commit.  The purchases (v_transaction_spend_effect, with the       *)
(* conditions of the query) are a history of days and amounts that changes   *)
(* between steps.                                                          *)
(***************************************************************************)
EXTENDS Integers, FiniteSets, Sequences, FiniteSetsExt

CONSTANTS
    Merchants, Currencies,
    Histories,  \* what a group's purchases can be: sequences of <<day, amount>>, by day
    Detectors, Reviewers, None,
    MaxSeries,  \* bound: rows
    MaxChanges  \* bound: changes of histories, failures

VARIABLES
    history, \* the purchases of each group
    gone,    \* the merchants merged into another, whose rows are deleted
    series,  \* recurring_series, by id: [group, cadence, average, last, next, status], and
             \* the group it was proposed for (of), which no column keeps
    audits,  \* RECURRING_SERIES_CONFIRMED and _REJECTED events: <<id, answer>>, and how many
    pc,
    pending, \* what an open detection has found and inserts
    target,  \* the series and answer a reviewer is at work on
    lock,    \* the workspace's transaction lock
    rowLock, \* series updated and not yet committed
    changes

vars == <<history, gone, series, audits, pc, pending, target, lock, rowLock, changes>>

Cadences == {"WEEKLY", "MONTHLY", "QUARTERLY", "ANNUAL"}
Answers == {"CONFIRMED", "REJECTED"}
Actors == Detectors \cup Reviewers
Id == DOMAIN series

\* merchant_id and currency
Groups == Merchants \X Currencies
Of(m) == {m} \X Currencies

\* The rows, histories and sessions keep their types.
TypeOK ==
    /\ history \in [Groups -> Histories]
    /\ gone \subseteq Merchants
    /\ \A i \in Id : /\ {series[i].group, series[i].of} \subseteq Groups
                     /\ series[i].cadence \in Cadences
                     /\ series[i].status \in Answers \cup {"CANDIDATE"}
                     /\ series[i].next > series[i].last
    /\ audits \in [1..MaxSeries -> 0..Cardinality(Reviewers)]
    /\ pc \in [Actors -> {"idle", "open", "found", "written", "over"}]
    /\ lock \in Detectors \cup {None}
    /\ rowLock \in [1..MaxSeries -> Reviewers \cup {None}]

Init ==
    /\ history \in [Groups -> Histories]
    /\ gone = {}
    /\ series = <<>>
    /\ audits = [i \in 1..MaxSeries |-> 0]
    /\ pc = [s \in Actors |-> "idle"]
    /\ pending = [d \in Detectors |-> <<>>]
    /\ target = [r \in Reviewers |-> None]
    /\ lock = None
    /\ rowLock = [i \in 1..MaxSeries |-> None]
    /\ changes = 0

Goto(s, place) == pc' = [pc EXCEPT ![s] = place]

-----------------------------------------------------------------------------
(* The detection query.                                                     *)

Day(h, i) == h[i][1]
Amounts(h) == {h[i][2] : i \in DOMAIN h}
Gap(h, i) == Day(h, i + 1) - Day(h, i)
Gaps(h) == 1..(Len(h) - 1)

\* percentile_cont(0.5) of the intervals, doubled: the middle one, or two.
MedianTwice(h) ==
    LET below(i) == Cardinality({j \in Gaps(h) : Gap(h, j) < Gap(h, i)})
        upto(i) == Cardinality({j \in Gaps(h) : Gap(h, j) <= Gap(h, i)})
        at(rank) == Gap(h, CHOOSE i \in Gaps(h) : below(i) < rank /\ rank <= upto(i))
        n == Len(h) - 1
    IN at((n + 1) \div 2) + at(n \div 2 + 1)

\* maximum_interval_deviation, doubled.
DeviationTwice(h) ==
    LET median == MedianTwice(h)
        off(i) == 2 * Gap(h, i) - median
    IN Max({off(i) : i \in Gaps(h)} \cup {-off(i) : i \in Gaps(h)})

Total(h) == FoldSet(LAMBDA i, sum : h[i][2] + sum, 0, DOMAIN h)

\* (amount_max - amount_min) / amount_average <= 0.20
Steady(h) == 5 * Len(h) * (Max(Amounts(h)) - Min(Amounts(h))) <= Total(h)

\* The cadence of the case expression, where one is.
Recurs(h, low, high, tolerance) ==
    /\ MedianTwice(h) \in (2 * low)..(2 * high)
    /\ DeviationTwice(h) <= 2 * tolerance
Cadence == [h \in Histories |->
    IF Len(h) < 3 \/ ~Steady(h) THEN None
    ELSE CASE Recurs(h, 6, 8, 3) -> "WEEKLY"
           [] Recurs(h, 26, 35, 6) -> "MONTHLY"
           [] Recurs(h, 80, 100, 12) -> "QUARTERLY"
           [] Recurs(h, 350, 380, 25) -> "ANNUAL"
           [] OTHER -> None]

Eligible(g) == g[1] \notin gone /\ Cadence[history[g]] # None

Known(g) == \E i \in Id : series[i].group = g /\ series[i].cadence = Cadence[history[g]]

Candidate(g) ==
    LET h == history[g]
    IN [group |-> g, of |-> g, cadence |-> Cadence[h], average |-> Total(h) \div Len(h),
        last |-> Day(h, Len(h)), next |-> Day(h, Len(h)) + (MedianTwice(h) + 1) \div 2,
        status |-> "CANDIDATE"]

\* Mutant: detect() without its advisory lock.
MutMayDetect(d) == TRUE

MayDetect(d) == lock = None

\* begin, and the workspace's lock.
BeginDetect(d) ==
    /\ pc[d] = "idle"
    /\ MayDetect(d)
    /\ lock' = d
    /\ Goto(d, "open")
    /\ UNCHANGED <<history, gone, series, audits, pending, target, rowLock, changes>>

\* What the insert reads: the groups that have no series of their cadence yet.
Propose(d) ==
    /\ pc[d] = "open"
    /\ LET new == {g \in Groups : Eligible(g) /\ ~Known(g)}
       IN \E order \in {o \in [1..Cardinality(new) -> new] : {o[i] : i \in DOMAIN o} = new} :
            pending' = [pending EXCEPT ![d] = [i \in DOMAIN order |-> Candidate(order[i])]]
    /\ Goto(d, "found")
    /\ UNCHANGED <<history, gone, series, audits, target, lock, rowLock, changes>>

Inserts(d) == {pending[d][i].group : i \in DOMAIN pending[d]}

\* The foreign key of each row takes its merchant FOR KEY SHARE, and so waits for a
\* merge; the rows are kept whatever has been written since they were found, unless
\* a merchant is gone, which fails the whole statement.
Insert(d) ==
    /\ pc[d] = "found"
    /\ IF \A g \in Inserts(d) : g[1] \notin gone
         THEN Goto(d, "written") /\ UNCHANGED <<pending, lock>>
         ELSE /\ Goto(d, "idle")
              /\ pending' = [pending EXCEPT ![d] = <<>>]
              /\ lock' = IF lock = d THEN None ELSE lock
    /\ UNCHANGED <<history, gone, series, audits, target, rowLock, changes>>

CommitDetect(d) ==
    /\ pc[d] = "written"
    /\ Len(series) + Len(pending[d]) <= MaxSeries
    /\ series' = series \o pending[d]
    /\ pending' = [pending EXCEPT ![d] = <<>>]
    /\ lock' = IF lock = d THEN None ELSE lock
    /\ Goto(d, "idle")
    /\ UNCHANGED <<history, gone, audits, target, rowLock, changes>>

-----------------------------------------------------------------------------
(* resolve(): the update of a candidate, its audit event, and the commit.   *)

Open(i) == series[i].status = "CANDIDATE"

\* The update waits for another reviewer's; it changes nothing once answered, and
\* the call then succeeds or conflicts without an audit event.
Answer(r) ==
    /\ pc[r] = "idle"
    /\ \E i \in Id, a \in Answers :
         /\ rowLock[i] = None
         /\ IF Open(i)
              THEN /\ rowLock' = [rowLock EXCEPT ![i] = r]
                   /\ target' = [target EXCEPT ![r] = <<i, a>>]
                   /\ Goto(r, "written")
              ELSE Goto(r, "over") /\ UNCHANGED <<rowLock, target>>
    /\ UNCHANGED <<history, gone, series, audits, pending, lock, changes>>

CommitAnswer(r) ==
    /\ pc[r] = "written"
    /\ LET i == target[r][1]
       IN /\ series' = [series EXCEPT ![i].status = target[r][2]]
          /\ audits' = [audits EXCEPT ![i] = audits[i] + 1]
          /\ rowLock' = [rowLock EXCEPT ![i] = None]
    /\ target' = [target EXCEPT ![r] = None]
    /\ Goto(r, "over")
    /\ UNCHANGED <<history, gone, pending, lock, changes>>

-----------------------------------------------------------------------------
(* mergeMerchants(): both merchants are taken FOR UPDATE, which waits for the *)
(* inserts that hold them, and the series for the answers that hold them.    *)
(* The locks are kept to the commit: the transaction is one step.           *)

Taken(m) == \E d \in Detectors : pc[d] = "written" /\ Inserts(d) \cap Of(m) # {}

\* The series of the source become the target's, whatever the target has, and so
\* do its purchases; the source is deleted.
Merge(source, into) ==
    /\ source # into /\ {source, into} \cap gone = {}
    /\ ~Taken(source) /\ ~Taken(into)
    /\ \A i \in Id : series[i].group[1] = source => rowLock[i] = None
    /\ series' = [i \in Id |-> IF series[i].group[1] = source
                                 THEN [series[i] EXCEPT !.group = <<into, series[i].group[2]>>]
                                 ELSE series[i]]
    /\ gone' = gone \cup {source}
    /\ \E h \in [Of(into) -> Histories] :
         history' = [g \in Groups |-> IF g \in Of(into) THEN h[g] ELSE history[g]]
    /\ UNCHANGED <<audits, pc, pending, target, lock, rowLock, changes>>

-----------------------------------------------------------------------------

\* A statement fails, or the process dies: the transaction is rolled back.
Abort(s) ==
    /\ pc[s] \in {"open", "found", "written"}
    /\ changes < MaxChanges /\ changes' = changes + 1
    /\ pending' = [d \in Detectors |-> IF d = s THEN <<>> ELSE pending[d]]
    /\ target' = [r \in Reviewers |-> IF r = s THEN None ELSE target[r]]
    /\ lock' = IF lock = s THEN None ELSE lock
    /\ rowLock' = [i \in 1..MaxSeries |-> IF rowLock[i] = s THEN None ELSE rowLock[i]]
    /\ Goto(s, "idle")
    /\ UNCHANGED <<history, gone, series, audits>>

\* Imports, corrections and confirmations change what the query finds.
HistoryChanges(g) ==
    /\ changes < MaxChanges /\ changes' = changes + 1
    /\ \E h \in Histories \ {history[g]} : history' = [history EXCEPT ![g] = h]
    /\ UNCHANGED <<gone, series, audits, pc, pending, target, lock, rowLock>>

Next ==
    \/ \E d \in Detectors : BeginDetect(d) \/ Propose(d) \/ Insert(d) \/ CommitDetect(d)
    \/ \E r \in Reviewers : Answer(r) \/ CommitAnswer(r)
    \/ \E source, into \in Merchants : Merge(source, into)
    \/ \E s \in Actors : Abort(s)
    \/ \E g \in Groups : HistoryChanges(g)

Spec == Init /\ [][Next]_vars

-----------------------------------------------------------------------------
(* Properties.                                                              *)

\* A merchant and currency are proposed one series of a cadence, however detections
\* are repeated and interleaved: what was rejected is not proposed again.
ProposedOnce ==
    \A i, j \in Id : (i # j /\ series[i].of = series[j].of)
                     => series[i].cadence # series[j].cadence

\* A series never outlives its merchant, and only the merge that deletes the merchant
\* it was proposed for gives it to another: of two series of one merchant, currency
\* and cadence, one was proposed for a merchant that is gone.
MovedByMerges ==
    \A i \in Id : /\ series[i].group[1] \notin gone
                  /\ series[i].group # series[i].of => series[i].of[1] \in gone

\* A series is answered once, by whichever reviewer comes first, with one audit event.
AnsweredOnce ==
    \A i \in Id : audits[i] = IF series[i].status = "CANDIDATE" THEN 0 ELSE 1

\* Whatever detections, merges and reviewers do at once, a cadence is proposed and
\* answered once, and a series changes hands with its merchant only.
SettledOnce == ProposedOnce /\ MovedByMerges /\ AnsweredOnce

\* A cadence is only seen in purchases each of which follows the last within the
\* tolerance of its cadence: a single gap, a missed month or a burst, rules it out.
CadencesAreRegular ==
    LET spread == [WEEKLY |-> 6, MONTHLY |-> 12, QUARTERLY |-> 24, ANNUAL |-> 50]
    IN \A g \in Groups :
         Eligible(g) =>
           LET h == history[g]
               gaps == {Gap(h, i) : i \in Gaps(h)}
           IN Max(gaps) - Min(gaps) <= spread[Cadence[h]]
=============================================================================
