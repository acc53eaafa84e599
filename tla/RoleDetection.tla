---------------------------- MODULE RoleDetection ----------------------------
(***************************************************************************)
(* The detection of transfers, refunds and bill payments among the stored   *)
(* transactions of a workspace (detect() of the repository, with the        *)
(* detectors of the domain package), next to imports, which overwrite the   *)
(* heuristic roles, and the owner's overrides.                              *)
(*                                                                         *)
(* A detection takes two steps: it reads under the workspace's transaction- *)
(* level advisory lock with its target locked, then writes and commits.     *)
(* Imports take neither lock, but wait for the target's row.                *)
(*                                                                         *)
(* Accounts are deposit accounts in one currency with a tolerance.  A       *)
(* description is its keyword, and its subject stands for the merchant or   *)
(* the rest of the text.  No code matches card-side payments, so the only   *)
(* evidence of a bill payment is the active reconciliation of an outflow.   *)
(***************************************************************************)
EXTENDS Integers, FiniteSets, FiniteSetsExt

CONSTANTS
    Transactions, AccountOf,
    FactsOf,     \* what the provider may say of each transaction
    Detectors,   \* concurrent calls of detect()
    Tolerance,
    TransferWindow, RefundWindow, \* in days
    CandidateLimit,
    None,
    MaxChanges   \* bound: imports, deletions, overrides and reconciliations

Keyword == {"transfer", "refund", "other"}
Facts == [day : Nat, amount : Int, keyword : Keyword, subject : Nat]
Role == {"PURCHASE", "UNKNOWN_CREDIT", "TRANSFER", "REFUND", "CARD_BILL_PAYMENT"}
Source == {"HEURISTIC", "RULE"}

VARIABLES
    rows,       \* financial_transaction: facts, live, role, source, pair
    override,   \* the owner's role, or None
    evidence,   \* outflows with an active bill-payment reconciliation
    decisions,  \* classification_decision
    detector,   \* each detection: its target, and the rows it read
    changes

vars == <<rows, override, evidence, decisions, detector, changes>>

Row == [facts : Facts, live : BOOLEAN, role : Role, source : Source,
        pair : Transactions \cup {None}]
Decision == [of : Transactions, kind : {"BILL_PAYMENT", "TRANSFER", "REFUND"},
             facts : Facts, candidates : SUBSET Transactions, selected : BOOLEAN]

\* Rows, decisions and detections keep their types.
TypeOK ==
    /\ rows \in [Transactions -> Row]
    /\ override \in [Transactions -> Role \cup {None}]
    /\ evidence \subseteq Transactions
    /\ \A d \in decisions : /\ d.of \in Transactions /\ d.facts \in FactsOf[d.of]
                            /\ d.candidates \subseteq Transactions
    /\ \A x \in Detectors : detector[x] # None => detector[x].target \in Transactions

-----------------------------------------------------------------------------
(* The detectors.  They see rows whose analytics amount is known.           *)

Abs(n) == IF n < 0 THEN -n ELSE n
Within(x, y, n) == Abs(x - y) <= n
Outflow(f) == f.amount < 0
Inflow(f) == f.amount > 0
SameAmount(f, g) == Within(Abs(f.amount), Abs(g.amount), Tolerance)

\* detectInternalTransfer(): the counterparts of t among the rows in pool.
Counterparts(t, pool, table) ==
    {u \in pool \ {t} :
       LET f == table[t].facts
           g == table[u].facts
       IN /\ f.keyword = "transfer" /\ g.keyword = "transfer"
          /\ AccountOf[u] # AccountOf[t]
          /\ (Inflow(f) /\ Outflow(g)) \/ (Outflow(f) /\ Inflow(g))
          /\ Within(f.day, g.day, TransferWindow)
          /\ SameAmount(f, g)}

\* detectRefund(): the purchases t may refund among the rows in pool.
Refundable(t, pool, table) ==
    {u \in pool \ {t} :
       LET f == table[t].facts
           g == table[u].facts
       IN /\ Inflow(f) /\ f.keyword = "refund"
          /\ AccountOf[u] = AccountOf[t]
          /\ Outflow(g)
          /\ f.day - g.day \in 0..RefundWindow
          /\ f.amount <= Abs(g.amount)
          /\ f.subject = g.subject
          /\ SameAmount(f, g)}

\* classifyTransaction() without evidence, as imports call it.
Classified(f) == IF Outflow(f) THEN "PURCHASE" ELSE "UNKNOWN_CREDIT"

Effective(t, roles, table) == IF roles[t] # None THEN roles[t] ELSE table[t].role

-----------------------------------------------------------------------------
Init ==
    /\ rows \in {r \in [Transactions -> UNION {
                          {[facts |-> f, live |-> TRUE, role |-> Classified(f),
                            source |-> "HEURISTIC", pair |-> None] :
                             f \in FactsOf[t]} : t \in Transactions}] :
                   \A t \in Transactions : r[t].facts \in FactsOf[t]}
    /\ override = [t \in Transactions |-> None]
    /\ evidence = {}
    /\ decisions = {}
    /\ detector = [x \in Detectors |-> None]
    /\ changes = 0

Change == changes < MaxChanges /\ changes' = changes + 1

\* The row of a detection's target is locked until it commits.
RowFree(t) == \A x \in Detectors : detector[x] # None => detector[x].target # t

\* importPage() stores the provider's facts; roles a rule set stay.
Import(t) ==
    /\ Change
    /\ RowFree(t)
    /\ \E f \in FactsOf[t] :
         rows' = [rows EXCEPT ![t] =
                    [facts |-> f, live |-> TRUE, pair |-> rows[t].pair,
                     role |-> IF rows[t].source = "HEURISTIC" THEN Classified(f) ELSE rows[t].role,
                     source |-> rows[t].source]]
    /\ UNCHANGED <<override, evidence, decisions, detector>>

\* deleteWebhookTransactions().
Delete(t) ==
    /\ rows[t].live
    /\ Change
    /\ RowFree(t)
    /\ rows' = [rows EXCEPT ![t].live = FALSE]
    /\ UNCHANGED <<override, evidence, decisions, detector>>

\* evaluateTransaction() applies a rule that sets the role.
ApplyRule(t, role) ==
    /\ Change
    /\ RowFree(t)
    /\ rows' = [rows EXCEPT ![t].role = role, ![t].source = "RULE"]
    /\ UNCHANGED <<override, evidence, decisions, detector>>

\* update() of the owner's state sets or clears the role.
Override(t, role) ==
    /\ Change
    /\ override' = [override EXCEPT ![t] = role]
    /\ UNCHANGED <<rows, evidence, decisions, detector>>

\* A reconciliation of an outflow is confirmed; decisions on it are final.
Reconcile(t) ==
    /\ rows[t].live /\ Outflow(rows[t].facts)
    /\ Effective(t, override, rows) = "CARD_BILL_PAYMENT"
    /\ Change
    /\ evidence' = evidence \cup {t}
    /\ UNCHANGED <<rows, override, decisions, detector>>

-----------------------------------------------------------------------------
(* detect().                                                                *)

\* Mutant: detect() without its advisory lock.
MutUnlocked == TRUE

Unlocked == \A x \in Detectors : detector[x] = None

\* The lock, the target's row and everything a detection reads.
Begin(x, t) ==
    /\ Unlocked
    /\ rows[t].live
    /\ detector' = [detector EXCEPT ![x] = [target |-> t, rows |-> rows, roles |-> override,
                                            reconciled |-> t \in evidence]]
    /\ UNCHANGED <<rows, override, evidence, decisions, changes>>

\* Decisions are recorded once for each fingerprint: it covers the target's facts
\* and the candidates, not the outcome.
Recorded(t, kind, facts, candidates, selected) ==
    IF \E d \in decisions : /\ d.of = t /\ d.kind = kind
                            /\ d.facts = facts /\ d.candidates = candidates
      THEN decisions
      ELSE decisions \cup {[of |-> t, kind |-> kind, facts |-> facts,
                            candidates |-> candidates, selected |-> selected]}

\* Rows loadCandidates() returns for the target.
Loaded(t, table) ==
    {u \in Transactions \ {t} :
       /\ table[u].live
       /\ table[u].facts.day - table[t].facts.day \in -RefundWindow..TransferWindow}

Unpaired(t, d) ==
    {u \in Loaded(t, d.rows) : /\ d.rows[u].pair = None
                               /\ Effective(u, d.roles, d.rows)
                                    \notin {"CARD_BILL_PAYMENT", "REFUND"}}

Applied(S, role) ==
    [t \in Transactions |-> IF t \in S THEN [rows[t] EXCEPT !.role = role, !.source = "HEURISTIC"]
                            ELSE rows[t]]

Applying(t, u) ==
    [rows EXCEPT ![t].role = "TRANSFER", ![t].source = "HEURISTIC", ![t].pair = u,
                 ![u].role = "TRANSFER", ![u].source = "HEURISTIC", ![u].pair = t]

\* The counterpart, if each side is the other's only candidate among the rows read.
Reciprocal(t, d) ==
    {u \in Counterparts(t, Unpaired(t, d), d.rows) :
       /\ Counterparts(t, Unpaired(t, d), d.rows) = {u}
       /\ Counterparts(u, {t} \cup Unpaired(t, d), d.rows) = {t}}

HasBillEvidence(t, d) == d.reconciled /\ Outflow(d.rows[t].facts)

BillPayment(t, d) ==
    /\ rows' = Applied({t}, "CARD_BILL_PAYMENT")
    /\ decisions' = Recorded(t, "BILL_PAYMENT", d.rows[t].facts, {t}, TRUE)

AlreadyApplied(t, d) ==
    \/ d.rows[t].pair # None
    \/ Effective(t, d.roles, d.rows) \in {"REFUND", "CARD_BILL_PAYMENT"}

Transfer(t, d) ==
    LET candidates == Counterparts(t, Unpaired(t, d), d.rows)
    IN /\ candidates # {}
       /\ decisions' = Recorded(t, "TRANSFER", d.rows[t].facts, candidates, Reciprocal(t, d) # {})
       /\ IF Reciprocal(t, d) = {} THEN UNCHANGED rows
          ELSE \E u \in Reciprocal(t, d) : rows' = Applying(t, u)

Purchases(t, d) ==
    {u \in Loaded(t, d.rows) : Effective(u, d.roles, d.rows) = "PURCHASE"}

Refund(t, d) ==
    LET candidates == Refundable(t, Purchases(t, d), d.rows)
    IN /\ candidates # {}
       /\ decisions' = Recorded(t, "REFUND", d.rows[t].facts, candidates, Cardinality(candidates) = 1)
       /\ rows' = IF Cardinality(candidates) = 1 THEN Applied({t}, "REFUND") ELSE rows

\* What a detection writes, by the first detector that finds something.
Detected(t, d) ==
    IF HasBillEvidence(t, d) THEN BillPayment(t, d)
    ELSE IF AlreadyApplied(t, d) \/ Cardinality(Loaded(t, d.rows)) > CandidateLimit
      THEN UNCHANGED <<rows, decisions>>
    ELSE IF Counterparts(t, Unpaired(t, d), d.rows) # {} THEN Transfer(t, d)
    ELSE IF Refundable(t, Purchases(t, d), d.rows) # {} THEN Refund(t, d)
    ELSE UNCHANGED <<rows, decisions>>

\* The writes and the commit; a failure rolls them back.
Finish(x) ==
    /\ detector[x] # None
    /\ \/ Detected(detector[x].target, detector[x])
       \/ UNCHANGED <<rows, decisions>>
    /\ detector' = [detector EXCEPT ![x] = None]
    /\ UNCHANGED <<override, evidence, changes>>

Next ==
    \/ \E t \in Transactions : \/ Import(t) \/ Delete(t) \/ Reconcile(t)
                               \/ \E role \in {"TRANSFER", "CARD_BILL_PAYMENT"} :
                                    ApplyRule(t, role)
                               \/ \E role \in {"CARD_BILL_PAYMENT", "PURCHASE", None} :
                                    Override(t, role)
    \/ \E x \in Detectors, t \in Transactions : Begin(x, t)
    \/ \E x \in Detectors : Finish(x)

Spec == Init /\ [][Next]_vars

-----------------------------------------------------------------------------
(* Properties.                                                              *)

\* A transfer has two sides, each the other's pair, in different accounts: no
\* two detections, whatever they read, pair one transaction twice.
PairsAreMutual ==
    \A t \in Transactions :
      rows[t].pair # None =>
        /\ rows[rows[t].pair].pair = t
        /\ AccountOf[rows[t].pair] # AccountOf[t]

\* A bill-payment role that neither a rule nor an import gave rests on a confirmed
\* reconciliation, next to imports and overrides between its read and its write.
BillRolesHaveEvidence ==
    \A t \in Transactions :
      (rows[t].role = "CARD_BILL_PAYMENT" /\ rows[t].source = "HEURISTIC") => t \in evidence

\* A transfer is confirmed only if it is unique and reciprocal: neither side had
\* another free counterpart among the rows the detection worked on.
OnlyUniqueTransfers ==
    [][\A x \in Detectors : detector[x] # None /\ detector'[x] = None =>
         \A t \in Transactions :
           rows[t].pair = None /\ rows'[t].pair # None =>
             LET d == detector[x]
                 free == {u \in Transactions : /\ d.rows[u].live /\ d.rows[u].pair = None
                                               /\ Effective(u, d.roles, d.rows)
                                                    \notin {"CARD_BILL_PAYMENT", "REFUND"}}
             IN Counterparts(t, free, d.rows) = {rows'[t].pair}]_vars

\* Every pair is explained by a decision on one side that names the other among its
\* candidates, whatever decisions were recorded before it.
PairsAreExplained ==
    \A t \in Transactions :
      rows[t].pair # None =>
        \E d \in decisions : /\ d.kind = "TRANSFER"
                             /\ \/ d.of = t /\ rows[t].pair \in d.candidates
                                \/ d.of = rows[t].pair /\ t \in d.candidates

\* Roles rest on what they claim: pairs are mutual and explained, bill payments
\* confirmed, next to imports, overrides, rules and other detections.
RolesAreBacked == PairsAreMutual /\ PairsAreExplained /\ BillRolesHaveEvidence
=============================================================================
