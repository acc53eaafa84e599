------------------------------- MODULE CardBills -------------------------------
(***************************************************************************)
(* The bills of one credit card: their import, the links from the card's    *)
(* transactions to them, and the reconciliation of their payments with      *)
(* outflows of deposit accounts, which an owner confirms or rejects.        *)
(*                                                                         *)
(* Importers are runs of importBills() (bill-import.ts), Pages are runs of  *)
(* importPage() on the card's account, Reviewers are requests that confirm  *)
(* or reject a candidate.  A step is one provider request or one database   *)
(* transaction; importPage() and resolveCandidate() take two, as a lock     *)
(* stands between what they read and what they write.                       *)
(*                                                                         *)
(* A payment child and a bank transaction are compared by amount and by     *)
(* date: both are one number here, Near() within Tolerance.  There is one   *)
(* currency, which has a tolerance.  Left out: raw snapshots, finance       *)
(* charges (no code matches them, so a bill that has one is never           *)
(* reconciled), and lists without duplicates, which the import demands.     *)
(***************************************************************************)
EXTENDS Integers, FiniteSets

CONSTANTS
    Bills, Payments, BillOf,  \* payment children and the bill of each
    Purchases,   \* transactions of the card
    Outflows,    \* transactions of deposit accounts
    Values, Tolerance,
    Importers, Pages, Reviewers,
    ListLimit,   \* rows listCandidates() returns
    None,
    MaxChanges,  \* bound: changes at the provider and of the outflows
    MaxRequests  \* bound: requests for candidates or decisions

Match == {"ABSENT", "CANDIDATE", "USER_CONFIRMED", "REJECTED"}
Decision == {"USER_CONFIRMED", "REJECTED"}
Outflow == [value : Values, role : BOOLEAN, live : BOOLEAN, duplicate : BOOLEAN]
List == [bills : SUBSET Bills, children : [Payments -> Values \cup {None}]]

VARIABLES
    offered,   \* the provider's bills and their payments
    names,     \* the bill the provider names on each purchase
    available, \* the connection is open and the account active
    bills,     \* credit_card_bill
    payments,  \* credit_card_bill_payment
    purchases, \* of each purchase: stored, provider_bill_id, credit_card_bill_id
    outflows,  \* what the reconciliation reads of each outflow
    matches,   \* bill_payment_reconciliation
    audited,   \* audit events of each match
    accountLock, \* the FOR UPDATE of the card's account
    fetched,   \* each importer's list, each page's names
    found,     \* bills a page's reads found
    review,    \* each reviewer's request, and the status it read
    changes, requests

provider == <<offered, names, available>>
ledger == <<bills, payments, purchases>>
reconciliation == <<matches, audited, review, requests>>
vars == <<provider, ledger, outflows, reconciliation, accountLock, fetched, found, changes>>

Pairs == Payments \X Outflows

Purchase == [stored : BOOLEAN, names : Bills \cup {None}, bill : Bills \cup {None}]
Request == [pair : Pairs, target : Decision, read : Match]

\* Rows, lists and requests keep their types.
TypeOK ==
    /\ offered \in List
    /\ names \in [Purchases -> Bills \cup {None}]
    /\ bills \subseteq Bills
    /\ payments \in [Payments -> Values \cup {None}]
    /\ purchases \in [Purchases -> Purchase]
    /\ outflows \in [Outflows -> Outflow]
    /\ matches \in [Pairs -> Match]
    /\ audited \in [Pairs -> 0..MaxRequests]
    /\ accountLock \in Pages \cup {None}
    /\ DOMAIN fetched = Importers \cup Pages
    /\ \A i \in Importers : fetched[i] \in List \cup {None}
    /\ \A g \in Pages : fetched[g] \in [Purchases -> Bills \cup {None}] \cup {None}
    /\ found \in [Pages -> SUBSET Bills]
    /\ review \in [Reviewers -> Request \cup {None}]

Init ==
    /\ offered = [bills |-> {}, children |-> [p \in Payments |-> None]]
    /\ names \in [Purchases -> Bills]
    /\ available = TRUE
    /\ bills = {}
    /\ payments = [p \in Payments |-> None]
    /\ purchases = [t \in Purchases |-> [stored |-> FALSE, names |-> None, bill |-> None]]
    /\ \E v \in Values :
         outflows = [t \in Outflows |-> [value |-> v, role |-> TRUE, live |-> TRUE,
                                         duplicate |-> FALSE]]
    /\ matches = [m \in Pairs |-> "ABSENT"]
    /\ audited = [m \in Pairs |-> 0]
    /\ accountLock = None
    /\ fetched = [x \in Importers \cup Pages |-> None]
    /\ found = [g \in Pages |-> {}]
    /\ review = [u \in Reviewers |-> None]
    /\ changes = 0
    /\ requests = 0

Near(x, y) == x - y <= Tolerance /\ y - x <= Tolerance

-----------------------------------------------------------------------------
(* The surroundings: the provider's bills change, purchases move to another *)
(* bill, outflows are imported anew, deleted, reclassified or found to be   *)
(* duplicates, and the connection is closed.                                *)

Change == changes < MaxChanges /\ changes' = changes + 1

Offer(b) ==
    /\ Change
    /\ \E kept \in [{p \in Payments : BillOf[p] = b} -> Values \cup {None}] :
         offered' = [bills |-> offered.bills \cup {b},
                     children |-> [p \in Payments |-> IF BillOf[p] = b THEN kept[p]
                                                      ELSE offered.children[p]]]
    /\ UNCHANGED <<names, available, ledger, outflows, reconciliation, accountLock, fetched, found>>

Rename(t) ==
    /\ Change
    /\ names' \in {[names EXCEPT ![t] = b] : b \in (Bills \cup {None}) \ {names[t]}}
    /\ UNCHANGED <<offered, available, ledger, outflows, reconciliation, accountLock, fetched, found>>

Reclassify(t) ==
    /\ Change
    /\ outflows' \in {[outflows EXCEPT ![t] = o] : o \in Outflow \ {outflows[t]}}
    /\ UNCHANGED <<provider, ledger, reconciliation, accountLock, fetched, found>>

Close ==
    /\ available
    /\ Change
    /\ available' = FALSE
    /\ UNCHANGED <<offered, names, ledger, outflows, reconciliation, accountLock, fetched, found>>

-----------------------------------------------------------------------------
(* Bills.                                                                   *)

\* listCreditCardBills(), outside any transaction: it may be stale when stored.
FetchBills(i) ==
    /\ fetched[i] = None
    /\ available
    /\ fetched' = [fetched EXCEPT ![i] = offered]
    /\ UNCHANGED <<provider, ledger, outflows, reconciliation, accountLock, found, changes>>

\* Purchases that name a bill of the list and have no bill yet.
Linked(list) ==
    [t \in Purchases |->
       IF /\ purchases[t].stored
          /\ purchases[t].bill = None
          /\ purchases[t].names \in list.bills
         THEN [purchases[t] EXCEPT !.bill = purchases[t].names]
         ELSE purchases[t]]

\* Children are upserted: those the list leaves out stay as they are.
Upserted(list) ==
    [p \in Payments |-> IF BillOf[p] \in list.bills /\ list.children[p] # None
                          THEN list.children[p] ELSE payments[p]]

\* importBills() of the repository, with the connection and the account locked.
ImportBills(i) ==
    /\ fetched[i] # None
    /\ accountLock = None
    /\ IF available
         THEN /\ bills' = bills \cup fetched[i].bills
              /\ payments' = Upserted(fetched[i])
              /\ purchases' = Linked(fetched[i])
         ELSE UNCHANGED ledger
    /\ fetched' = [fetched EXCEPT ![i] = None]
    /\ UNCHANGED <<provider, outflows, reconciliation, accountLock, found, changes>>

-----------------------------------------------------------------------------
(* Purchases.                                                               *)

FetchPage(g) ==
    /\ fetched[g] = None
    /\ fetched' = [fetched EXCEPT ![g] = names]
    /\ UNCHANGED <<provider, ledger, outflows, reconciliation, accountLock, found, changes>>

\* importPage() locks the account, then looks up the bills its items name.  It asks for
\* neither an open connection nor an active account, but fails when the account has moved.
ReadPage(g) ==
    /\ fetched[g] # None
    /\ accountLock = None
    /\ \/ /\ accountLock' = g
          /\ found' = [found EXCEPT ![g] = {fetched[g][t] : t \in Purchases} \cap bills]
          /\ UNCHANGED fetched
       \/ /\ fetched' = [fetched EXCEPT ![g] = None]
          /\ UNCHANGED <<accountLock, found>>
    /\ UNCHANGED <<provider, ledger, outflows, reconciliation, changes>>

WritePage(g) ==
    /\ accountLock = g
    /\ purchases' = [t \in Purchases |->
                       [stored |-> TRUE, names |-> fetched[g][t],
                        bill |-> IF fetched[g][t] \in found[g] THEN fetched[g][t] ELSE None]]
    /\ accountLock' = None
    /\ fetched' = [fetched EXCEPT ![g] = None]
    /\ found' = [found EXCEPT ![g] = {}]
    /\ UNCHANGED <<provider, bills, payments, outflows, reconciliation, changes>>

-----------------------------------------------------------------------------
(* Reconciliation.                                                          *)

Active(p, t) == matches[<<p, t>>] = "USER_CONFIRMED"

\* What the insert of candidates joins.
Eligible(p, t) ==
    /\ payments[p] # None
    /\ outflows[t].live /\ outflows[t].role /\ ~outflows[t].duplicate
    /\ Near(outflows[t].value, payments[p])

\* generateCandidates(): one statement, under the payment's row lock.
GenerateCandidates(p) ==
    /\ requests < MaxRequests
    /\ payments[p] # None
    /\ matches' = [m \in Pairs |->
                     IF /\ m[1] = p /\ matches[m] = "ABSENT" /\ Eligible(p, m[2])
                        /\ ~\E other \in Pairs : /\ Active(other[1], other[2])
                                                 /\ other[1] = p \/ other[2] = m[2]
                       THEN "CANDIDATE" ELSE matches[m]]
    /\ requests' = requests + 1
    /\ UNCHANGED <<provider, ledger, outflows, audited, review, accountLock, fetched, found, changes>>

MatchFree(m) == \A u \in Reviewers : review[u] # None => review[u].pair # m

\* resolveCandidate() locks the match and reads its status; another decision, or
\* no match at all, is answered at once.
ReadMatch(u, m, target) ==
    /\ review[u] = None
    /\ requests < MaxRequests
    /\ MatchFree(m)
    /\ matches[m] \in {"CANDIDATE", target}
    /\ review' = [review EXCEPT ![u] = [pair |-> m, target |-> target, read |-> matches[m]]]
    /\ requests' = requests + 1
    /\ UNCHANGED <<provider, ledger, outflows, matches, audited, accountLock, fetched, found, changes>>

\* The trigger on a row that becomes active.
EvidenceAccepted(p, t) ==
    /\ Near(outflows[t].value, payments[p])
    /\ outflows[t].role /\ outflows[t].live

\* Mutant: one active match for each payment, but not for each outflow.
MutNoOtherActive(p, t) ==
    \A other \in Pairs \ {<<p, t>>} : Active(other[1], other[2]) => other[1] # p

\* The unique indexes on active rows.
NoOtherActive(p, t) ==
    \A other \in Pairs \ {<<p, t>>} :
      Active(other[1], other[2]) => other[1] # p /\ other[2] # t

\* The answer is looked up in the list of the payment's matches: rejected rows come
\* last, in no order the model keeps.
MayBeListed(p, t, table) ==
    \/ table[<<p, t>>] # "REJECTED"
    \/ Cardinality({s \in Outflows : table[<<p, s>>] \in Match \ {"ABSENT", "REJECTED"}}) < ListLimit

AlwaysListed(p, table) ==
    Cardinality({s \in Outflows : table[<<p, s>>] # "ABSENT"}) <= ListLimit

\* resolveCandidate() writes, audits, answers and commits; what its checks refuse,
\* and an answer it cannot find, rolls it back.
Resolve(u) ==
    /\ review[u] # None
    /\ LET r == review[u]
           p == r.pair[1]
           t == r.pair[2]
           decided == [matches EXCEPT ![r.pair] = r.target]
           permitted == r.target = "USER_CONFIRMED" =>
                          EvidenceAccepted(p, t) /\ NoOtherActive(p, t)
       IN \/ /\ r.read = "CANDIDATE" /\ permitted /\ MayBeListed(p, t, decided)
             /\ matches' = decided
             /\ audited' = [audited EXCEPT ![r.pair] = audited[r.pair] + 1]
          \/ /\ r.read # "CANDIDATE" \/ ~permitted \/ ~AlwaysListed(p, decided)
             /\ UNCHANGED <<matches, audited>>
    /\ review' = [review EXCEPT ![u] = None]
    /\ UNCHANGED <<provider, ledger, outflows, requests, accountLock, fetched, found, changes>>

-----------------------------------------------------------------------------
(* The view v_credit_card_bill_reconciliation.                              *)

\* Payments whose active match still holds: the view joins on the evidence again.
ConfirmedPayments(b) ==
    {p \in Payments : /\ BillOf[p] = b /\ payments[p] # None
                      /\ \E t \in Outflows : Active(p, t) /\ EvidenceAccepted(p, t)}

Unresolved(b) ==
    Cardinality({p \in Payments : BillOf[p] = b /\ payments[p] # None})
      - Cardinality(ConfirmedPayments(b))

Next ==
    \/ \E b \in Bills : Offer(b)
    \/ \E t \in Purchases : Rename(t)
    \/ \E t \in Outflows : Reclassify(t)
    \/ Close
    \/ \E i \in Importers : FetchBills(i) \/ ImportBills(i)
    \/ \E g \in Pages : FetchPage(g) \/ ReadPage(g) \/ WritePage(g)
    \/ \E p \in Payments : GenerateCandidates(p)
    \/ \E u \in Reviewers, m \in Pairs, target \in Decision : ReadMatch(u, m, target)
    \/ \E u \in Reviewers : Resolve(u)

Spec == Init /\ [][Next]_vars

-----------------------------------------------------------------------------
(* Properties.                                                              *)

\* A stored purchase whose bill is stored is linked to it, and to no other bill,
\* whichever of the two is imported first and however the imports interleave.
LinksAgree ==
    accountLock = None =>
      \A t \in Purchases :
        purchases[t].stored =>
          purchases[t].bill = IF purchases[t].names \in bills THEN purchases[t].names ELSE None

\* A bill without unresolved payments is backed by the bank: each of its payments
\* has a live outflow of its own, which no payment of any bill shares, whatever
\* happened to the evidence after the owner confirmed it.
ResolvedIsBacked ==
    \A b \in bills :
      Unresolved(b) = 0 =>
        \A p \in Payments :
          BillOf[p] = b /\ payments[p] # None =>
            \E t \in Outflows :
              /\ Active(p, t) /\ outflows[t].live /\ outflows[t].role
              /\ Near(outflows[t].value, payments[p])
              /\ \A q \in Payments \ {p} : ~Active(q, t)

\* A decision is final and audited once: no retry, concurrent reviewer or new
\* candidate search changes or repeats it.
DecisionsAuditedOnce ==
    \A m \in Pairs : audited[m] = IF matches[m] \in Decision THEN 1 ELSE 0

\* What the bills say is true of the purchases, the bank and the log: links, resolved
\* payments and decisions, next to imports, deletions and other reviewers.
BillsAgree == LinksAgree /\ ResolvedIsBacked /\ DecisionsAuditedOnce
=============================================================================
