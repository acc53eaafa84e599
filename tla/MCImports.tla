------------------------------- MODULE MCImports -------------------------------
(***************************************************************************)
(* A small instance of the imports: transactions, card bills, accounts and  *)
(* the rules evaluated on what was imported.  They share no state in the    *)
(* models, so a behaviour runs one of Parts.                                *)
(***************************************************************************)
EXTENDS TransactionImport, TLC

CONSTANTS
    Parts,
    a, t1, t2, full, created, deleted,
    Bills, Payments, BillOf, Purchases, Outflows, Values, Tolerance, Importers, Pages,
    Reviewers, ListLimit, MaxBillChanges, MaxRequests, b1,
    Connections, ConnectionOf, Imports, HistoryRuns, Snapshots, LastDay, Window,
    MaxAccountChanges,
    c1, c2, i1, i2, h1, h2,
    Rules, CreatedBefore(_, _), Contents, Says, Txs, Facts, ImportedRole, Tags, MaxEdits,
    MaxImports, A, B, tag

MCAccountOf == [t \in Transactions |-> a]
MCPageOf == [t \in Transactions |-> IF t = t1 THEN 0 ELSE 1]
MCKindOf == full :> "full" @@ created :> "page" @@ deleted :> "deleted"

VARIABLES offered, names, available, bills, payments, purchases, outflows, matches, audited,
          accountLock, fetched, found, review, billChanges, requests
billVars == <<offered, names, available, bills, payments, purchases, outflows, matches,
              audited, accountLock, fetched, found, review, billChanges, requests>>
Bi == INSTANCE CardBills WITH changes <- billChanges, MaxChanges <- MaxBillChanges

ASSUME BillAssumption ==
    /\ IsFiniteSet(Payments) /\ MaxRequests \in Nat \ {0}
    /\ Importers \cap Pages = {}
    /\ None \notin Bills \cup Values \cup Pages \cup Bi!List \cup Bi!Request
    /\ None \notin [Purchases -> Bills \cup {None}]

MCBillOf == [p \in Payments |-> b1]

\* Bills are imported and reconciled one after the other: reviewers begin when no
\* page is on its way and no purchase is stored.
Apart ==
    requests = 0 \/ ((\A g \in Pages : fetched[g] = None)
                     /\ \A t \in Purchases : ~purchases[t].stored)

VARIABLES listed, closed, accounts, snapshots, listing, place, days, accountChanges
accountVars == <<listed, closed, accounts, snapshots, listing, place, days, accountChanges>>
Ac == INSTANCE AccountHistory WITH
        Contents <- Snapshots, Runs <- HistoryRuns,
        provided <- listed, changes <- accountChanges, MaxChanges <- MaxAccountChanges

ASSUME HistoryAssumption ==
    /\ LastDay \in Nat /\ Window \in Int /\ Snapshots # {}
    /\ ConnectionOf \in [Imports \cup HistoryRuns -> Connections]
    /\ None \notin Connections \cup Ac!Day \cup Ac!Account

MCConnectionOf == i1 :> c1 @@ i2 :> c2 @@ h1 :> c1 @@ h2 :> c2

VARIABLES rule, facts, applied, decisions, loaded, imports
ruleVars == <<rule, facts, applied, decisions, loaded, imports>>
Ru == INSTANCE RuleEvaluation

ASSUME RuleAssumption ==
    /\ IsFiniteSet(Rules) /\ None \notin Rules
    /\ MaxEdits \in Nat /\ MaxImports \in Nat
    /\ \A c \in Contents : /\ Says[c].priority \in Int
                          /\ DOMAIN Says[c].ops \subseteq Ru!Fields \cup {"stop"}
    /\ \A r \in Rules : ~CreatedBefore(r, r)
    /\ \A q, r, s \in Rules : CreatedBefore(q, r) /\ CreatedBefore(r, s) => CreatedBefore(q, s)
    /\ \A r, s \in Rules : r = s \/ CreatedBefore(r, s) \/ CreatedBefore(s, r)

MCCreatedBefore(r, s) == r = A /\ s = B
Predicate(f, o, v) == [type |-> "PREDICATE", field |-> f, op |-> o, value |-> v]
Nested ==
    [type |-> "ANY", conditions |->
      {Predicate("merchant", "neq", "x"),
       [type |-> "ALL", conditions |-> {Predicate("fact", "gte", 1),
                                        Predicate("role", "in", {"purchase"})}]}]
MCSays ==
    "buys" :> [priority |-> 1, condition |-> Predicate("fact", "between", <<0, 1>>),
               ops |-> "category" :> "groceries", stop |-> FALSE]
    @@ "trips" :> [priority |-> 2, condition |-> Predicate("role", "eq", "unknown"),
                   ops |-> "category" :> "travel" @@ "role" :> "purchase" @@ tag :> "ADD",
                   stop |-> FALSE]
    @@ "tags" :> [priority |-> 1, condition |-> Nested,
                  ops |-> "stop" :> "stop" @@ tag :> "REMOVE", stop |-> FALSE]

VARIABLE part
allVars == <<vars, billVars, accountVars, ruleVars, part>>

\* A part that does not run stays in one of its initial states; of the provider's
\* transactions, the one on the first page is listed with some print from the start.
Still ==
    /\ provided[t1] = CHOOSE p \in Prints : TRUE
    /\ part # "transactions" => provided[t2] = provided[t1]
    /\ part # "bills" =>
         /\ \A t \in Purchases : names[t] = CHOOSE b \in Bills : TRUE
         /\ \A t \in Outflows : outflows[t].value = CHOOSE v \in Values : TRUE
    /\ part # "accounts" => \A c \in Accounts : listed[c][1] = CHOOSE d \in Connections : TRUE
    /\ part # "rules" =>
         /\ \A r \in Rules : rule[r].content = CHOOSE d \in Contents : TRUE
         /\ \A t \in Txs : facts[t] = CHOOSE f \in Facts : TRUE

MCInit == /\ part \in Parts
          /\ Init /\ Bi!Init /\ Ac!Init /\ Ru!Init
          /\ Still

MCNext ==
    \/ /\ part = "transactions" /\ Next
       /\ UNCHANGED <<part, billVars, accountVars, ruleVars>>
    \/ /\ part = "bills" /\ Bi!Next /\ Apart'
       /\ UNCHANGED <<part, vars, accountVars, ruleVars>>
    \/ /\ part = "accounts" /\ Ac!Next
       /\ UNCHANGED <<part, vars, billVars, ruleVars>>
    \/ /\ part = "rules" /\ Ru!Next
       /\ UNCHANGED <<part, vars, billVars, accountVars>>

MCSpec == MCInit /\ [][MCNext]_allVars

\* BillsAgree of CardBills, with the types of its state.
BillsAgree == part = "bills" => Bi!TypeOK /\ Bi!BillsAgree

\* CoverageIsObserved of AccountHistory, with the types of its state.
CoverageIsObserved == part = "accounts" => Ac!TypeOK /\ Ac!CoverageIsObserved

\* AccountsStayOpen of AccountHistory.
AccountsStayOpen == Ac!AccountsStayOpen

\* EvaluationsAreSound of RuleEvaluation, with the types of its state.
EvaluationsAreSound == part = "rules" => Ru!TypeOK /\ Ru!EvaluationsAreSound

\* AppliedIsRecorded of RuleEvaluation.
AppliedIsRecorded == part = "rules" => Ru!AppliedIsRecorded
=============================================================================
