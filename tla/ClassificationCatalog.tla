------------------------ MODULE ClassificationCatalog ------------------------
(***************************************************************************)
(* Categories, merchants and classification rules of one workspace, as      *)
(* ClassificationManagementRepository and ClassificationRuleRepository      *)
(* change them (packages/db/src).  Every operation is a READ COMMITTED      *)
(* transaction of one session: it locks the rows it is about (FOR UPDATE),   *)
(* checks what it refers to, and writes.  The checks read what is committed  *)
(* at that moment and lock nothing, so other sessions may commit between a   *)
(* check and the write it guards.                                          *)
(*                                                                         *)
(* The checks of one transaction are answered together, and so are its       *)
(* writes and its commit.  Names, icons, aliases and the user state, whose   *)
(* references to merchants are foreign keys, are left out.                  *)
(***************************************************************************)
EXTENDS FiniteSets, Naturals

CONSTANTS
    Categories, Merchants, Rules, Sessions,
    BuiltIn,   \* the categories of no workspace, which nobody changes
    Requests,  \* what callers ask for
    None,      \* null, and what an idle session is asked
    Keep,      \* undefined in an update
    MaxConfirmations  \* bound on the confirmations of a rule

ASSUME CatalogNames ==
    /\ BuiltIn \subseteq Categories
    /\ None \notin Categories \cup Merchants
    /\ Keep \notin Categories \cup Merchants \cup BOOLEAN \cup {None}
    /\ MaxConfirmations \in Nat

OptionalCategory == Categories \cup {None}
OptionalMerchant == Merchants \cup {None}

\* The requests, by the method that serves them.
CreateCategory == [op : {"createCategory"}, category : Categories \ BuiltIn,
                   parent : OptionalCategory]
UpdateCategory == [op : {"updateCategory"}, category : Categories,
                   parent : OptionalCategory \cup {Keep}, active : BOOLEAN \cup {Keep}]
UpdateMerchant == [op : {"updateMerchant"}, merchant : Merchants, default : OptionalCategory]
MergeMerchants == {r \in [op : {"mergeMerchants"}, source : Merchants, target : Merchants] :
                     r.source # r.target}
CreateRule == [op : {"createRule"}, rule : Rules, category : OptionalCategory,
               merchant : OptionalMerchant, suggestion : BOOLEAN]
UpdateRule == [op : {"updateRule"}, rule : Rules, category : OptionalCategory \cup {Keep},
               merchant : OptionalMerchant \cup {Keep}, active : BOOLEAN \cup {Keep}]
ConfirmSuggestion == [op : {"confirmSuggestion"}, rule : Rules]
DeactivateRule == [op : {"deactivateRule"}, rule : Rules]

Request == CreateCategory \cup UpdateCategory \cup UpdateMerchant \cup MergeMerchants
             \cup CreateRule \cup UpdateRule \cup ConfirmSuggestion \cup DeactivateRule

ASSUME RequestsAreRequests == Requests \subseteq Request

VARIABLES
    category,      \* the table category
    merchant,      \* the table merchant
    rule,          \* the table classification_rule; of the actions, those with references
    confirmations, \* audit events CLASSIFICATION_RULE_SUGGESTION_CONFIRMED per rule
    session        \* the transaction of each session

vars == <<category, merchant, rule, confirmations, session>>

Category == [exists : BOOLEAN, active : BOOLEAN, parent : OptionalCategory]
Merchant == [exists : BOOLEAN, default : OptionalCategory]
Rule == [exists : BOOLEAN, active : BOOLEAN, suggestion : BOOLEAN,
         category : OptionalCategory, merchant : OptionalMerchant]

Idle == [step |-> "idle", request |-> None]
Session == {Idle} \cup [step : {"begun", "locked", "checked"}, request : Request]

TypeOK ==
    /\ category \in [Categories -> Category]
    /\ merchant \in [Merchants -> Merchant]
    /\ rule \in [Rules -> Rule]
    /\ confirmations \in [Rules -> 0..MaxConfirmations]
    /\ session \in [Sessions -> Session]

NoCategory == [exists |-> FALSE, active |-> FALSE, parent |-> None]
NoRule == [exists |-> FALSE, active |-> FALSE, suggestion |-> FALSE,
           category |-> None, merchant |-> None]

\* Any forest of active categories, any merchants without default category, no rules.
Init ==
    /\ category \in [Categories -> {NoCategory} \cup [exists : {TRUE}, active : {TRUE},
                                                      parent : OptionalCategory]]
    /\ \A c \in Categories :
         LET p == category[c].parent IN p # None => category[p].exists /\ (c \in BuiltIn => p \in BuiltIn)
    /\ \A S \in (SUBSET Categories) \ {{}} : \E c \in S : category[c].parent \notin S
    /\ merchant = [m \in Merchants |-> [exists |-> TRUE, default |-> None]]
    /\ rule = [r \in Rules |-> NoRule]
    /\ confirmations = [r \in Rules |-> 0]
    /\ session = [s \in Sessions |-> Idle]

-----------------------------------------------------------------------------
(***************************************************************************)
(* Row locks.                                                              *)
(***************************************************************************)
\* The rows a request locks FOR UPDATE before anything else.
Target(req) ==
    CASE req.op = "updateCategory" -> {req.category}
      [] req.op = "updateMerchant" -> {req.merchant}
      [] req.op = "mergeMerchants" -> {req.source, req.target}
      [] req.op \in {"updateRule", "confirmSuggestion", "deactivateRule"} -> {req.rule}
      [] OTHER -> {}

Locked(s) == IF session[s].step \in {"locked", "checked"} THEN Target(session[s].request) ELSE {}

\* No other session has the row FOR UPDATE.
Free(s, row) == \A t \in Sessions \ {s} : row \notin Locked(t)

Found(req) ==
    CASE req.op = "updateCategory" -> category[req.category].exists /\ req.category \notin BuiltIn
      [] req.op = "updateMerchant" -> merchant[req.merchant].exists
      [] req.op = "mergeMerchants" -> merchant[req.source].exists /\ merchant[req.target].exists
      [] req.op \in {"updateRule", "deactivateRule"} -> rule[req.rule].exists
      [] req.op = "confirmSuggestion" -> rule[req.rule].exists /\ rule[req.rule].suggestion
      [] OTHER -> TRUE

-----------------------------------------------------------------------------
(***************************************************************************)
(* What the transactions check.                                            *)
(***************************************************************************)
\* requireVisibleCategory()
VisibleCategory(c) == c # None => category[c].exists /\ category[c].active

\* requireRuleActionReferences() and requireActionReferences()
ReferencesVisible(c, m) ==
    /\ VisibleCategory(c)
    /\ m # None => merchant[m].exists

\* The recursive query: the rows reached from c through parent_id.
ClosedUpwards(S) == \A x \in S : category[x].parent \in S \cup {None}
Ancestors(c) == {a \in Categories : \A S \in SUBSET Categories :
                                      c \in S /\ ClosedUpwards(S) => a \in S}

\* What deactivating a category must not leave behind.
ActiveReferences(c) ==
    \/ \E d \in Categories : category[d].active /\ category[d].parent = c
    \/ \E m \in Merchants : merchant[m].exists /\ merchant[m].default = c
    \/ \E r \in Rules : rule[r].active /\ rule[r].category = c

\* input ?? current
Merged(new, current) == IF new = Keep THEN current ELSE new

\* Mutant: without the cycle check.
MutMayReparent(c, p) == p # c /\ VisibleCategory(p)

MayReparent(c, p) ==
    /\ p # c
    /\ VisibleCategory(p)
    /\ p # None => c \notin Ancestors(p)

MayDeactivate(c) == ~ActiveReferences(c)

Permitted(req) ==
    CASE req.op = "createCategory" -> VisibleCategory(req.parent)
      [] req.op = "updateCategory" -> /\ req.parent # Keep => MayReparent(req.category, req.parent)
                                      /\ req.active = FALSE => MayDeactivate(req.category)
      [] req.op = "updateMerchant" -> VisibleCategory(req.default)
      [] req.op = "createRule" -> ReferencesVisible(req.category, req.merchant)
      [] req.op = "updateRule" -> ReferencesVisible(Merged(req.category, rule[req.rule].category),
                                                    Merged(req.merchant, rule[req.rule].merchant))
      [] req.op = "confirmSuggestion" -> ReferencesVisible(rule[req.rule].category,
                                                           rule[req.rule].merchant)
      [] OTHER -> TRUE

-----------------------------------------------------------------------------
(***************************************************************************)
(* The steps of a transaction.                                             *)
(***************************************************************************)
Advance(s, step) == session' = [session EXCEPT ![s].step = step]
Finish(s) == session' = [session EXCEPT ![s] = Idle]

Begin(s, req) ==
    /\ session[s] = Idle
    /\ req.op = "createCategory" => ~category[req.category].exists
    /\ req.op = "createRule" => ~rule[req.rule].exists
    /\ session' = [session EXCEPT ![s] = [step |-> "begun", request |-> req]]
    /\ UNCHANGED <<category, merchant, rule, confirmations>>

\* select ... for update, which waits for whoever has the row.
Lock(s) ==
    /\ session[s].step = "begun"
    /\ \A row \in Target(session[s].request) : Free(s, row)
    /\ Found(session[s].request)
    /\ Advance(s, "locked")
    /\ UNCHANGED <<category, merchant, rule, confirmations>>

Check(s) ==
    /\ session[s].step = "locked"
    /\ Permitted(session[s].request)
    /\ Advance(s, "checked")
    /\ UNCHANGED <<category, merchant, rule, confirmations>>

\* A NotFound or Invariant error, a lost connection, a constraint, or the
\* deadlock detector: the transaction is rolled back.
Rollback(s) ==
    /\ session[s].step # "idle"
    /\ Finish(s)
    /\ UNCHANGED <<category, merchant, rule, confirmations>>

Writing(s, op) == session[s].step = "checked" /\ session[s].request.op = op

\* The foreign key takes the referenced category FOR KEY SHARE.
Referable(s, c) == c # None => category[c].exists /\ Free(s, c)

WriteNewCategory(s) ==
    LET req == session[s].request IN
    /\ Writing(s, "createCategory")
    /\ ~category[req.category].exists
    /\ Referable(s, req.parent)
    /\ category' = [category EXCEPT ![req.category] =
                      [exists |-> TRUE, active |-> TRUE, parent |-> req.parent]]
    /\ Finish(s)
    /\ UNCHANGED <<merchant, rule, confirmations>>

WriteCategory(s) ==
    LET req == session[s].request
        old == category[req.category]
        parent == Merged(req.parent, old.parent)
    IN
    /\ Writing(s, "updateCategory")
    /\ parent # old.parent => Referable(s, parent)
    /\ category' = [category EXCEPT ![req.category] =
                      [old EXCEPT !.parent = parent, !.active = Merged(req.active, old.active)]]
    /\ Finish(s)
    /\ UNCHANGED <<merchant, rule, confirmations>>

WriteMerchant(s) ==
    LET req == session[s].request IN
    /\ Writing(s, "updateMerchant")
    /\ req.default # merchant[req.merchant].default => Referable(s, req.default)
    /\ merchant' = [merchant EXCEPT ![req.merchant].default = req.default]
    /\ Finish(s)
    /\ UNCHANGED <<category, rule, confirmations>>

\* The trigger on the actions of a rule.
ActionsAccepted(c) == VisibleCategory(c)

WriteNewRule(s) ==
    LET req == session[s].request IN
    /\ Writing(s, "createRule")
    /\ ~rule[req.rule].exists
    /\ ActionsAccepted(req.category)
    /\ rule' = [rule EXCEPT ![req.rule] =
                  [exists |-> TRUE, active |-> ~req.suggestion, suggestion |-> req.suggestion,
                   category |-> req.category, merchant |-> req.merchant]]
    /\ Finish(s)
    /\ UNCHANGED <<category, merchant, confirmations>>

\* The audit event of an activated suggestion, and of nothing else, is a confirmation.
Confirmed(r, activated) ==
    /\ activated => confirmations[r] < MaxConfirmations
    /\ confirmations' = IF activated THEN [confirmations EXCEPT ![r] = @ + 1] ELSE confirmations

WriteRule(s) ==
    LET req == session[s].request
        old == rule[req.rule]
        new == [old EXCEPT !.category = Merged(req.category, @),
                           !.merchant = Merged(req.merchant, @),
                           !.active   = Merged(req.active, @)]
    IN
    /\ Writing(s, "updateRule")
    /\ ActionsAccepted(new.category)
    /\ rule' = [rule EXCEPT ![req.rule] = new]
    /\ Confirmed(req.rule, old.suggestion /\ ~old.active /\ new.active)
    /\ Finish(s)
    /\ UNCHANGED <<category, merchant>>

\* Mutant: a repeated confirmation is recorded again.
MutWriteConfirmation(s) ==
    LET r == session[s].request.rule IN
    /\ Writing(s, "confirmSuggestion")
    /\ rule' = [rule EXCEPT ![r].active = TRUE]
    /\ Confirmed(r, TRUE)
    /\ Finish(s)
    /\ UNCHANGED <<category, merchant>>

WriteConfirmation(s) ==
    LET r == session[s].request.rule IN
    /\ Writing(s, "confirmSuggestion")
    /\ rule' = [rule EXCEPT ![r].active = TRUE]
    /\ Confirmed(r, ~rule[r].active)
    /\ Finish(s)
    /\ UNCHANGED <<category, merchant>>

WriteDeactivation(s) ==
    /\ Writing(s, "deactivateRule")
    /\ rule' = [rule EXCEPT ![session[s].request.rule].active = FALSE]
    /\ Finish(s)
    /\ UNCHANGED <<category, merchant, confirmations>>

\* Mutant: a merge rewires the active rules only.
MutRewired(row, source, target) ==
    IF row.merchant = source /\ row.active THEN [row EXCEPT !.merchant = target] ELSE row

\* replaceMerchantReferences()
Rewired(row, source, target) ==
    IF row.merchant = source THEN [row EXCEPT !.merchant = target] ELSE row

\* Every rule is locked, those that refer to the source are rewritten, and the
\* source is deleted.
WriteMerge(s) ==
    LET req == session[s].request
        new == [r \in Rules |-> Rewired(rule[r], req.source, req.target)]
    IN
    /\ Writing(s, "mergeMerchants")
    /\ \A r \in Rules : rule[r].exists => Free(s, r)
    /\ \A r \in Rules : new[r] # rule[r] => ActionsAccepted(new[r].category)
    /\ rule' = new
    /\ merchant' = [merchant EXCEPT ![req.source] = [exists |-> FALSE, default |-> None]]
    /\ Finish(s)
    /\ UNCHANGED <<category, confirmations>>

Write(s) ==
    \/ WriteNewCategory(s) \/ WriteCategory(s) \/ WriteMerchant(s) \/ WriteMerge(s)
    \/ WriteNewRule(s) \/ WriteRule(s) \/ WriteConfirmation(s) \/ WriteDeactivation(s)

Next ==
    \E s \in Sessions :
       \/ \E req \in Requests : Begin(s, req)
       \/ Lock(s) \/ Check(s) \/ Write(s) \/ Rollback(s)

Spec == Init /\ [][Next]_vars

-----------------------------------------------------------------------------
(***************************************************************************)
(* Properties.                                                             *)
(***************************************************************************)
\* The categories form a forest, which the recursive ancestor query needs to
\* end: every set of categories has one whose parent is outside the set.
CategoryForest == \A S \in (SUBSET Categories) \ {{}} : \E c \in S : category[c].parent \notin S

\* Even concurrent sessions cannot make two categories each other's parent:
\* each would have to share-lock the row that the other has FOR UPDATE.
NoMutualParents ==
    \A c, d \in Categories : ~(category[c].parent = d /\ category[d].parent = c)

\* Whatever a rule assigns exists: a merge leaves no rule with the merchant it
\* deletes, active or not.
RulesResolve ==
    \A r \in Rules : rule[r].merchant # None => merchant[rule[r].merchant].exists

\* What another session committed since refutes what s has checked.
Overtaken(s) == session[s].step = "checked" /\ ~Permitted(session[s].request)

OvertakenEnds(ops) ==
    \E s \in Sessions : Overtaken(s) /\ session[s].request.op \in ops /\ session'[s] = Idle

\* The time between a check and the write it guards is the only hole: the forest is
\* lost only to a change of parents, a rule's merchant only to a new or edited rule,
\* and an active reference to a deactivated category (a child, a merchant's default,
\* a rule) is left only by a deactivation, that another session has overtaken.  No
\* merge, however it meets others, and no transaction whose check would still pass
\* as it writes, breaks any of them.
OnlyTheOvertakenBreak ==
    [][/\ CategoryForest /\ ~CategoryForest' => OvertakenEnds({"updateCategory"})
       /\ RulesResolve /\ ~RulesResolve' => OvertakenEnds({"createRule", "updateRule"})
       /\ \A c \in Categories :
            category[c].active /\ ~category'[c].active /\ ActiveReferences(c)'
              => OvertakenEnds({"updateCategory"})]_vars

\* A suggested rule is inactive until it is confirmed, and every activation is
\* audited exactly once, however confirmations are repeated and raced by edits.
ActivationsAudited ==
    [][\A r \in Rules :
         IF rule[r].exists /\ rule[r].suggestion /\ ~rule[r].active /\ rule'[r].active
         THEN confirmations'[r] = confirmations[r] + 1
         ELSE confirmations'[r] = confirmations[r]]_vars

=============================================================================
