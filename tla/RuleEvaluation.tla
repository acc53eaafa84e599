---------------------------- MODULE RuleEvaluation ----------------------------
(***************************************************************************)
(* Classification rules applied to transactions: the evaluator of package   *)
(* classification and evaluateTransaction(), next to edits of rules and      *)
(* imports.                                                                  *)
(*                                                                          *)
(* An evaluation locks its transaction FOR UPDATE and the active rules FOR   *)
(* SHARE, and later counts hits in those rules: two evaluations that both    *)
(* have hits to count deadlock, and PostgreSQL aborts one.  Facts are a      *)
(* provider fact (a number), and the merchant and role that rules may set.   *)
(* Left out: the references of actions (ClassificationCatalog), text         *)
(* patterns (a set of values with "in"), and MARK_RECURRING_CANDIDATE and    *)
(* spend inclusion, which are fields like the others.                        *)
(***************************************************************************)
EXTENDS Integers, FiniteSets, Sequences, Functions

CONSTANTS
    Rules,
    CreatedBefore(_, _), \* the order of created_at and id
    Contents, Says,      \* what a rule may say: priority, condition, operations, stop
    Txs,
    Facts,               \* provider facts of a transaction
    ImportedRole,        \* the role an import gives a new transaction
    Tags, None,
    MaxEdits,            \* bound: updates of a rule
    MaxImports           \* bound: imports that change facts

VARIABLES
    rule,      \* classification_rule
    facts,     \* the provider fact of each transaction
    applied,   \* what the evaluations set in the transaction, by field
    decisions, \* classification_decision, of source RULE
    loaded,    \* the rules each running evaluation has read and locked
    imports

vars == <<rule, facts, applied, decisions, loaded, imports>>

\* Fields an operation sets: at most one operation of a rule for each.
Fields == {"category", "merchant", "role"} \cup Tags

Rule == [active : BOOLEAN, content : Contents, edits : 0..MaxEdits, hits : Nat]

\* The rules, transactions, decisions and evaluations keep their types.
TypeOK ==
    /\ rule \in [Rules -> Rule]
    /\ facts \in [Txs -> Facts]
    /\ DOMAIN applied = Txs
    /\ \A t \in Txs : DOMAIN applied[t] = Fields
    /\ \A d \in decisions : d.tx \in Txs /\ d.rule \in Rules /\ d.selected \in BOOLEAN
    /\ loaded \in [Txs -> (SUBSET Rules) \cup {None}]
    /\ imports \in 0..MaxImports

Init ==
    /\ rule \in [Rules -> {[active |-> FALSE, content |-> c, edits |-> 0, hits |-> 0] :
                             c \in Contents}]
    /\ facts \in [Txs -> Facts]
    /\ applied = [t \in Txs |-> [f \in Fields |-> IF f = "role" THEN ImportedRole ELSE None]]
    /\ decisions = {}
    /\ loaded = [t \in Txs |-> None]
    /\ imports = 0

-----------------------------------------------------------------------------
(* The evaluator.                                                           *)

Actual(t, field) == IF field = "fact" THEN facts[t] ELSE applied[t][field]

\* evaluatePredicate(): a fact that is not there satisfies nothing, "neq" neither.
Satisfied(p, t) ==
    LET actual == Actual(t, p.field)
    IN IF actual = None THEN FALSE
       ELSE CASE p.op = "eq" -> actual = p.value
              [] p.op = "neq" -> actual # p.value
              [] p.op = "in" -> actual \in p.value
              [] p.op = "between" -> actual >= p.value[1] /\ actual <= p.value[2]
              [] p.op = "gt" -> actual > p.value
              [] p.op = "gte" -> actual >= p.value
              [] p.op = "lt" -> actual < p.value
              [] OTHER -> actual <= p.value

\* evaluateNode(), of a group whose members are evaluated by Member.
Combined(node, t, Member(_, _)) ==
    CASE node.type = "PREDICATE" -> Satisfied(node, t)
      [] node.type = "ALL" -> \A n \in node.conditions : Member(n, t)
      [] OTHER -> \E n \in node.conditions : Member(n, t)

\* Groups nest three deep: the fourth level, the last, has predicates only.
InnerHolds(node, t) == Combined(node, t, Satisfied)
MiddleHolds(node, t) == Combined(node, t, InnerHolds)
Holds(node, t) == Combined(node, t, MiddleHolds)

\* orderedRules(): the higher priority first, then the older rule.
Precedes(r, s) ==
    LET p == Says[rule[r].content].priority
        q == Says[rule[s].content].priority
    IN p > q \/ (p = q /\ CreatedBefore(r, s))

Ordered(rs) ==
    CHOOSE s \in [1..Cardinality(rs) -> rs] :
      \A m, n \in 1..Cardinality(rs) : m < n => Precedes(s[m], s[n])

ActiveRules == {r \in Rules : rule[r].active}
Loaded(t) == IF loaded[t] = None THEN ActiveRules ELSE loaded[t]

Operations(r) == Says[rule[r].content].ops
Stops(r) == Says[rule[r].content].stop \/ "stop" \in DOMAIN Operations(r)
Sets(r) == DOMAIN Operations(r) \ {"stop"}

NoResult == [value |-> [f \in Fields |-> None], by |-> [f \in Fields |-> None],
             conflicts |-> {}, matched |-> <<>>, stoppedBy |-> None]

\* applySingleton() and the tag cases: the first rule that sets a field wins it.
Accept(result, f) == result.by[f] = None

\* One round of the loop of evaluateClassificationRules().
Considered(result, r, t) ==
    IF result.stoppedBy # None \/ ~Holds(Says[rule[r].content].condition, t) THEN result
    ELSE LET won == {f \in Sets(r) : Accept(result, f)}
             ops == Operations(r)
         IN [value |-> [f \in Fields |-> IF f \in won THEN ops[f] ELSE result.value[f]],
             by |-> [f \in Fields |-> IF f \in won THEN r ELSE result.by[f]],
             conflicts |-> result.conflicts
                             \cup {[field |-> f, loser |-> r, winner |-> result.by[f]] :
                                     f \in {f \in Sets(r) \ won : ops[f] # result.value[f]}},
             matched |-> Append(result.matched,
                                [rule |-> r,
                                 contributed |-> won # {} \/ "stop" \in DOMAIN ops]),
             stoppedBy |-> IF Stops(r) THEN r ELSE None]

\* The result after each round, of the first rules in their order.
Rounds(t) ==
    LET rules == Ordered(Loaded(t))
        after[n \in 0..Cardinality(Loaded(t))] ==
          IF n = 0 THEN NoResult ELSE Considered(after[n - 1], rules[n], t)
    IN after

Evaluation(t) == Rounds(t)[Cardinality(Loaded(t))]

-----------------------------------------------------------------------------
(* evaluateTransaction().                                                   *)

\* The inputs without the merchant and role, which rules set themselves.
Fingerprint(t) ==
    [fact |-> facts[t],
     rules |-> {[rule |-> r, content |-> rule[r].content, edits |-> rule[r].edits] :
                  r \in Loaded(t)}]

\* FOR SHARE keeps edits of the loaded rules, and hits for them, away.
Free(r, t) == \A u \in Txs \ {t} : loaded[u] # None => r \notin loaded[u]

\* begin, the transaction FOR UPDATE, the active rules FOR SHARE.
Begin(t) ==
    /\ loaded[t] = None
    /\ loaded' = [loaded EXCEPT ![t] = ActiveRules]
    /\ UNCHANGED <<rule, facts, applied, decisions, imports>>

Matched(t) == Range(Evaluation(t).matched)

\* Mutant: a conflicting decision counts as a hit too.
MutRecorded(t, m) == FALSE

\* The unique key of a decision: on conflict, nothing is inserted or counted.
Recorded(t, m) == \E d \in decisions : /\ d.tx = t /\ d.rule = m.rule
                                       /\ d.fingerprint = Fingerprint(t)

NewMatches(t) == {m \in Matched(t) : ~Recorded(t, m)}

Decision(t, m) ==
    [tx |-> t, rule |-> m.rule, fingerprint |-> Fingerprint(t), selected |-> m.contributed,
     category |-> IF Evaluation(t).by["category"] = m.rule THEN Evaluation(t).value["category"]
                  ELSE None]

\* The rest of the evaluation, and its commit.
Finish(t) ==
    /\ loaded[t] # None
    /\ \A m \in NewMatches(t) : Free(m.rule, t)
    /\ decisions' = decisions \cup {Decision(t, m) : m \in NewMatches(t)}
    /\ rule' = [r \in Rules |->
                  IF \E m \in NewMatches(t) : m.rule = r
                    THEN [rule[r] EXCEPT !.hits = rule[r].hits + 1]
                    ELSE rule[r]]
    /\ applied' = [applied EXCEPT ![t] =
                     [f \in Fields |-> IF Evaluation(t).by[f] # None THEN Evaluation(t).value[f]
                                       ELSE applied[t][f]]]
    /\ loaded' = [loaded EXCEPT ![t] = None]
    /\ UNCHANGED <<facts, imports>>

\* A statement fails, the process dies, or the evaluation is the victim of a
\* deadlock: everything is rolled back.
Abort(t) ==
    /\ loaded[t] # None
    /\ loaded' = [loaded EXCEPT ![t] = None]
    /\ UNCHANGED <<rule, facts, applied, decisions, imports>>

-----------------------------------------------------------------------------
(* The environment: edits and activations of rules, imports.                *)

\* updateRule(), confirmSuggestion(), deactivateRule(): an active rule's lock first.
EditRule(r) ==
    /\ rule[r].edits < MaxEdits
    /\ \A t \in Txs : Free(r, t)
    /\ \E c \in Contents, active \in BOOLEAN :
         rule' = [rule EXCEPT ![r] = [active |-> active, content |-> c,
                                      edits |-> rule[r].edits + 1, hits |-> rule[r].hits]]
    /\ UNCHANGED <<facts, applied, decisions, loaded, imports>>

\* importPage() stores changed facts; a role of source RULE stays.
Import(t) ==
    /\ imports < MaxImports
    /\ loaded[t] = None
    /\ \E f \in Facts \ {facts[t]} : facts' = [facts EXCEPT ![t] = f]
    /\ imports' = imports + 1
    /\ UNCHANGED <<rule, applied, decisions, loaded>>

Next ==
    \/ \E t \in Txs : Begin(t) \/ Finish(t) \/ Abort(t) \/ Import(t)
    \/ \E r \in Rules : EditRule(r)

Spec == Init /\ [][Next]_vars

-----------------------------------------------------------------------------
(* Properties.                                                              *)

\* The hit counter of a rule is the number of decisions recorded for it: a retried,
\* concurrent or aborted evaluation does not count one logical hit twice.
HitsAreDecisions ==
    \A r \in Rules : rule[r].hits = Cardinality({d \in decisions : d.rule = r})

\* What the loop computes is what the rules' order promises: a field belongs to the
\* first matching rule that sets it before a stop, the others that wanted another
\* value are its conflicts, and a rule contributed when it won a field or stopped.
ResultsAreDeclared ==
    \A t \in Txs :
      LET matching == {r \in Loaded(t) : Holds(Says[rule[r].content].condition, t)}
          before(r) == {s \in matching : Precedes(s, r)}
          considered == {r \in matching : \A s \in before(r) : ~Stops(s)}
          wins(r, f) == f \in Sets(r) /\ \A s \in before(r) : f \notin Sets(s)
          result == Evaluation(t)
      IN /\ {m.rule : m \in Matched(t)} = considered
         /\ \A f \in Fields, r \in considered :
              /\ wins(r, f) <=> result.by[f] = r
              /\ wins(r, f) => result.value[f] = Operations(r)[f]
              /\ (f \in Sets(r) /\ result.value[f] # Operations(r)[f])
                 <=> [field |-> f, loser |-> r, winner |-> result.by[f]] \in result.conflicts
         /\ \A m \in Matched(t) :
              m.contributed <=> \/ \E f \in Fields : wins(m.rule, f)
                                \/ "stop" \in DOMAIN Operations(m.rule)

\* Evaluations do what the rules declare, and count it, next to rule edits, imports
\* and each other.
EvaluationsAreSound == HitsAreDecisions /\ ResultsAreDeclared

\* The category a transaction has from a rule is recorded by a selected decision
\* (personal-finance-platform-implementation-plan.md:1220, "selected: Whether applied").
AppliedIsRecorded ==
    \A t \in Txs :
      applied[t]["category"] # None
      => \E d \in decisions : /\ d.tx = t /\ d.selected
                              /\ d.category = applied[t]["category"]
=============================================================================
