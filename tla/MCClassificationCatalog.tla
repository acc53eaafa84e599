------------------------ MODULE MCClassificationCatalog ------------------------
(***************************************************************************)
(* What the sessions of a small catalog ask for, see README.md.            *)
(***************************************************************************)
EXTENDS ClassificationCatalog

CONSTANTS a, b, c, coffee, cafe, assign, s1

\* One session: an update changes one field, what is not a category refers to
\* the category a, and coffee is the merchant with a default, which is merged.
EveryRequest ==
    {r \in Request \ ConfirmSuggestion :
       /\ r.op = "createRule" => ~r.suggestion /\ r.category \in {a, None}
       /\ r.op = "updateCategory" => Keep \in {r.parent, r.active}
       /\ r.op = "updateRule" => /\ r.category \in {a, None, Keep}
                               /\ Cardinality({f \in {"category", "merchant", "active"} :
                                                 r[f] # Keep}) <= 1
       /\ r.op = "updateMerchant" => r.merchant = coffee /\ r.default \in {a, None}
       /\ r.op = "mergeMerchants" => r.source = coffee}

\* Two sessions change the parents of three categories.
ParentRequests == {r \in UpdateCategory : r.parent # Keep /\ r.active = Keep}

\* The same, and new categories.
CategoryRequests == ParentRequests \cup CreateCategory

\* Two sessions that edit rules about the category a, one field at a time, merge the
\* merchants either way, and deactivate the category.
RuleRequests ==
    {r \in CreateRule : r.category = a /\ r.merchant # None}
      \cup {r \in UpdateRule : r.category = Keep /\ Keep \in {r.merchant, r.active}}
      \cup {r \in UpdateCategory : r.category = a /\ r.parent = Keep}
      \cup MergeMerchants \cup ConfirmSuggestion \cup DeactivateRule
=============================================================================
