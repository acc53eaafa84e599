--------------------- MODULE ClassificationCatalog_proofs ---------------------
(***************************************************************************)
(* What the catalogue keeps for any categories, merchants, rules, requests  *)
(* and sessions: no two categories become each other's parent, the forest    *)
(* and the merchants of rules are lost only to a transaction that another     *)
(* has overtaken, and every activation of a suggestion is audited once.      *)
(***************************************************************************)
EXTENDS ClassificationCatalog, TLAPS

USE CatalogNames, RequestsAreRequests

Checked(s) == session[s].step = "checked"
Asked(s) == session[s].request

\* A parent is a category that exists.
ParentsExist ==
    \A x \in Categories : category[x].parent # None => category[category[x].parent].exists

\* A category never has two holders.
OneHolder ==
    \A s, t \in Sessions : s # t => Locked(s) \cap Locked(t) = {}

\* What the cycle check of a session that waits to write still guarantees.
CheckedParents ==
    \A s \in Sessions :
       /\ Checked(s)
       /\ Asked(s).op = "updateCategory"
       /\ Asked(s).parent \in Categories
       => /\ Asked(s).parent # Asked(s).category
          /\ category[Asked(s).parent].parent # Asked(s).category

CatalogInv == TypeOK /\ ParentsExist /\ OneHolder /\ CheckedParents /\ NoMutualParents

\* The operation of a request says which request it is.
LEMMA RequestShape ==
    ASSUME NEW req \in Request
    PROVE  /\ req.op = "createCategory" => req \in CreateCategory
           /\ req.op = "updateCategory" => req \in UpdateCategory
           /\ req.op = "updateMerchant" => req \in UpdateMerchant
           /\ req.op = "mergeMerchants" => req \in MergeMerchants
           /\ req.op = "createRule" => req \in CreateRule
           /\ req.op = "updateRule" => req \in UpdateRule
           /\ req.op = "confirmSuggestion" => req \in ConfirmSuggestion
           /\ req.op = "deactivateRule" => req \in DeactivateRule
  BY DEF Request, CreateCategory, UpdateCategory, UpdateMerchant, MergeMerchants, CreateRule,
         UpdateRule, ConfirmSuggestion, DeactivateRule

\* A session is idle or has a request.
LEMMA SessionShape ==
    ASSUME TypeOK, NEW s \in Sessions
    PROVE  /\ session[s] \in Session
           /\ session[s].step # "idle" =>
                /\ session[s] \in [step : {"begun", "locked", "checked"}, request : Request]
                /\ Asked(s) \in Request
           /\ session[s] # Idle => session[s].step # "idle"
  BY DEF TypeOK, Session, Idle, Asked

-----------------------------------------------------------------------------
(***************************************************************************)
(* Types.                                                                  *)
(***************************************************************************)
LEMMA FinishType ==
    ASSUME TypeOK, NEW s \in Sessions, Finish(s)
    PROVE  session' \in [Sessions -> Session]
  BY DEF Finish, TypeOK, Session

LEMMA MergedType ==
    ASSUME NEW T, NEW new \in T \cup {Keep}, NEW old \in T
    PROVE  Merged(new, old) \in T
  BY DEF Merged

LEMMA SwitchedType ==
    ASSUME TypeOK, NEW r \in Rules, NEW on \in BOOLEAN
    PROVE  [rule EXCEPT ![r].active = on] \in [Rules -> Rule]
  <1>1. rule[r] \in Rule
    BY DEF TypeOK
  <1>2. [rule[r] EXCEPT !.active = on] \in Rule
    BY <1>1 DEF Rule
  <1> QED
    BY <1>2 DEF TypeOK

LEMMA ConfirmedType ==
    ASSUME TypeOK, NEW r \in Rules, NEW activated \in BOOLEAN, Confirmed(r, activated)
    PROVE  confirmations' \in [Rules -> 0..MaxConfirmations]
  <1>1. confirmations[r] \in 0..MaxConfirmations
    BY DEF TypeOK
  <1>2. activated => confirmations[r] + 1 \in 0..MaxConfirmations
    BY <1>1 DEF Confirmed
  <1> QED
    BY <1>2 DEF Confirmed, TypeOK

\* Every step keeps the types.
LEMMA TypeStep == TypeOK /\ [Next]_vars => TypeOK'
  <1> SUFFICES ASSUME TypeOK, [Next]_vars
               PROVE  TypeOK'
    OBVIOUS
  <1>1. ASSUME NEW s \in Sessions, NEW req \in Requests, Begin(s, req)
        PROVE  TypeOK'
    BY <1>1 DEF Begin, TypeOK, Session
  <1>2. ASSUME NEW s \in Sessions, Lock(s) \/ Check(s)
        PROVE  TypeOK'
    <2>1. session[s] \in [step : {"begun", "locked", "checked"}, request : Request]
      BY <1>2, SessionShape DEF Lock, Check
    <2>2. session' \in [Sessions -> Session]
      BY <1>2, <2>1 DEF Lock, Check, Advance, TypeOK, Session
    <2> QED
      BY <1>2, <2>2 DEF Lock, Check, TypeOK
  <1>3. ASSUME NEW s \in Sessions, Rollback(s)
        PROVE  TypeOK'
    BY <1>3, FinishType DEF Rollback, TypeOK
  <1>4. ASSUME NEW s \in Sessions, WriteNewCategory(s)
        PROVE  TypeOK'
    <2>1. Asked(s) \in CreateCategory
      BY <1>4, SessionShape, RequestShape DEF WriteNewCategory, Writing, Asked
    <2>2. category' \in [Categories -> Category]
      BY <1>4, <2>1 DEF WriteNewCategory, CreateCategory, Category, TypeOK, Asked
    <2> QED
      BY <1>4, <2>2, FinishType DEF WriteNewCategory, TypeOK
  <1>5. ASSUME NEW s \in Sessions, WriteCategory(s)
        PROVE  TypeOK'
    <2>1. Asked(s) \in UpdateCategory
      BY <1>5, SessionShape, RequestShape DEF WriteCategory, Writing, Asked
    <2> DEFINE old == category[Asked(s).category]
    <2>2. old \in Category /\ Asked(s).category \in Categories
      BY <2>1 DEF UpdateCategory, TypeOK
    <2>3. Merged(Asked(s).parent, old.parent) \in OptionalCategory
      BY <2>1, <2>2, MergedType DEF UpdateCategory, Category
    <2>4. Merged(Asked(s).active, old.active) \in BOOLEAN
      BY <2>1, <2>2, MergedType DEF UpdateCategory, Category
    <2>5. [old EXCEPT !.parent = Merged(Asked(s).parent, old.parent),
                      !.active = Merged(Asked(s).active, old.active)] \in Category
      BY <2>2, <2>3, <2>4 DEF Category
    <2>6. category' \in [Categories -> Category]
      BY <1>5, <2>2, <2>5 DEF WriteCategory, TypeOK, Asked
    <2> QED
      BY <1>5, <2>6, FinishType DEF WriteCategory, TypeOK
  <1>6. ASSUME NEW s \in Sessions, WriteMerchant(s)
        PROVE  TypeOK'
    <2>1. Asked(s) \in UpdateMerchant
      BY <1>6, SessionShape, RequestShape DEF WriteMerchant, Writing, Asked
    <2>2. merchant' \in [Merchants -> Merchant]
      BY <1>6, <2>1 DEF WriteMerchant, UpdateMerchant, Merchant, TypeOK, Asked
    <2> QED
      BY <1>6, <2>2, FinishType DEF WriteMerchant, TypeOK
  <1>7. ASSUME NEW s \in Sessions, WriteMerge(s)
        PROVE  TypeOK'
    <2>1. Asked(s) \in MergeMerchants
      BY <1>7, SessionShape, RequestShape DEF WriteMerge, Writing, Asked
    <2>2. rule' \in [Rules -> Rule]
      <3>1. ASSUME NEW r \in Rules
            PROVE  Rewired(rule[r], Asked(s).source, Asked(s).target) \in Rule
        BY <2>1 DEF Rewired, MergeMerchants, TypeOK, Rule, OptionalMerchant
      <3> QED
        BY <1>7, <3>1 DEF WriteMerge, Asked
    <2>3. merchant' \in [Merchants -> Merchant]
      BY <1>7, <2>1 DEF WriteMerge, MergeMerchants, TypeOK, Merchant, OptionalCategory, Asked
    <2> QED
      BY <1>7, <2>2, <2>3, FinishType DEF WriteMerge, TypeOK
  <1>8. ASSUME NEW s \in Sessions, WriteNewRule(s)
        PROVE  TypeOK'
    <2>1. Asked(s) \in CreateRule
      BY <1>8, SessionShape, RequestShape DEF WriteNewRule, Writing, Asked
    <2>2. rule' \in [Rules -> Rule]
      BY <1>8, <2>1 DEF WriteNewRule, CreateRule, Rule, TypeOK, Asked
    <2> QED
      BY <1>8, <2>2, FinishType DEF WriteNewRule, TypeOK
  <1>9. ASSUME NEW s \in Sessions, WriteRule(s)
        PROVE  TypeOK'
    <2>1. Asked(s) \in UpdateRule
      BY <1>9, SessionShape, RequestShape DEF WriteRule, Writing, Asked
    <2> DEFINE old == rule[Asked(s).rule]
               new == [old EXCEPT !.category = Merged(Asked(s).category, old.category),
                                  !.merchant = Merged(Asked(s).merchant, old.merchant),
                                  !.active   = Merged(Asked(s).active, old.active)]
    <2>2. old \in Rule /\ Asked(s).rule \in Rules
      BY <2>1 DEF UpdateRule, TypeOK
    <2>3. Merged(Asked(s).category, old.category) \in OptionalCategory
      BY <2>1, <2>2, MergedType DEF UpdateRule, Rule
    <2>4. Merged(Asked(s).merchant, old.merchant) \in OptionalMerchant
      BY <2>1, <2>2, MergedType DEF UpdateRule, Rule
    <2>5. Merged(Asked(s).active, old.active) \in BOOLEAN
      BY <2>1, <2>2, MergedType DEF UpdateRule, Rule
    <2>6. new \in Rule
      BY <2>2, <2>3, <2>4, <2>5 DEF Rule
    <2>7. rule' = [rule EXCEPT ![Asked(s).rule] = new]
      BY <1>9 DEF WriteRule, Asked
    <2>8. Confirmed(Asked(s).rule, old.suggestion /\ ~old.active /\ new.active)
      BY <1>9 DEF WriteRule, Asked
    <2> HIDE DEF new
    <2>9. rule' \in [Rules -> Rule]
      BY <2>6, <2>7 DEF TypeOK
    <2>10. confirmations' \in [Rules -> 0..MaxConfirmations]
      <3> DEFINE activated == old.suggestion /\ ~old.active /\ new.active
      <3>1. activated \in BOOLEAN
        OBVIOUS
      <3>2. Confirmed(Asked(s).rule, activated)
        BY <2>8
      <3> HIDE DEF activated
      <3> QED
        BY <2>2, <3>1, <3>2, ConfirmedType
    <2> QED
      BY <1>9, <2>9, <2>10, FinishType DEF WriteRule, TypeOK
  <1>10. ASSUME NEW s \in Sessions, WriteConfirmation(s)
         PROVE  TypeOK'
    <2>1. Asked(s) \in ConfirmSuggestion
      BY <1>10, SessionShape, RequestShape DEF WriteConfirmation, Writing, Asked
    <2>2. Asked(s).rule \in Rules
      BY <2>1 DEF ConfirmSuggestion
    <2>3. rule' \in [Rules -> Rule]
      BY <1>10, <2>2, SwitchedType DEF WriteConfirmation, Asked
    <2>4. Confirmed(Asked(s).rule, ~rule[Asked(s).rule].active)
      BY <1>10 DEF WriteConfirmation, Asked
    <2>5. confirmations' \in [Rules -> 0..MaxConfirmations]
      <3> DEFINE activated == ~rule[Asked(s).rule].active
      <3>1. activated \in BOOLEAN
        OBVIOUS
      <3>2. Confirmed(Asked(s).rule, activated)
        BY <2>4
      <3> HIDE DEF activated
      <3> QED
        BY <2>2, <3>1, <3>2, ConfirmedType
    <2> QED
      BY <1>10, <2>3, <2>5, FinishType DEF WriteConfirmation, TypeOK
  <1>11. ASSUME NEW s \in Sessions, WriteDeactivation(s)
         PROVE  TypeOK'
    <2>1. Asked(s) \in DeactivateRule
      BY <1>11, SessionShape, RequestShape DEF WriteDeactivation, Writing, Asked
    <2>2. rule' \in [Rules -> Rule]
      BY <1>11, <2>1, SwitchedType DEF WriteDeactivation, DeactivateRule, Asked
    <2> QED
      BY <1>11, <2>2, FinishType DEF WriteDeactivation, TypeOK
  <1>12. CASE UNCHANGED vars
    BY <1>12 DEF vars, TypeOK
  <1> QED
    BY <1>1, <1>2, <1>3, <1>4, <1>5, <1>6, <1>7, <1>8, <1>9, <1>10, <1>11, <1>12
    DEF Next, Write

LEMMA TypeInit == Init => TypeOK
  <1> SUFFICES ASSUME Init
               PROVE  TypeOK
    OBVIOUS
  <1>1. category \in [Categories -> Category]
    <2>1. NoCategory \in Category
      BY DEF NoCategory, Category, OptionalCategory
    <2>2. [exists : {TRUE}, active : {TRUE}, parent : OptionalCategory] \subseteq Category
      BY DEF Category
    <2> QED
      BY <2>1, <2>2 DEF Init
  <1>2. merchant \in [Merchants -> Merchant]
    BY DEF Init, Merchant, OptionalCategory
  <1>3. rule \in [Rules -> Rule]
    BY DEF Init, NoRule, Rule, OptionalCategory, OptionalMerchant
  <1>4. confirmations \in [Rules -> 0..MaxConfirmations]
    BY DEF Init
  <1>5. session \in [Sessions -> Session]
    BY DEF Init, Session
  <1> QED
    BY <1>1, <1>2, <1>3, <1>4, <1>5 DEF TypeOK

\* Every table holds what its columns may hold.
THEOREM CatalogTypes == Spec => []TypeOK
  BY TypeInit, TypeStep, PTL DEF Spec

-----------------------------------------------------------------------------
(***************************************************************************)
(* Any number of sessions: no mutual parents.                              *)
(***************************************************************************)
\* What a category step asks: the row it writes is its own, free of others.
LEMMA TargetOfUpdate ==
    ASSUME NEW s \in Sessions, session[s].step \in {"locked", "checked"},
           Asked(s).op = "updateCategory"
    PROVE  Locked(s) = {Asked(s).category}
  BY DEF Locked, Target, Asked

\* Begin() and what ends a transaction leave its session without locks.
LEMMA WriteFinishes == ASSUME NEW s, Write(s) PROVE Finish(s)
  BY DEF Write, WriteNewCategory, WriteCategory, WriteMerchant, WriteMerge, WriteNewRule,
         WriteRule, WriteConfirmation, WriteDeactivation

LEMMA WithoutLocks ==
    ASSUME TypeOK, NEW s \in Sessions,
           \/ \E req \in Requests : Begin(s, req)
           \/ Write(s) \/ Rollback(s)
    PROVE  session'[s].step \in {"begun", "idle"} /\ Locked(s)' = {}
  <1>1. CASE \E req \in Requests : Begin(s, req)
    <2>1. session'[s].step = "begun"
      BY <1>1 DEF Begin, TypeOK
    <2> QED
      BY <2>1 DEF Locked
  <1>2. CASE Write(s) \/ Rollback(s)
    <2>1. Finish(s)
      BY <1>2, WriteFinishes DEF Rollback
    <2>2. session'[s].step = "idle"
      BY <2>1 DEF Finish, TypeOK, Idle
    <2> QED
      BY <2>2 DEF Locked
  <1> QED
    BY <1>1, <1>2

\* A step of s leaves the sessions of the others alone.
LEMMA OnlyOneMoves ==
    ASSUME TypeOK, NEW s \in Sessions,
           \/ \E req \in Requests : Begin(s, req)
           \/ Lock(s) \/ Check(s) \/ Write(s) \/ Rollback(s)
    PROVE  \A t \in Sessions \ {s} : session'[t] = session[t]
  BY WriteFinishes DEF TypeOK, Begin, Lock, Check, Rollback, Advance, Finish

\* Locks are kept apart: only Lock() takes one, and it waits for the others.
LEMMA HolderStep == TypeOK /\ OneHolder /\ [Next]_vars => OneHolder'
  <1> SUFFICES ASSUME TypeOK, OneHolder, [Next]_vars
               PROVE  OneHolder'
    OBVIOUS
  <1>1. ASSUME NEW s \in Sessions,
               \A t \in Sessions \ {s} : session'[t] = session[t],
               \A t \in Sessions \ {s} : Locked(s)' \cap Locked(t) = {}
        PROVE  OneHolder'
    <2>1. \A t \in Sessions \ {s} : Locked(t)' = Locked(t)
      BY <1>1 DEF Locked, Target
    <2> QED
      BY <1>1, <2>1 DEF OneHolder
  <1>2. CASE UNCHANGED vars
    <2>1. \A t : Locked(t)' = Locked(t)
      BY <1>2 DEF vars, Locked, Target
    <2> QED
      BY <2>1 DEF OneHolder
  <1>3. ASSUME NEW s \in Sessions, Lock(s)
        PROVE  OneHolder'
    <2>1. Asked(s)' = Asked(s) /\ session'[s].step = "locked"
      BY <1>3, SessionShape DEF Lock, Advance, TypeOK, Asked, Session
    <2>2. Locked(s)' = Target(Asked(s))
      BY <2>1 DEF Locked, Asked, Target
    <2>3. \A t \in Sessions \ {s} : Target(Asked(s)) \cap Locked(t) = {}
      BY <1>3 DEF Lock, Free, Asked
    <2> QED
      BY <1>1, <1>3, <2>2, <2>3, OnlyOneMoves
  <1>4. ASSUME NEW s \in Sessions, Check(s)
        PROVE  OneHolder'
    <2>1. Asked(s)' = Asked(s) /\ session'[s].step = "checked" /\ session[s].step = "locked"
      BY <1>4, SessionShape DEF Check, Advance, TypeOK, Asked, Session
    <2>2. Locked(s)' = Locked(s)
      BY <2>1 DEF Locked, Asked, Target
    <2> QED
      BY <1>1, <1>4, <2>2, OnlyOneMoves DEF OneHolder
  <1>5. ASSUME NEW s \in Sessions,
               \/ \E req \in Requests : Begin(s, req)
               \/ Write(s) \/ Rollback(s)
        PROVE  OneHolder'
    BY <1>1, <1>5, WithoutLocks, OnlyOneMoves
  <1> QED
    BY <1>2, <1>3, <1>4, <1>5 DEF Next

\* A parent p that s may give to its category c is not a child of c.
LEMMA CheckIsUseful ==
    ASSUME TypeOK, NEW c \in Categories, NEW p \in Categories, MayReparent(c, p)
    PROVE  p # c /\ category[p].parent # c
  <1>1. SUFFICES ASSUME category[p].parent = c
                 PROVE  c \in Ancestors(p)
    BY DEF MayReparent
  <1>2. ASSUME NEW S \in SUBSET Categories, p \in S, ClosedUpwards(S)
        PROVE  c \in S
    BY <1>1, <1>2 DEF ClosedUpwards
  <1> QED
    BY <1>2 DEF Ancestors

\* Steps that leave the table of categories alone.
LEMMA QuietStep ==
    ASSUME CatalogInv, [Next]_vars, category' = category
    PROVE  ParentsExist' /\ CheckedParents' /\ NoMutualParents'
  <1>1. ParentsExist' /\ NoMutualParents'
    BY DEF CatalogInv, ParentsExist, NoMutualParents
  <1>2. ASSUME NEW s \in Sessions,
               \A t \in Sessions \ {s} : session'[t] = session[t],
               Checked(s)' => Check(s)
        PROVE  CheckedParents'
    <2>1. ASSUME Check(s), Asked(s)'.op = "updateCategory", Asked(s)'.parent \in Categories
          PROVE  /\ Asked(s)'.parent # Asked(s)'.category
                 /\ category[Asked(s)'.parent].parent # Asked(s)'.category
      <3>1. Asked(s)' = Asked(s)
        BY <2>1 DEF Check, Advance, CatalogInv, TypeOK, Asked
      <3>2. Asked(s) \in UpdateCategory
        BY <2>1, <3>1, SessionShape, RequestShape DEF Check, CatalogInv
      <3>3. Asked(s).category \in Categories
        BY <3>2 DEF UpdateCategory
      <3>4. Asked(s).parent # Keep
        BY <2>1, <3>1
      <3>5. Permitted(Asked(s))
        BY <2>1 DEF Check, Asked
      <3>6. MayReparent(Asked(s).category, Asked(s).parent)
        BY <2>1, <3>1, <3>4, <3>5 DEF Permitted
      <3> QED
        BY <2>1, <3>1, <3>3, <3>6, CheckIsUseful DEF CatalogInv
    <2>2. ASSUME NEW t \in Sessions, t # s
          PROVE  Checked(t)' = Checked(t) /\ Asked(t)' = Asked(t)
      BY <1>2, <2>2 DEF Checked, Asked
    <2> QED
      BY <1>2, <2>1, <2>2 DEF CheckedParents, CatalogInv
  <1>3. ASSUME UNCHANGED vars
        PROVE  CheckedParents'
    BY <1>3 DEF vars, CatalogInv, CheckedParents, Checked, Asked
  <1>4. ASSUME NEW s \in Sessions,
               \/ \E req \in Requests : Begin(s, req)
               \/ Lock(s) \/ Check(s) \/ Write(s) \/ Rollback(s)
        PROVE  CheckedParents'
    <2>1. ASSUME ~Check(s)
          PROVE  ~Checked(s)'
      <3>1. CASE Lock(s)
        BY <3>1 DEF Lock, Advance, CatalogInv, TypeOK, Checked
      <3>2. CASE ~Lock(s)
        BY <1>4, <2>1, <3>2, WithoutLocks DEF CatalogInv, Checked
      <3> QED
        BY <3>1, <3>2
    <2> QED
      BY <1>2, <1>4, <2>1, OnlyOneMoves DEF CatalogInv
  <1> QED
    BY <1>1, <1>3, <1>4 DEF Next

\* A session that writes category c with a new parent p finds p free: nobody
\* who has checked a parent for p is waiting to write it.
LEMMA ReparentStep ==
    ASSUME CatalogInv, NEW s \in Sessions, NEW c \in Categories, NEW p \in OptionalCategory,
           Finish(s),
           \A d \in Categories \ {c} : category'[d] = category[d],
           category'[c].parent = p,
           category[c].exists => category'[c].exists,
           \/ p = category[c].parent
           \/ p # None => /\ p # c
                           /\ category[p].exists
                           /\ category[p].parent # c
                           /\ Free(s, p)
    PROVE  ParentsExist' /\ CheckedParents' /\ NoMutualParents'
  <1>1. ParentsExist'
    BY DEF CatalogInv, ParentsExist, OptionalCategory, TypeOK, Category
  <1>2. NoMutualParents'
    BY DEF CatalogInv, NoMutualParents, OptionalCategory
  <1>3. CheckedParents'
    <2> SUFFICES ASSUME NEW t \in Sessions, Checked(t)',
                        Asked(t)'.op = "updateCategory", Asked(t)'.parent \in Categories
                 PROVE  /\ Asked(t)'.parent # Asked(t)'.category
                        /\ category'[Asked(t)'.parent].parent # Asked(t)'.category
      BY DEF CheckedParents
    <2>1. t # s
      BY DEF Checked, Finish, Idle, CatalogInv, TypeOK
    <2>2. Checked(t) /\ Asked(t)' = Asked(t)
      BY <2>1 DEF Checked, Asked, Finish, CatalogInv, TypeOK
    <2>3. /\ Asked(t).parent # Asked(t).category
          /\ category[Asked(t).parent].parent # Asked(t).category
      BY <2>2 DEF CatalogInv, CheckedParents
    <2>4. CASE p = Asked(t).category /\ p # category[c].parent
      <3>1. Locked(t) = {p}
        BY <2>2, <2>4, TargetOfUpdate DEF Checked
      <3>2. p # None
        BY <2>2, <2>4, SessionShape, RequestShape DEF UpdateCategory, CatalogInv, Checked
      <3> QED
        BY <2>1, <2>4, <3>1, <3>2 DEF Free
    <2>5. CASE ~(p = Asked(t).category /\ p # category[c].parent)
      BY <2>2, <2>3, <2>5
    <2> QED
      BY <2>4, <2>5
  <1> QED
    BY <1>1, <1>2, <1>3

LEMMA NewCategoryStep ==
    ASSUME CatalogInv, NEW s \in Sessions, WriteNewCategory(s)
    PROVE  ParentsExist' /\ CheckedParents' /\ NoMutualParents'
  <1> DEFINE c == Asked(s).category
             p == Asked(s).parent
  <1>1. Asked(s) \in CreateCategory
    BY SessionShape, RequestShape DEF WriteNewCategory, Writing, Asked, CatalogInv
  <1>2. c \in Categories /\ p \in OptionalCategory
    BY <1>1 DEF CreateCategory
  <1>3. Finish(s)
    BY DEF WriteNewCategory
  <1>4. category' = [category EXCEPT ![c] = [exists |-> TRUE, active |-> TRUE, parent |-> p]]
    BY DEF WriteNewCategory, Asked
  <1>5. /\ \A d \in Categories \ {c} : category'[d] = category[d]
        /\ category'[c].parent = p
        /\ category'[c].exists
    BY <1>2, <1>4 DEF CatalogInv, TypeOK
  <1>6. ~category[c].exists
    BY DEF WriteNewCategory, Asked
  <1>7. p # None => category[p].exists /\ Free(s, p)
    BY DEF WriteNewCategory, Referable, Asked
  <1>8. p # None => p # c /\ category[p].parent # c
    BY <1>2, <1>6, <1>7 DEF CatalogInv, ParentsExist, OptionalCategory, TypeOK, Category
  <1> HIDE DEF c, p
  <1> QED
    BY <1>2, <1>3, <1>5, <1>7, <1>8, ReparentStep

LEMMA CategoryStep ==
    ASSUME CatalogInv, NEW s \in Sessions, WriteCategory(s)
    PROVE  ParentsExist' /\ CheckedParents' /\ NoMutualParents'
  <1> DEFINE c == Asked(s).category
             old == category[c]
             p == Merged(Asked(s).parent, old.parent)
             active == Merged(Asked(s).active, old.active)
  <1>1. Asked(s) \in UpdateCategory /\ Checked(s)
    BY SessionShape, RequestShape DEF WriteCategory, Writing, Asked, CatalogInv, Checked
  <1>2. c \in Categories /\ old \in Category
    BY <1>1 DEF UpdateCategory, CatalogInv, TypeOK
  <1>3. p \in OptionalCategory
    BY <1>1, <1>2, MergedType DEF UpdateCategory, Category
  <1>4. Finish(s)
    BY DEF WriteCategory
  <1>5. category' = [category EXCEPT ![c] = [old EXCEPT !.parent = p, !.active = active]]
    BY DEF WriteCategory, Asked
  <1>6. p # old.parent => Referable(s, p)
    BY DEF WriteCategory, Asked
  <1>7. ASSUME p # old.parent, p # None
        PROVE  p # c /\ category[p].parent # c
    <2>1. p = Asked(s).parent /\ p \in Categories
      BY <1>3, <1>7 DEF Merged, OptionalCategory
    <2> QED
      BY <1>1, <2>1 DEF CatalogInv, CheckedParents, WriteCategory, Writing, Asked
  <1>8. p # old.parent /\ p # None => category[p].exists /\ Free(s, p)
    BY <1>6 DEF Referable
  <1>9. /\ \A d \in Categories \ {c} : category'[d] = category[d]
        /\ category'[c].parent = p
        /\ category[c].exists => category'[c].exists
    BY <1>2, <1>5 DEF CatalogInv, TypeOK, Category
  <1> HIDE DEF p, active
  <1> QED
    BY <1>2, <1>3, <1>4, <1>7, <1>8, <1>9, ReparentStep

LEMMA CatalogStep == CatalogInv /\ [Next]_vars => CatalogInv'
  <1> SUFFICES ASSUME CatalogInv, [Next]_vars
               PROVE  CatalogInv'
    OBVIOUS
  <1>1. TypeOK' /\ OneHolder'
    BY TypeStep, HolderStep DEF CatalogInv
  <1>2. CASE category' = category
    BY <1>1, <1>2, QuietStep DEF CatalogInv
  <1>3. CASE category' # category
    <2>1. PICK s \in Sessions : WriteNewCategory(s) \/ WriteCategory(s)
      BY <1>3 DEF Next, vars, Begin, Lock, Check, Rollback, Write, WriteMerchant, WriteMerge,
                  WriteNewRule, WriteRule, WriteConfirmation, WriteDeactivation
    <2> QED
      BY <1>1, <2>1, NewCategoryStep, CategoryStep DEF CatalogInv
  <1> QED
    BY <1>2, <1>3

LEMMA CatalogInit == Init => CatalogInv
  <1> SUFFICES ASSUME Init
               PROVE  CatalogInv
    OBVIOUS
  <1>1. TypeOK
    BY TypeInit
  <1>2. OneHolder /\ CheckedParents
    BY DEF Init, OneHolder, CheckedParents, Locked, Checked, Idle
  <1>3. ParentsExist
    BY DEF Init, ParentsExist
  <1>4. NoMutualParents
    <2> SUFFICES ASSUME NEW c \in Categories, NEW d \in Categories,
                        category[c].parent = d, category[d].parent = c
                 PROVE  FALSE
      BY DEF NoMutualParents
    <2>1. {c, d} \in (SUBSET Categories) \ {{}}
      OBVIOUS
    <2>2. PICK x \in {c, d} : category[x].parent \notin {c, d}
      BY <2>1 DEF Init
    <2> QED
      BY <2>2
  <1> QED
    BY <1>1, <1>2, <1>3, <1>4 DEF CatalogInv

\* However sessions interleave, no two categories become each other's parent:
\* the row a session checked cannot be given to it as a child in between,
\* because the foreign key of that change would have to lock its own row.
THEOREM MutualParentsNever == Spec => []NoMutualParents
  <1>1. CatalogInv => NoMutualParents
    BY DEF CatalogInv
  <1> QED
    BY <1>1, CatalogInit, CatalogStep, PTL DEF Spec

-----------------------------------------------------------------------------
(***************************************************************************)
(* What a check guarantees, and who can break it.  A merge checks nothing   *)
(* later than its row locks, which keep its target in place; whoever checks  *)
(* before it writes does no harm unless what it checked has changed since.   *)
(***************************************************************************)
\* Who waits to merge still has its target.
MergersFind ==
    \A s \in Sessions : session[s].step \in {"locked", "checked"} /\ Asked(s).op = "mergeMerchants"
                          => merchant[Asked(s).target].exists

BreakInv == CatalogInv /\ MergersFind

\* The row locks of a merge.
LEMMA TargetsOfMerge ==
    ASSUME NEW s \in Sessions, session[s].step \in {"locked", "checked"},
           Asked(s).op = "mergeMerchants"
    PROVE  Locked(s) = {Asked(s).source, Asked(s).target}
  BY DEF Locked, Target, Asked

\* A merchant goes only with a merge, as its source.
LEMMA MerchantsStay ==
    ASSUME TypeOK, [Next]_vars, NEW m \in Merchants, merchant[m].exists, ~merchant'[m].exists
    PROVE  \E s \in Sessions : WriteMerge(s) /\ Asked(s).source = m
  <1>1. merchant[m] \in Merchant
    BY DEF TypeOK
  <1>2. ASSUME NEW s \in Sessions, WriteMerchant(s)
        PROVE  FALSE
    <2>1. Asked(s) \in UpdateMerchant
      BY <1>2, SessionShape, RequestShape DEF WriteMerchant, Writing, Asked
    <2> QED
      BY <1>1, <1>2, <2>1 DEF WriteMerchant, Asked, TypeOK, Merchant, UpdateMerchant
  <1>3. PICK s \in Sessions : WriteMerge(s)
    BY <1>2 DEF Next, vars, Begin, Lock, Check, Rollback, Write, WriteNewCategory, WriteCategory,
                WriteNewRule, WriteRule, WriteConfirmation, WriteDeactivation
  <1>4. m = Asked(s).source
    BY <1>3 DEF WriteMerge, Asked, TypeOK
  <1> QED
    BY <1>3, <1>4

LEMMA MergersFindStep == BreakInv /\ [Next]_vars => MergersFind'
  <1> SUFFICES ASSUME BreakInv, [Next]_vars, NEW s \in Sessions,
                      session'[s].step \in {"locked", "checked"},
                      Asked(s)'.op = "mergeMerchants"
               PROVE  merchant'[Asked(s)'.target].exists
    BY DEF MergersFind
  <1> USE DEF BreakInv, CatalogInv
  <1>1. \/ UNCHANGED vars
        \/ \E t \in Sessions \ {s} : /\ session'[s] = session[s]
                                     /\ Write(t) \/ merchant' = merchant
        \/ Lock(s) \/ Check(s)
    <2>1. ASSUME NEW t \in Sessions \ {s},
                 \/ \E req \in Requests : Begin(t, req)
                 \/ Lock(t) \/ Check(t) \/ Write(t) \/ Rollback(t)
          PROVE  session'[s] = session[s] /\ (Write(t) \/ merchant' = merchant)
      BY <2>1, OnlyOneMoves DEF Begin, Lock, Check, Rollback
    <2>2. ASSUME \/ \E req \in Requests : Begin(s, req)
                 \/ Write(s) \/ Rollback(s)
          PROVE  FALSE
      BY <2>2, WithoutLocks
    <2> QED
      BY <2>1, <2>2 DEF Next
  <1>2. CASE UNCHANGED vars
    BY <1>2 DEF vars, MergersFind, Asked
  <1>3. ASSUME NEW t \in Sessions \ {s}, session'[s] = session[s]
        PROVE  merchant'[Asked(s)'.target].exists
    <2>1. Asked(s)' = Asked(s) /\ session[s].step \in {"locked", "checked"}
      BY <1>3 DEF Asked
    <2>2. Asked(s) \in MergeMerchants
      BY <2>1, SessionShape, RequestShape
    <2>3. merchant[Asked(s).target].exists /\ Asked(s).target \in Merchants
      BY <2>1, <2>2 DEF MergersFind, MergeMerchants
    <2>4. SUFFICES ASSUME ~merchant'[Asked(s).target].exists
                   PROVE  FALSE
      BY <2>1
    <2>5. PICK u \in Sessions : WriteMerge(u) /\ Asked(u).source = Asked(s).target
      BY <2>3, <2>4, MerchantsStay
    <2>6. session'[u].step = "idle"
      BY <2>5 DEF WriteMerge, Finish, TypeOK, Idle
    <2>7. u # s
      BY <1>3, <2>1, <2>6
    <2>8. Asked(s).target \in Locked(s) /\ Asked(s).target \in Locked(u)
      BY <2>1, <2>5, TargetsOfMerge DEF WriteMerge, Writing, Asked
    <2> QED
      BY <2>7, <2>8 DEF OneHolder
  <1>4. CASE Lock(s)
    <2>1. Asked(s)' = Asked(s) /\ Found(Asked(s)) /\ merchant' = merchant
      BY <1>4, SessionShape DEF Lock, Advance, TypeOK, Asked
    <2> QED
      BY <2>1 DEF Found
  <1>5. CASE Check(s)
    <2>1. Asked(s)' = Asked(s) /\ session[s].step = "locked" /\ merchant' = merchant
      BY <1>5, SessionShape DEF Check, Advance, TypeOK, Asked
    <2> QED
      BY <2>1 DEF MergersFind
  <1> QED
    BY <1>1, <1>2, <1>3, <1>4, <1>5

\* A merge, whatever else is under way, leaves no rule behind.
LEMMA MergeResolves ==
    ASSUME BreakInv, RulesResolve, NEW s \in Sessions, WriteMerge(s)
    PROVE  RulesResolve'
  <1>1. Asked(s) \in MergeMerchants /\ Checked(s) /\ Asked(s).op = "mergeMerchants"
    BY SessionShape, RequestShape
    DEF WriteMerge, Writing, Asked, BreakInv, CatalogInv, Checked
  <1>2. /\ Asked(s).source \in Merchants /\ Asked(s).target \in Merchants
        /\ Asked(s).source # Asked(s).target
        /\ merchant[Asked(s).target].exists
    BY <1>1 DEF BreakInv, MergersFind, MergeMerchants, Checked
  <1>3. /\ \A r \in Rules : rule'[r] = Rewired(rule[r], Asked(s).source, Asked(s).target)
        /\ \A m \in Merchants \ {Asked(s).source} : merchant'[m] = merchant[m]
    BY DEF WriteMerge, Asked, BreakInv, CatalogInv, TypeOK
  <1>4. ASSUME NEW r \in Rules, rule'[r].merchant # None
        PROVE  merchant'[rule'[r].merchant].exists
    <2>1. rule[r] \in Rule
      BY DEF BreakInv, CatalogInv, TypeOK
    <2>2. CASE rule[r].merchant = Asked(s).source
      <3>1. rule'[r].merchant = Asked(s).target
        BY <1>2, <1>3, <2>1, <2>2 DEF Rewired, Rule
      <3> QED
        BY <1>2, <1>3, <3>1
    <2>3. CASE rule[r].merchant # Asked(s).source
      <3>1. rule'[r] = rule[r]
        BY <1>3, <2>3 DEF Rewired
      <3>2. rule[r].merchant \in Merchants /\ merchant[rule[r].merchant].exists
        BY <1>4, <2>1, <3>1 DEF RulesResolve, Rule, OptionalMerchant
      <3> QED
        BY <1>3, <2>3, <3>1, <3>2
    <2> QED
      BY <2>2, <2>3
  <1> QED
    BY <1>4 DEF RulesResolve

\* Nor does a rule written by a transaction whose check would still pass.
LEMMA CurrentRuleResolves ==
    ASSUME TypeOK, RulesResolve, NEW s \in Sessions, WriteNewRule(s) \/ WriteRule(s),
           Permitted(Asked(s))
    PROVE  RulesResolve'
  <1>1. CASE WriteNewRule(s)
    <2>1. Asked(s) \in CreateRule /\ Asked(s).op = "createRule"
      BY <1>1, SessionShape, RequestShape DEF WriteNewRule, Writing, Asked
    <2>2. Asked(s).merchant # None => merchant[Asked(s).merchant].exists
      BY <2>1 DEF Permitted, ReferencesVisible
    <2>3. /\ Asked(s).rule \in Rules
          /\ merchant' = merchant
          /\ rule'[Asked(s).rule].merchant = Asked(s).merchant
          /\ \A r \in Rules \ {Asked(s).rule} : rule'[r] = rule[r]
      BY <1>1, <2>1 DEF WriteNewRule, CreateRule, Asked, TypeOK
    <2> QED
      BY <2>2, <2>3 DEF RulesResolve
  <1>2. CASE WriteRule(s)
    <2>1. Asked(s) \in UpdateRule /\ Asked(s).op = "updateRule"
      BY <1>2, SessionShape, RequestShape DEF WriteRule, Writing, Asked
    <2> DEFINE new == Merged(Asked(s).merchant, rule[Asked(s).rule].merchant)
    <2>2. new # None => merchant[new].exists
      BY <2>1 DEF Permitted, ReferencesVisible
    <2>3. Asked(s).rule \in Rules /\ rule[Asked(s).rule] \in Rule
      BY <2>1 DEF UpdateRule, TypeOK
    <2>4. /\ merchant' = merchant
          /\ rule'[Asked(s).rule].merchant = new
          /\ \A r \in Rules \ {Asked(s).rule} : rule'[r] = rule[r]
      BY <1>2, <2>3 DEF WriteRule, Asked, TypeOK, Rule
    <2> HIDE DEF new
    <2> QED
      BY <2>2, <2>3, <2>4 DEF RulesResolve
  <1> QED
    BY <1>1, <1>2

\* The other steps leave what rules assign alone, and the merchants in place.
LEMMA OtherWriteStep ==
    ASSUME TypeOK, RulesResolve, NEW s \in Sessions,
           \/ WriteNewCategory(s) \/ WriteCategory(s) \/ WriteMerchant(s)
           \/ WriteConfirmation(s) \/ WriteDeactivation(s)
    PROVE  RulesResolve'
  <1>1. ASSUME NEW r \in Rules
        PROVE  rule'[r].merchant = rule[r].merchant
    <2>1. rule[r] \in Rule
      BY DEF TypeOK
    <2> QED
      BY <2>1 DEF WriteNewCategory, WriteCategory, WriteMerchant, WriteConfirmation,
                  WriteDeactivation, TypeOK, Rule
  <1>2. ASSUME NEW m \in Merchants
        PROVE  merchant'[m].exists = merchant[m].exists
    <2>1. merchant[m] \in Merchant
      BY DEF TypeOK
    <2> QED
      BY <2>1 DEF WriteNewCategory, WriteCategory, WriteMerchant, WriteConfirmation,
                  WriteDeactivation, TypeOK, Merchant
  <1>3. \A r \in Rules : rule[r].merchant \in Merchants \cup {None}
    BY DEF TypeOK, Rule, OptionalMerchant
  <1> QED
    BY <1>1, <1>2, <1>3 DEF RulesResolve

\* The lemma behind the cycle check: a forest stays one when a category gets a
\* parent of which it is no ancestor.  A set closed upwards that contains the
\* new parent but not the category would meet any new cycle in an old one.
LEMMA ReparentedForest ==
    ASSUME TypeOK, CategoryForest,
           NEW c \in Categories, NEW p \in OptionalCategory, MayReparent(c, p),
           \A d \in Categories \ {c} : category'[d].parent = category[d].parent,
           category'[c].parent = p
    PROVE  CategoryForest'
  <1> SUFFICES ASSUME NEW S \in SUBSET Categories, S # {},
                      \A d \in S : category'[d].parent \in S
               PROVE  FALSE
    BY DEF CategoryForest
  <1>1. ASSUME NEW T \in SUBSET Categories, T # {}
        PROVE  \E d \in T : category[d].parent \notin T
    BY <1>1 DEF CategoryForest
  <1>2. c \in S
    <2> SUFFICES ASSUME c \notin S
                 PROVE  FALSE
      OBVIOUS
    <2>1. \A d \in S : category[d].parent \in S
      OBVIOUS
    <2> QED
      BY <1>1, <2>1
  <1>3. p \in S /\ p # None
    BY <1>2
  <1>4. PICK T \in SUBSET Categories : p \in T /\ ClosedUpwards(T) /\ c \notin T
    BY <1>3 DEF MayReparent, Ancestors
  <1>5. \A d \in S \cap T : category[d].parent \in S \cap T
    <2> SUFFICES ASSUME NEW d \in S \cap T
                 PROVE  category[d].parent \in S \cap T
      OBVIOUS
    <2>1. d # c /\ category[d].parent \in S
      BY <1>4
    <2>2. category[d].parent \in T \cup {None}
      BY <1>4 DEF ClosedUpwards
    <2> QED
      BY <2>1, <2>2
  <1> QED
    BY <1>1, <1>3, <1>4, <1>5

\* A category that nobody can refer to yet joins the forest below an old one.
LEMMA GrownForest ==
    ASSUME TypeOK, CategoryForest, ParentsExist,
           NEW c \in Categories, NEW p \in OptionalCategory,
           ~category[c].exists, p # None => category[p].exists,
           \A d \in Categories \ {c} : category'[d].parent = category[d].parent,
           category'[c].parent = p
    PROVE  CategoryForest'
  <1> SUFFICES ASSUME NEW S \in SUBSET Categories, S # {},
                      \A d \in S : category'[d].parent \in S
               PROVE  FALSE
    BY DEF CategoryForest
  <1>1. p # c
    OBVIOUS
  <1>2. S \ {c} # {}
    BY <1>1
  <1>3. PICK d \in S \ {c} : category[d].parent \notin S \ {c}
    BY <1>2 DEF CategoryForest
  <1>4. category[d].parent = c
    BY <1>3
  <1> QED
    BY <1>4 DEF ParentsExist

\* A new category keeps the forest, and so does a change of parents whose check
\* would still pass.
LEMMA ForestStep ==
    ASSUME TypeOK, ParentsExist, CategoryForest, NEW s \in Sessions,
           \/ WriteNewCategory(s)
           \/ WriteCategory(s) /\ Permitted(Asked(s))
    PROVE  CategoryForest'
  <1>1. CASE WriteNewCategory(s)
    <2> DEFINE c == Asked(s).category
               p == Asked(s).parent
    <2>1. Asked(s) \in CreateCategory
      BY <1>1, SessionShape, RequestShape DEF WriteNewCategory, Writing, Asked
    <2>2. c \in Categories /\ p \in OptionalCategory
      BY <2>1 DEF CreateCategory
    <2>3. category' = [category EXCEPT ![c] = [exists |-> TRUE, active |-> TRUE, parent |-> p]]
      BY <1>1 DEF WriteNewCategory, Asked
    <2>4. /\ \A d \in Categories \ {c} : category'[d].parent = category[d].parent
          /\ category'[c].parent = p
      BY <2>2, <2>3 DEF TypeOK
    <2>5. ~category[c].exists /\ (p # None => category[p].exists)
      BY <1>1 DEF WriteNewCategory, Asked, Referable
    <2> HIDE DEF c, p
    <2> QED
      BY <2>2, <2>4, <2>5, GrownForest
  <1>2. CASE WriteCategory(s) /\ Permitted(Asked(s))
    <2> DEFINE c == Asked(s).category
               old == category[c]
               p == Merged(Asked(s).parent, old.parent)
               active == Merged(Asked(s).active, old.active)
    <2>1. Asked(s) \in UpdateCategory /\ Asked(s).op = "updateCategory"
      BY <1>2, SessionShape, RequestShape DEF WriteCategory, Writing, Asked
    <2>2. c \in Categories /\ old \in Category
      BY <2>1 DEF UpdateCategory, TypeOK
    <2>3. p \in OptionalCategory
      BY <2>1, <2>2, MergedType DEF UpdateCategory, Category
    <2>4. category' = [category EXCEPT ![c] = [old EXCEPT !.parent = p, !.active = active]]
      BY <1>2 DEF WriteCategory, Asked
    <2>5. /\ \A d \in Categories \ {c} : category'[d].parent = category[d].parent
          /\ category'[c].parent = p
      BY <2>2, <2>4 DEF TypeOK, Category
    <2>6. p = old.parent \/ MayReparent(c, p)
      BY <1>2, <2>1 DEF Permitted, Merged
    <2>7. CASE p = old.parent
      BY <2>2, <2>5, <2>7 DEF CategoryForest
    <2>8. CASE MayReparent(c, p)
      <3> HIDE DEF p, active
      <3> QED
        BY <2>2, <2>3, <2>5, <2>8, ReparentedForest
    <2> QED
      BY <2>6, <2>7, <2>8
  <1> QED
    BY <1>1, <1>2

LEMMA BreakStep == BreakInv /\ [Next]_vars => BreakInv'
  BY CatalogStep, MergersFindStep DEF BreakInv

LEMMA BreakInit == Init => BreakInv
  <1>1. Init => MergersFind
    BY DEF Init, MergersFind, Idle
  <1> QED
    BY <1>1, CatalogInit DEF BreakInv

\* A write of s that its request still permits is the only kind without an excuse.
LEMMA WritesOvertaken ==
    ASSUME TypeOK, NEW s \in Sessions, NEW ops, Write(s), Asked(s).op \in ops,
           ~Permitted(Asked(s))
    PROVE  OvertakenEnds(ops)
  <1>1. session[s].step = "checked"
    BY DEF Write, WriteNewCategory, WriteCategory, WriteMerchant, WriteMerge, WriteNewRule,
           WriteRule, WriteConfirmation, WriteDeactivation, Writing
  <1>2. session'[s] = Idle
    BY WriteFinishes DEF Finish, TypeOK
  <1> QED
    BY <1>1, <1>2 DEF OvertakenEnds, Overtaken, Asked

\* A deactivation that is still permitted as it is written leaves no active reference.
LEMMA CurrentDeactivation ==
    ASSUME TypeOK, NEW s \in Sessions, WriteNewCategory(s) \/ WriteCategory(s),
           NEW c \in Categories, category[c].active, ~category'[c].active
    PROVE  /\ WriteCategory(s)
           /\ Permitted(Asked(s)) => ~ActiveReferences(c)'
  <1>1. ~WriteNewCategory(s)
    <2> SUFFICES ASSUME WriteNewCategory(s) PROVE FALSE
      OBVIOUS
    <2>1. Asked(s) \in CreateCategory
      BY SessionShape, RequestShape DEF WriteNewCategory, Writing, Asked
    <2>2. category'[Asked(s).category].active
      BY <2>1 DEF WriteNewCategory, CreateCategory, Asked, TypeOK
    <2>3. \A d \in Categories \ {Asked(s).category} : category'[d] = category[d]
      BY <2>1 DEF WriteNewCategory, CreateCategory, Asked, TypeOK
    <2> QED
      BY <2>2, <2>3
  <1>2. ASSUME Permitted(Asked(s)) PROVE ~ActiveReferences(c)'
    <2> DEFINE req == Asked(s)
               old == category[req.category]
               active == Merged(req.active, old.active)
    <2>1. req \in UpdateCategory /\ req.op = "updateCategory"
      BY <1>1, SessionShape, RequestShape DEF WriteCategory, Writing, Asked
    <2>2. req.category \in Categories /\ old \in Category
      BY <2>1 DEF UpdateCategory, TypeOK
    <2>3. /\ \A d \in Categories \ {req.category} : category'[d] = category[d]
          /\ category'[req.category].active = active
          /\ merchant' = merchant /\ rule' = rule
      <3>1. /\ category' = [category EXCEPT ![req.category] =
                              [old EXCEPT !.parent = Merged(req.parent, old.parent),
                                          !.active = active]]
            /\ merchant' = merchant /\ rule' = rule
        BY <1>1 DEF WriteCategory, Asked
      <3> HIDE DEF active
      <3> QED
        BY <2>2, <3>1 DEF TypeOK, Category
    <2>4. c = req.category
      BY <2>3
    <2>5. req.active = FALSE
      BY <2>1, <2>2, <2>3, <2>4 DEF Merged, UpdateCategory, Category
    <2>6. ~ActiveReferences(c)
      BY <1>2, <2>1, <2>4, <2>5 DEF Permitted, MayDeactivate
    <2>7. \A d \in Categories : category'[d].active /\ category'[d].parent = c
                                  => category[d].active /\ category[d].parent = c
      BY <2>3, <2>4
    <2> QED
      BY <2>3, <2>6, <2>7 DEF ActiveReferences
  <1> QED
    BY <1>1, <1>2

\* However many sessions work at a time: only an overtaken change of parents loses
\* the forest, only an overtaken rule is left with a merchant that is gone, and only
\* an overtaken deactivation leaves an active reference behind.
THEOREM OvertakenAlone == Spec => OnlyTheOvertakenBreak
  <1>1. ASSUME BreakInv, [Next]_vars, CategoryForest, ~CategoryForest'
        PROVE  OvertakenEnds({"updateCategory"})
    <2>1. category' # category
      BY <1>1 DEF CategoryForest
    <2>2. PICK s \in Sessions : WriteNewCategory(s) \/ WriteCategory(s)
      BY <1>1, <2>1 DEF Next, vars, Begin, Lock, Check, Rollback, Write, WriteMerchant,
                        WriteMerge, WriteNewRule, WriteRule, WriteConfirmation, WriteDeactivation
    <2>3. WriteCategory(s) /\ ~Permitted(Asked(s))
      BY <1>1, <2>2, ForestStep DEF BreakInv, CatalogInv
    <2>4. Write(s) /\ Asked(s).op = "updateCategory"
      BY <2>3 DEF Write, WriteCategory, Writing, Asked
    <2> QED
      BY <1>1, <2>3, <2>4, WritesOvertaken DEF BreakInv, CatalogInv
  <1>2. ASSUME BreakInv, [Next]_vars, RulesResolve, ~RulesResolve'
        PROVE  OvertakenEnds({"createRule", "updateRule"})
    <2>1. ~(rule' = rule /\ merchant' = merchant)
      BY <1>2 DEF RulesResolve
    <2>2. PICK s \in Sessions : Write(s)
      BY <1>2, <2>1 DEF Next, vars, Begin, Lock, Check, Rollback
    <2>3. WriteNewRule(s) \/ WriteRule(s)
      BY <1>2, <2>2, MergeResolves, OtherWriteStep DEF Write, BreakInv, CatalogInv
    <2>4. ~Permitted(Asked(s))
      BY <1>2, <2>3, CurrentRuleResolves DEF BreakInv, CatalogInv
    <2>5. Asked(s).op \in {"createRule", "updateRule"}
      BY <2>3 DEF WriteNewRule, WriteRule, Writing, Asked
    <2> QED
      BY <1>2, <2>2, <2>4, <2>5, WritesOvertaken DEF BreakInv, CatalogInv
  <1>3. ASSUME BreakInv, [Next]_vars, NEW c \in Categories, category[c].active,
               ~category'[c].active, ActiveReferences(c)'
        PROVE  OvertakenEnds({"updateCategory"})
    <2>1. PICK s \in Sessions : WriteNewCategory(s) \/ WriteCategory(s)
      BY <1>3 DEF Next, vars, Begin, Lock, Check, Rollback, Write, WriteMerchant,
                  WriteMerge, WriteNewRule, WriteRule, WriteConfirmation, WriteDeactivation
    <2>2. WriteCategory(s) /\ ~Permitted(Asked(s))
      BY <1>3, <2>1, CurrentDeactivation DEF BreakInv, CatalogInv
    <2>3. Write(s) /\ Asked(s).op = "updateCategory"
      BY <2>2 DEF Write, WriteCategory, Writing, Asked
    <2> QED
      BY <1>3, <2>2, <2>3, WritesOvertaken DEF BreakInv, CatalogInv
  <1>4. BreakInv /\ [Next]_vars =>
          [/\ CategoryForest /\ ~CategoryForest' => OvertakenEnds({"updateCategory"})
           /\ RulesResolve /\ ~RulesResolve' => OvertakenEnds({"createRule", "updateRule"})
           /\ \A c \in Categories :
                category[c].active /\ ~category'[c].active /\ ActiveReferences(c)'
                  => OvertakenEnds({"updateCategory"})]_vars
    BY <1>1, <1>2, <1>3
  <1> QED
    BY <1>4, BreakInit, BreakStep, PTL DEF Spec, OnlyTheOvertakenBreak

-----------------------------------------------------------------------------
(***************************************************************************)
(* Any number of sessions: activations are audited.  What a session found   *)
(* under its row lock still is a rule, or a suggestion, when it writes, as   *)
(* no transaction deletes rules or makes them suggestions.                  *)
(***************************************************************************)
FoundRule(s) ==
    session[s].step \in {"locked", "checked"} =>
      /\ Asked(s).op \in {"updateRule", "confirmSuggestion"} => rule[Asked(s).rule].exists
      /\ Asked(s).op = "confirmSuggestion" => rule[Asked(s).rule].suggestion

AuditInv == TypeOK /\ \A s \in Sessions : FoundRule(s)

\* What a write makes of a rule that is none of a request's.
LEMMA RewiredRule ==
    ASSUME NEW row \in Rule, NEW source, NEW target \in Merchants
    PROVE  LET new == Rewired(row, source, target)
           IN  /\ new.exists = row.exists /\ new.suggestion = row.suggestion
               /\ new.active = row.active
  BY DEF Rewired, Rule

\* Rules stay, and stay suggestions or not.
LEMMA RulesStay ==
    ASSUME TypeOK, [Next]_vars, NEW r \in Rules, rule[r].exists
    PROVE  rule'[r].exists /\ rule'[r].suggestion = rule[r].suggestion
  <1>1. rule[r] \in Rule
    BY DEF TypeOK
  <1>2. CASE rule' = rule
    BY <1>2
  <1>3. ASSUME NEW s \in Sessions, WriteMerge(s)
        PROVE  rule'[r].exists /\ rule'[r].suggestion = rule[r].suggestion
    <2>1. Asked(s) \in MergeMerchants
      BY <1>3, SessionShape, RequestShape DEF WriteMerge, Writing, Asked
    <2>2. rule'[r] = Rewired(rule[r], Asked(s).source, Asked(s).target)
      BY <1>3 DEF WriteMerge, Asked
    <2>3. Asked(s).target \in Merchants
      BY <2>1 DEF MergeMerchants
    <2> QED
      BY <1>1, <2>2, <2>3, RewiredRule
  <1>4. ASSUME NEW s \in Sessions, WriteNewRule(s)
        PROVE  rule'[r].exists /\ rule'[r].suggestion = rule[r].suggestion
    <2>1. Asked(s).rule # r
      BY <1>4 DEF WriteNewRule, Asked
    <2>2. rule'[r] = rule[r]
      BY <1>4, <2>1 DEF WriteNewRule, Asked, TypeOK
    <2> QED
      BY <2>2
  <1>5. ASSUME NEW s \in Sessions, WriteRule(s)
        PROVE  rule'[r].exists /\ rule'[r].suggestion = rule[r].suggestion
    <2> DEFINE q == Asked(s).rule
               on == Merged(Asked(s).active, rule[q].active)
               to == Merged(Asked(s).category, rule[q].category)
               by == Merged(Asked(s).merchant, rule[q].merchant)
               new == [rule[q] EXCEPT !.category = to, !.merchant = by, !.active = on]
    <2>1. rule' = [rule EXCEPT ![q] = new]
      BY <1>5 DEF WriteRule, Asked
    <2>2. CASE q = r
      <3>1. new.exists = rule[r].exists /\ new.suggestion = rule[r].suggestion
        BY <1>1, <2>2 DEF Rule
      <3>2. rule'[r] = new
        BY <2>1, <2>2 DEF TypeOK
      <3> HIDE DEF new
      <3> QED
        BY <3>1, <3>2
    <2>3. CASE q # r
      <3> HIDE DEF new, q
      <3> QED
        BY <2>1, <2>3 DEF TypeOK
    <2> QED
      BY <2>2, <2>3
  <1>6. ASSUME NEW s \in Sessions, WriteConfirmation(s) \/ WriteDeactivation(s)
        PROVE  rule'[r].exists /\ rule'[r].suggestion = rule[r].suggestion
    <2>1. PICK q, on : rule' = [rule EXCEPT ![q].active = on]
      BY <1>6 DEF WriteConfirmation, WriteDeactivation
    <2> QED
      BY <1>1, <2>1 DEF TypeOK, Rule
  <1> QED
    BY <1>2, <1>3, <1>4, <1>5, <1>6
    DEF Next, vars, Begin, Lock, Check, Rollback, Write, WriteNewCategory, WriteCategory,
        WriteMerchant

LEMMA AuditStep == AuditInv /\ [Next]_vars => AuditInv'
  <1> SUFFICES ASSUME AuditInv, [Next]_vars
               PROVE  AuditInv'
    OBVIOUS
  <1>1. TypeOK'
    BY TypeStep DEF AuditInv
  <1>2. ASSUME NEW t \in Sessions, session'[t] = session[t]
        PROVE  FoundRule(t)'
    <2>1. CASE /\ session[t].step \in {"locked", "checked"}
               /\ Asked(t).op \in {"updateRule", "confirmSuggestion"}
      <3>1. Asked(t) \in UpdateRule \cup ConfirmSuggestion
        BY <2>1, SessionShape, RequestShape DEF AuditInv
      <3>2. Asked(t).rule \in Rules
        BY <3>1 DEF UpdateRule, ConfirmSuggestion
      <3> QED
        BY <1>2, <2>1, <3>2, RulesStay DEF AuditInv, FoundRule, Asked
    <2>2. CASE ~(/\ session[t].step \in {"locked", "checked"}
                 /\ Asked(t).op \in {"updateRule", "confirmSuggestion"})
      BY <1>2, <2>2 DEF FoundRule, Asked
    <2> QED
      BY <2>1, <2>2
  <1>3. CASE UNCHANGED vars
    BY <1>1, <1>2, <1>3 DEF vars, AuditInv
  <1>4. ASSUME NEW s \in Sessions,
               \/ \E req \in Requests : Begin(s, req)
               \/ Lock(s) \/ Check(s) \/ Write(s) \/ Rollback(s)
        PROVE  \A t \in Sessions : FoundRule(t)'
    <2>1. \A t \in Sessions \ {s} : FoundRule(t)'
      BY <1>2, <1>4, OnlyOneMoves DEF AuditInv
    <2>2. CASE Lock(s)
      <3>1. Asked(s)' = Asked(s) /\ Found(Asked(s)) /\ rule' = rule
        BY <2>2, SessionShape DEF Lock, Advance, AuditInv, TypeOK, Asked, Session
      <3>2. FoundRule(s)'
        BY <3>1 DEF Found, FoundRule, Asked
      <3> QED
        BY <2>1, <3>2
    <2>3. CASE Check(s)
      <3>1. Asked(s)' = Asked(s) /\ session[s].step = "locked" /\ rule' = rule
        BY <2>3, SessionShape DEF Check, Advance, AuditInv, TypeOK, Asked, Session
      <3>2. FoundRule(s)'
        BY <3>1 DEF AuditInv, FoundRule, Asked
      <3> QED
        BY <2>1, <3>2
    <2>4. CASE (\E req \in Requests : Begin(s, req)) \/ Write(s) \/ Rollback(s)
      <3>1. session'[s].step \in {"begun", "idle"}
        BY <2>4, WithoutLocks DEF AuditInv
      <3> QED
        BY <2>1, <3>1 DEF FoundRule
    <2> QED
      BY <1>4, <2>2, <2>3, <2>4
  <1> QED
    BY <1>1, <1>3, <1>4 DEF Next, AuditInv

\* A step records the activation of suggestion r, if it is one.
Audited(r) ==
    IF rule[r].exists /\ rule[r].suggestion /\ ~rule[r].active /\ rule'[r].active
    THEN confirmations'[r] = confirmations[r] + 1
    ELSE confirmations'[r] = confirmations[r]

LEMMA ConfirmedOnce ==
    ASSUME TypeOK, NEW q \in Rules, NEW activated \in BOOLEAN, Confirmed(q, activated),
           activated <=> /\ rule[q].exists /\ rule[q].suggestion
                         /\ ~rule[q].active /\ rule'[q].active,
           \A r \in Rules \ {q} : rule'[r] = rule[r],
           NEW r \in Rules
    PROVE  Audited(r)
  BY DEF Confirmed, Audited, TypeOK

LEMMA AuditedStep ==
    ASSUME AuditInv, [Next]_vars, NEW r \in Rules
    PROVE  Audited(r)
  <1>1. rule[r] \in Rule /\ TypeOK
    BY DEF AuditInv, TypeOK
  <1>2. CASE rule' = rule /\ confirmations' = confirmations
    BY <1>2 DEF Audited
  <1>3. ASSUME NEW s \in Sessions, WriteMerge(s)
        PROVE  Audited(r)
    <2>1. Asked(s) \in MergeMerchants
      BY <1>1, <1>3, SessionShape, RequestShape DEF WriteMerge, Writing, Asked
    <2>2. rule'[r] = Rewired(rule[r], Asked(s).source, Asked(s).target)
      BY <1>3 DEF WriteMerge, Asked
    <2>3. Asked(s).target \in Merchants
      BY <2>1 DEF MergeMerchants
    <2>4. rule'[r].active = rule[r].active
      BY <1>1, <2>2, <2>3, RewiredRule
    <2> QED
      BY <1>3, <2>4 DEF WriteMerge, Audited
  <1>4. ASSUME NEW s \in Sessions, WriteNewRule(s)
        PROVE  Audited(r)
    <2>1. rule[r].exists => rule'[r] = rule[r]
      BY <1>1, <1>4 DEF WriteNewRule, Asked, TypeOK
    <2> QED
      BY <1>4, <2>1 DEF WriteNewRule, Audited
  <1>5. ASSUME NEW s \in Sessions, WriteRule(s)
        PROVE  Audited(r)
    <2> DEFINE q == Asked(s).rule
               on == Merged(Asked(s).active, rule[q].active)
               to == Merged(Asked(s).category, rule[q].category)
               by == Merged(Asked(s).merchant, rule[q].merchant)
               new == [rule[q] EXCEPT !.category = to, !.merchant = by, !.active = on]
               activated == rule[q].suggestion /\ ~rule[q].active /\ new.active
    <2>1. Asked(s) \in UpdateRule /\ Asked(s).op = "updateRule"
      BY <1>1, <1>5, SessionShape, RequestShape DEF WriteRule, Writing, Asked
    <2>2. q \in Rules /\ rule[q] \in Rule /\ rule[q].exists
      BY <1>5, <2>1 DEF UpdateRule, AuditInv, TypeOK, FoundRule, WriteRule, Writing, Asked
    <2>3. rule' = [rule EXCEPT ![q] = new] /\ Confirmed(q, activated)
      BY <1>5, <2>2 DEF WriteRule, Asked, Rule
    <2>4. on \in BOOLEAN
      BY <2>1, <2>2, MergedType DEF UpdateRule, Rule
    <2>5. new.active = on
      BY <2>2 DEF Rule
    <2>6. /\ rule'[q] = new /\ \A p \in Rules \ {q} : rule'[p] = rule[p]
      BY <1>1, <2>2, <2>3 DEF TypeOK
    <2>7. activated \in BOOLEAN
      BY <2>2, <2>4, <2>5 DEF Rule
    <2> HIDE DEF q, new, on, to, by
    <2> QED
      BY <1>1, <2>2, <2>3, <2>6, <2>7, ConfirmedOnce
  <1>6. ASSUME NEW s \in Sessions, WriteConfirmation(s)
        PROVE  Audited(r)
    <2> DEFINE q == Asked(s).rule
    <2>1. Asked(s) \in ConfirmSuggestion /\ Asked(s).op = "confirmSuggestion"
      BY <1>1, <1>6, SessionShape, RequestShape DEF WriteConfirmation, Writing, Asked
    <2>2. q \in Rules /\ rule[q] \in Rule /\ rule[q].exists /\ rule[q].suggestion
      BY <1>6, <2>1 DEF ConfirmSuggestion, AuditInv, TypeOK, FoundRule, WriteConfirmation,
                        Writing, Asked
    <2>3. /\ rule' = [rule EXCEPT ![q].active = TRUE] /\ Confirmed(q, ~rule[q].active)
      BY <1>6 DEF WriteConfirmation, Asked
    <2>4. /\ rule'[q].active /\ \A p \in Rules \ {q} : rule'[p] = rule[p]
      BY <1>1, <2>2, <2>3 DEF TypeOK, Rule
    <2>5. (~rule[q].active) \in BOOLEAN
      BY <2>2 DEF Rule
    <2> HIDE DEF q
    <2> QED
      BY <1>1, <2>2, <2>3, <2>4, <2>5, ConfirmedOnce
  <1>7. ASSUME NEW s \in Sessions, WriteDeactivation(s)
        PROVE  Audited(r)
    <2>1. rule'[r].active => rule[r].active
      BY <1>1, <1>7 DEF WriteDeactivation, TypeOK, Rule
    <2> QED
      BY <1>7, <2>1 DEF WriteDeactivation, Audited
  <1> QED
    BY <1>2, <1>3, <1>4, <1>5, <1>6, <1>7
    DEF Next, vars, Begin, Lock, Check, Rollback, Write, WriteNewCategory, WriteCategory,
        WriteMerchant

\* Every activation of a suggestion is recorded once and nothing else is, however
\* many sessions confirm it, edit it and deactivate it at a time.
THEOREM EveryActivationAudited == Spec => ActivationsAudited
  <1>1. Init => AuditInv
    <2> SUFFICES ASSUME Init
                 PROVE  AuditInv
      OBVIOUS
    <2>1. \A s \in Sessions : session[s].step = "idle"
      BY DEF Init, Idle
    <2> QED
      BY <2>1, TypeInit DEF AuditInv, FoundRule
  <1>2. AuditInv /\ [Next]_vars => [\A r \in Rules : Audited(r)]_vars
    BY AuditedStep
  <1> QED
    BY <1>1, <1>2, AuditStep, PTL DEF Spec, ActivationsAudited, Audited

================================================================================
