------------------------------- MODULE MCLedger -------------------------------
(***************************************************************************)
(* A small instance of what happens to stored transactions: corrections,    *)
(* replacements, role detection, merchants and recurring series.  They      *)
(* share no state in the models, so a behaviour runs one of Parts.          *)
(***************************************************************************)
EXTENDS UserState, Sequences, TLC

CONSTANTS
    Parts,
    x, m1, m2, c1, r1, k1, k2,
    p1, p2, s1, s2, Old, New, Score, Runs, MaxDeletions, MaxEdits, MaxDeaths,
    t1, t2, t3, Rows, AccountOf, FactsOf, Detectors, Tolerance, TransferWindow,
    RefundWindow, CandidateLimit, MaxChanges,
    q1, q2, q3, q4, q5, a1, a2, n1, n2, Ids, Keys, Hashes, Sessions, Does, Input, Fits(_, _),
    Currencies, Histories, Reviewers, MaxSeries, MaxSeriesChanges

ASSUME PartsAssumption ==
    Parts \subseteq {"corrections", "replacements", "roles", "merchants", "series"}

MCPatchOf == k1 :> [category |-> c1, merchant |-> m1, role |-> Keep]
             @@ k2 :> [category |-> Keep, merchant |-> Clear, role |-> r1]
MCTagsOf == k1 :> {} @@ k2 :> Keep
MCTargetOf == [k \in Corrections |-> x]

VARIABLES live, deletedIn, createdIn, deletions, userData, userTags, link, transferred,
          sync, auto, clash, syncLock, userEdits, deaths
replacementVars == <<live, deletedIn, createdIn, deletions, userData, userTags, link,
                     transferred, sync, auto, clash, syncLock, userEdits, deaths>>
Re == INSTANCE Replacement WITH
        Locking <- Runs, state <- userData, tags <- userTags, pc <- sync, lock <- syncLock,
        edits <- userEdits

ASSUME ReplacementAssumption ==
    /\ DOMAIN Score \subseteq Old \X New
    /\ None \notin Old \cup New \cup Runs \cup DOMAIN Score \cup Re!LinkStatus
    /\ MaxDeletions \in Nat /\ MaxEdits \in Nat /\ MaxDeaths \in Nat

MCScore ==
    LET all == <<p1, s1>> :> "sure" @@ <<p1, s2>> :> "sure" @@ <<p2, s1>> :> "unsure"
    IN [pair \in DOMAIN all \cap (Old \X New) |-> all[pair]]

VARIABLES rows, override, evidence, decisions, detector, changes
roleVars == <<rows, override, evidence, decisions, detector, changes>>
Ro == INSTANCE RoleDetection WITH Transactions <- Rows

ASSUME RoleAssumption ==
    /\ FactsOf \in [Rows -> SUBSET Ro!Facts]
    /\ None \notin Rows

Fact(day, amount, keyword) ==
    [day |-> day, amount |-> amount, keyword |-> keyword, subject |-> 1]
MCFactsOf == t1 :> {Fact(1, -5, "transfer"), Fact(0, -5, "other")}
             @@ t2 :> {Fact(2, 5, "transfer")}
             @@ t3 :> {Fact(3, -5, "transfer"), Fact(2, 5, "refund")}
MCAccountOf == t1 :> "a" @@ t2 :> "b" @@ t3 :> "a"

VARIABLES merchant, alias, session, at, found, answer, held, merchantEdits
merchantVars == <<merchant, alias, session, at, found, answer, held, merchantEdits>>
Me == INSTANCE MerchantResolution WITH pc <- session, edits <- merchantEdits

ASSUME MerchantAssumption ==
    /\ {None, "failed"} \cap Ids = {} /\ None \notin Sessions
    /\ \A s \in Sessions :
         /\ Does[s] = "resolve" => Input[s].keys \in Seq(Keys) /\ Input[s].keys # <<>>
                                   /\ Len(Input[s].keys) <= 3 /\ Input[s].provisional \in Keys
         /\ Does[s] # "resolve" => Input[s].key \in Keys
         /\ Does[s] # "alias" => Input[s].hash \in Hashes \cup {None}

Resolving == [keys |-> <<"desc", "name">>, provisional |-> "name", hash |-> "h"]
MCInput == q1 :> Resolving @@ q2 :> Resolving
           @@ q5 :> [keys |-> <<"desc">>, provisional |-> "desc", hash |-> None]
           @@ q3 :> [key |-> "desc", hash |-> "h"] @@ q4 :> [key |-> "desc", hash |-> None]
           @@ a1 :> [key |-> "name", target |-> n1, match |-> "pattern"]
           @@ a2 :> [key |-> "name", target |-> n2, match |-> "pattern"]
MCDoes == [s \in Sessions |-> CASE s \in {q1, q2, q5} -> "resolve"
                                [] s \in {q3, q4} -> "canonical"
                                [] OTHER -> "alias"]
MCFits(pattern, key) == pattern = key \/ (pattern = "name" /\ key = "desc")

VARIABLES history, gone, series, audits, actor, pending, target, seriesLock, seriesRowLock,
          seriesChanges
seriesVars == <<history, gone, series, audits, actor, pending, target, seriesLock, seriesRowLock,
                seriesChanges>>
Se == INSTANCE RecurringSeries WITH
        Merchants <- Ids, pc <- actor, lock <- seriesLock, rowLock <- seriesRowLock,
        changes <- seriesChanges, MaxChanges <- MaxSeriesChanges

ASSUME SeriesAssumption ==
    /\ \A h \in Histories : h \in Seq(Int \X Int)
    /\ IsFiniteSet(Ids) /\ IsFiniteSet(Currencies) /\ IsFiniteSet(Reviewers)
    /\ None \notin Detectors \cup Reviewers /\ Detectors \cap Reviewers = {}
    /\ MaxSeries \in Nat

\* Purchases every week and month, and almost.
MCHistories ==
    {<<<<0, 10>>, <<7, 10>>, <<15, 11>>>>, <<<<0, 10>>, <<30, 10>>, <<58, 10>>, <<92, 11>>>>,
     <<<<0, 10>>, <<7, 10>>, <<14, 20>>>>}

\* Runs and detections are interchangeable.
MCSymmetry == Permutations(Runs) \cup Permutations(Detectors)

\* Two resolutions of one input are interchangeable; so are the merchants, with the
\* confirmations of their aliases.
MCMerchantSymmetry ==
    Permutations({q1, q2}) \cup {n1 :> n2 @@ n2 :> n1 @@ a1 :> a2 @@ a2 :> a1}

VARIABLE part
allVars == <<vars, replacementVars, roleVars, merchantVars, seriesVars, part>>

\* Parts that have several initial states take one of them unless they run.
Still ==
    /\ part # "roles" => \A t \in Rows : rows[t].facts = CHOOSE f \in FactsOf[t] : TRUE
    /\ part # "series" => \A g \in Se!Groups : history[g] = CHOOSE h \in Histories : TRUE

MCInit == /\ part \in Parts
          /\ Init /\ Re!Init /\ Ro!Init /\ Me!Init /\ Se!Init
          /\ Still

MCNext ==
    \/ /\ part = "corrections" /\ Next
       /\ UNCHANGED <<part, replacementVars, roleVars, merchantVars, seriesVars>>
    \/ /\ part = "replacements" /\ Re!Next
       /\ UNCHANGED <<part, vars, roleVars, merchantVars, seriesVars>>
    \/ /\ part = "roles" /\ Ro!Next
       /\ UNCHANGED <<part, vars, replacementVars, merchantVars, seriesVars>>
    \/ /\ part = "merchants" /\ Me!Next
       /\ UNCHANGED <<part, vars, replacementVars, roleVars, seriesVars>>
    \/ /\ part = "series" /\ Se!Next
       /\ UNCHANGED <<part, vars, replacementVars, roleVars, merchantVars>>

MCSpec == MCInit /\ [][MCNext]_allVars

\* The rows, sessions, locks and logs of every part keep their types.
LedgerTypeOK ==
    CASE part = "corrections" -> TypeOK
      [] part = "replacements" -> Re!TypeOK
      [] part = "roles" -> Ro!TypeOK
      [] part = "merchants" -> Me!TypeOK
      [] part = "series" -> Se!TypeOK

\* NothingOverwritten of Replacement.
NothingOverwritten == Re!NothingOverwritten

\* TransfersMatchLinks of Replacement.
TransfersMatchLinks == part = "replacements" => Re!TransfersMatchLinks

\* CandidatesAreCreated of Replacement.
CandidatesAreCreated == Re!CandidatesAreCreated

\* RolesAreBacked of RoleDetection.
RolesAreBacked == part = "roles" => Ro!RolesAreBacked

\* OnlyUniqueTransfers of RoleDetection.
OnlyUniqueTransfers == Ro!OnlyUniqueTransfers

\* ResolutionsAgree of MerchantResolution.
ResolutionsAgree == part = "merchants" => Me!ResolutionsAgree

\* AliasesStay of MerchantResolution.
AliasesStay == Me!AliasesStay

\* SettledOnce and CadencesAreRegular of RecurringSeries, with the types of its state.
SeriesAreSound == part = "series" => Se!TypeOK /\ Se!SettledOnce /\ Se!CadencesAreRegular
=============================================================================
