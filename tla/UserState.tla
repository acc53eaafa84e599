------------------------------ MODULE UserState ------------------------------
(***************************************************************************)
(* Corrections of transactions by users: applyCorrection() and its update() *)
(* of transaction_user_state and transaction_tag under optimistic versions, *)
(* next to the other writers of those rows: the transfer of a replacement,  *)
(* the merge of two merchants, and the tags of rules.                       *)
(*                                                                         *)
(* A correction reads its row in a statement that waits for the lock of the *)
(* transaction's row, not of the state row: what it read may be older than  *)
(* the lock.  Its write, its rule suggestion and its audit event are three  *)
(* database transactions, and the user may repeat one that failed.          *)
(*                                                                         *)
(* Of the fields, the category and the merchant stand for the nullable      *)
(* overrides and the role for the others; notes and review status are plain *)
(* values.  References are checked for the merchant, which may vanish.      *)
(***************************************************************************)
EXTENDS Integers, FiniteSets

CONSTANTS
    Transactions, Merchants, Categories, Roles, Tags,
    Corrections,  \* corrections users make
    PatchOf,      \* the patch of each
    TargetOf,     \* the transaction of each
    TagsOf,       \* the tags each sets, or Keep
    Suggesting,   \* those with mode SUGGEST_FUTURE_RULE
    Keep, Inherit, Clear, None,
    MaxFaults,    \* bound: statements that fail, answers that are lost
    MaxVersion    \* bound: version of a row

Off == [enabled |-> FALSE, value |-> None]
Set(v) == [enabled |-> TRUE, value |-> v]
Override(values) == {Off} \cup {Set(v) : v \in values}

\* The columns of transaction_user_state.
Content == [category : Override(Categories \cup {None}),
            merchant : Override(Merchants \cup {None}),
            role : Override(Roles)]
Blank == [category |-> Off, merchant |-> Off, role |-> Off]
StateRow == [version : 0..MaxVersion, content : Content]
NoRow == [version |-> 0, content |-> Blank]

\* A patch keeps, inherits, clears or sets each field; the role is never cleared.
Patch == [category : {Keep, Inherit, Clear} \cup Categories,
          merchant : {Keep, Inherit, Clear} \cup Merchants,
          role : {Keep, Inherit} \cup Roles]

ASSUME CorrectionAssumption ==
    /\ PatchOf \in [Corrections -> Patch]
    /\ TargetOf \in [Corrections -> Transactions]
    /\ TagsOf \in [Corrections -> (SUBSET Tags) \cup {Keep}]
    /\ Suggesting \subseteq Corrections
    /\ None \notin Merchants \cup Categories \cup Roles \cup Corrections
    /\ Keep # Inherit /\ Keep # Clear /\ Inherit # Clear
    /\ {Keep, Inherit, Clear} \cap (Categories \cup Merchants \cup Roles) = {}
    /\ MaxVersion \in Nat /\ MaxFaults \in Nat

Resolve(change, override) ==
    CASE change = Keep -> override
      [] change = Inherit -> Off
      [] change = Clear -> Set(None)
      [] OTHER -> Set(change)

Patched(patch, content) ==
    [category |-> Resolve(patch.category, content.category),
     merchant |-> Resolve(patch.merchant, content.merchant),
     role |-> Resolve(patch.role, content.role)]

Renamed(content, m, n) ==
    IF content.merchant = Set(m) THEN [content EXCEPT !.merchant = Set(n)] ELSE content

VARIABLES
    state,     \* transaction_user_state, NoRow where there is none
    tags,      \* transaction_tag
    merchants, \* the merchants that exist
    rowLock,   \* who holds the transaction's row FOR UPDATE
    pc,
    shown,     \* the row each user decided on; its version is expectedVersion
    read,      \* the row as update() read it
    applied,   \* writes of each correction that were committed
    suggested, audited, \* its rules and audit events
    faults

tableVars == <<state, tags, merchants>>
logVars == <<applied, suggested, audited>>
vars == <<tableVars, rowLock, pc, shown, read, logVars, faults>>

Place == {"idle", "shown", "wait", "check", "write", "suggest", "audit", "error", "over"}

\* The rows keep their types; an override that is off has no value.
TypeOK ==
    /\ state \in [Transactions -> StateRow]
    /\ tags \in [Transactions -> SUBSET Tags]
    /\ merchants \subseteq Merchants
    /\ rowLock \in [Transactions -> Corrections \cup {None}]
    /\ pc \in [Corrections -> Place]
    /\ shown \in [Corrections -> StateRow]
    /\ read \in [Corrections -> StateRow]
    /\ applied \in [Corrections -> Nat] /\ suggested \in [Corrections -> Nat]
    /\ audited \in [Corrections -> Nat]
    /\ faults \in 0..MaxFaults

Init ==
    /\ state = [t \in Transactions |-> NoRow]
    /\ tags = [t \in Transactions |-> {}]
    /\ merchants = Merchants
    /\ rowLock = [t \in Transactions |-> None]
    /\ pc = [c \in Corrections |-> "idle"]
    /\ shown = [c \in Corrections |-> NoRow]
    /\ read = [c \in Corrections |-> NoRow]
    /\ applied = [c \in Corrections |-> 0]
    /\ suggested = [c \in Corrections |-> 0]
    /\ audited = [c \in Corrections |-> 0]
    /\ faults = 0

-----------------------------------------------------------------------------
Goto(c, place) == pc' = [pc EXCEPT ![c] = place]
Fault == faults < MaxFaults /\ faults' = faults + 1
Unlock(c) == rowLock' = [rowLock EXCEPT ![TargetOf[c]] = None]

\* get(): the user sees the row and decides on it.
Shows(c) ==
    /\ pc[c] = "idle"
    /\ shown' = [shown EXCEPT ![c] = state[TargetOf[c]]]
    /\ Goto(c, "shown")
    /\ UNCHANGED <<tableVars, rowLock, read, logVars, faults>>

\* lockState() begins: its snapshot is taken now.
Reads(c) ==
    /\ pc[c] = "shown"
    /\ read' = [read EXCEPT ![c] = state[TargetOf[c]]]
    /\ Goto(c, "wait")
    /\ UNCHANGED <<tableVars, rowLock, shown, logVars, faults>>

\* It returns when it has the transaction's row.
Locks(c) ==
    /\ pc[c] = "wait"
    /\ rowLock[TargetOf[c]] = None
    /\ rowLock' = [rowLock EXCEPT ![TargetOf[c]] = c]
    /\ Goto(c, "check")
    /\ UNCHANGED <<tableVars, shown, read, logVars, faults>>

\* The expected version, then resolveState() and validateReferences().
Checks(c) ==
    /\ pc[c] = "check"
    /\ LET next == Patched(PatchOf[c], read[c].content)
           valid == \/ next.merchant \in {Off, Set(None)}
                    \/ next.merchant.value \in merchants
       IN IF read[c].version = shown[c].version /\ valid
            THEN Goto(c, "write") /\ UNCHANGED rowLock
            ELSE Goto(c, "error") /\ Unlock(c)
    /\ UNCHANGED <<tableVars, shown, read, logVars, faults>>

\* The insert or the guarded update, then the tags, then the commit, whose answer
\* may be lost.  The foreign key holds the merchant.
Written(c) ==
    [version |-> read[c].version + 1, content |-> Patched(PatchOf[c], read[c].content)]

\* Mutant: the update is not guarded by the version.
MutMayWrite(c) ==
    \/ Written(c).content.merchant \in {Off, Set(None)}
    \/ Written(c).content.merchant.value \in merchants

MayWrite(c) ==
    /\ state[TargetOf[c]].version = shown[c].version
    /\ \/ Written(c).content.merchant \in {Off, Set(None)}
       \/ Written(c).content.merchant.value \in merchants

Writes(c) ==
    /\ pc[c] = "write"
    /\ read[c].version < MaxVersion
    /\ IF MayWrite(c)
         THEN /\ state' = [state EXCEPT ![TargetOf[c]] = Written(c)]
              /\ tags' = [tags EXCEPT ![TargetOf[c]] =
                            IF TagsOf[c] = Keep THEN tags[TargetOf[c]] ELSE TagsOf[c]]
              /\ applied' = [applied EXCEPT ![c] = applied[c] + 1]
              /\ \/ /\ Goto(c, IF c \in Suggesting THEN "suggest" ELSE "audit")
                    /\ UNCHANGED faults
                 \/ Goto(c, "error") /\ Fault
         ELSE Goto(c, "error") /\ UNCHANGED <<state, tags, applied, faults>>
    /\ Unlock(c)
    /\ UNCHANGED <<merchants, shown, read, suggested, audited>>

\* createRule() and the audit event, each in a transaction of its own.
Suggests(c) ==
    /\ pc[c] = "suggest"
    /\ IF PatchOf[c].merchant \in Merchants \ merchants
         THEN Goto(c, "error") /\ UNCHANGED suggested
         ELSE Goto(c, "audit") /\ suggested' = [suggested EXCEPT ![c] = suggested[c] + 1]
    /\ UNCHANGED <<tableVars, rowLock, shown, read, applied, audited, faults>>

Audits(c) ==
    /\ pc[c] = "audit"
    /\ audited' = [audited EXCEPT ![c] = audited[c] + 1]
    /\ Goto(c, "over")
    /\ UNCHANGED <<tableVars, rowLock, shown, read, applied, suggested, faults>>

\* A statement fails; a transaction that is open is rolled back.
Fails(c) ==
    /\ pc[c] \in {"wait", "check", "write", "suggest", "audit"}
    /\ Fault
    /\ rowLock' = IF rowLock[TargetOf[c]] = c
                    THEN [rowLock EXCEPT ![TargetOf[c]] = None] ELSE rowLock
    /\ Goto(c, "error")
    /\ UNCHANGED <<tableVars, shown, read, logVars>>

\* The user repeats the request as it was.
Repeats(c) ==
    /\ pc[c] = "error"
    /\ Goto(c, "shown")
    /\ UNCHANGED <<tableVars, rowLock, shown, read, logVars, faults>>

-----------------------------------------------------------------------------
(* The other writers, each one database transaction.                        *)

\* transferConfirmed() takes the row lock and writes only a successor without data.  A
\* predecessor without a row hands over its tags alone, and no version tells of them.
Transfers(t, u) ==
    /\ t # u /\ rowLock[t] = None /\ rowLock[u] = None
    /\ state[t].version = 0 /\ tags[t] = {}
    /\ \/ /\ state[u].version > 0
          /\ state' = [state EXCEPT ![t] = [version |-> 1, content |-> state[u].content]]
       \/ state[u].version = 0 /\ UNCHANGED state
    /\ tags' = [tags EXCEPT ![t] = tags[u]]
    /\ UNCHANGED <<merchants, rowLock, pc, shown, read, logVars, faults>>

\* mergeMerchants() takes no lock of the transaction.
Merges(m, n) ==
    /\ {m, n} \subseteq merchants /\ m # n
    /\ \A t \in Transactions : state[t].version < MaxVersion
    /\ state' = [t \in Transactions |->
                   IF state[t].content.merchant = Set(m)
                     THEN [version |-> state[t].version + 1,
                           content |-> Renamed(state[t].content, m, n)]
                     ELSE state[t]]
    /\ merchants' = merchants \ {m}
    /\ UNCHANGED <<tags, rowLock, pc, shown, read, logVars, faults>>

\* evaluateTransaction() changes tags under the row lock, and no version.
Retags(t) ==
    /\ rowLock[t] = None
    /\ \E g \in Tags : tags' = [tags EXCEPT ![t] = IF g \in tags[t] THEN tags[t] \ {g}
                                                   ELSE tags[t] \cup {g}]
    /\ UNCHANGED <<state, merchants, rowLock, pc, shown, read, logVars, faults>>

Next ==
    \/ \E c \in Corrections : \/ Shows(c) \/ Reads(c) \/ Locks(c) \/ Checks(c)
                              \/ Writes(c) \/ Suggests(c) \/ Audits(c)
                              \/ Fails(c) \/ Repeats(c)
    \/ \E t, u \in Transactions : Transfers(t, u)
    \/ \E m, n \in Merchants : Merges(m, n)
    \/ \E t \in Transactions : Retags(t)

Spec == Init /\ [][Next]_vars

-----------------------------------------------------------------------------
(* Properties.                                                              *)

\* The rows are a versioned register: every change is a patch of the content it
\* replaces, a transfer into an empty row or a renaming, with a new version.  No
\* writer that waited for a lock stores a patch of an older content.
Register == INSTANCE VersionedState WITH
              register <- state, Patches <- {PatchOf[c] : c \in Corrections}
ImplementsRegister == Register!Spec

\* A correction changes only the row its user was shown, so what another user, a
\* transfer or a merge stored in between is never lost, and changes it once, however
\* often it is repeated after a failure or a lost answer.
OnlyTheShownIsReplaced ==
    [][\A c \in Corrections : applied'[c] # applied[c] =>
         applied[c] = 0 /\ state[TargetOf[c]] = shown[c]]_vars
=============================================================================
