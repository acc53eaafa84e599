--------------------------- MODULE MCLedger_proofs ---------------------------
(***************************************************************************)
(* What the parts of MCLedger promise, for any constants. Each has an       *)
(* inductive invariant of its own: StateInv for corrections, LinkInv for    *)
(* replacements, RoleInv for roles, MerchantInv for merchants and SeriesInv *)
(* for series.                                                              *)
(*                                                                           *)
(* Corrections implement the versioned register. The argument: versions     *)
(* only grow, so that a row which still has the version somebody read is    *)
(* the row that was read.                                                   *)
(***************************************************************************)
EXTENDS MCLedger, FiniteFacts, FiniteSetTheorems, TLAPS

AnyRow == [version : Nat, content : Content]

StateTypes ==
    /\ state \in [Transactions -> AnyRow]
    /\ rowLock \in [Transactions -> Corrections \cup {None}]
    /\ pc \in [Corrections -> Place]
    /\ shown \in [Corrections -> AnyRow]
    /\ read \in [Corrections -> AnyRow]
    /\ applied \in [Corrections -> Nat]

\* A row somebody has seen is older than the present one, or is the present one.
Past(seen, row) == seen.version < row.version \/ seen = row

ReadIsPast == \A c \in Corrections : pc[c] # "idle" => Past(shown[c], state[TargetOf[c]])
                                     /\ (pc[c] # "shown" => Past(read[c], state[TargetOf[c]]))

\* A correction about to write has read the version its user was shown.
CheckedIsShown ==
    \A c \in Corrections : pc[c] = "write" => read[c].version = shown[c].version

\* After a correction's write the row is newer than what its user was shown.
AppliedIsNewer ==
    \A c \in Corrections : applied[c] # 0 =>
      pc[c] # "idle" /\ shown[c].version < state[TargetOf[c]].version

StateInv == StateTypes /\ ReadIsPast /\ CheckedIsShown /\ AppliedIsNewer

-----------------------------------------------------------------------------
\* Every patch yields a content of the table.
LEMMA PatchedType ==
  ASSUME NEW patch \in Patch, NEW content \in Content PROVE Patched(patch, content) \in Content
<1> USE CorrectionAssumption DEF Override, Off, Set
<1>1. Resolve(patch.category, content.category) \in Override(Categories \cup {None})
  BY DEF Patch, Content, Resolve
<1>2. Resolve(patch.merchant, content.merchant) \in Override(Merchants \cup {None})
  BY DEF Patch, Content, Resolve
<1>3. Resolve(patch.role, content.role) \in Override(Roles)
  BY DEF Patch, Content, Resolve
<1> QED
  BY <1>1, <1>2, <1>3 DEF Patched, Content

\* What a correction writes is a row with the next version.
LEMMA WrittenType ==
  ASSUME StateTypes, NEW c \in Corrections PROVE Written(c) \in AnyRow
<1>1. PatchOf[c] \in Patch /\ read[c] \in AnyRow
  BY CorrectionAssumption DEF StateTypes
<1>2. Patched(PatchOf[c], read[c].content) \in Content
  BY <1>1, PatchedType DEF AnyRow
<1>3. read[c].version + 1 \in Nat
  BY <1>1 DEF AnyRow
<1> QED
  BY <1>2, <1>3 DEF Written, AnyRow

\* A renamed content is a content, and another one if it named the merchant.
LEMMA RenamedType ==
  ASSUME NEW content \in Content, NEW m \in Merchants, NEW n \in Merchants, m # n
  PROVE  /\ Renamed(content, m, n) \in Content
         /\ content.merchant = Set(m) <=> Renamed(content, m, n) # content
<1>1. Set(n) \in Override(Merchants \cup {None}) /\ Set(n) # Set(m)
  BY DEF Override, Set
<1> QED
  BY <1>1 DEF Renamed, Content

\* A correction that may write finds the row it read, which its user was shown.
LEMMA WritesOnWhatItRead ==
  ASSUME StateInv, NEW c \in Corrections, pc[c] = "write", MayWrite(c)
  PROVE  read[c] = state[TargetOf[c]] /\ shown[c] = state[TargetOf[c]]
<1>1. TargetOf[c] \in Transactions
  BY CorrectionAssumption
<1>2. /\ state[TargetOf[c]].version \in Nat
      /\ state[TargetOf[c]].version = shown[c].version
      /\ read[c].version = shown[c].version
  BY <1>1 DEF StateInv, StateTypes, CheckedIsShown, MayWrite, AnyRow
<1> QED
  BY <1>2 DEF StateInv, ReadIsPast, Past

-----------------------------------------------------------------------------
\* StateInv holds of an empty table.
LEMMA InitState == Init => StateInv
<1> SUFFICES ASSUME Init PROVE StateInv
  OBVIOUS
<1>1. NoRow \in AnyRow
  BY DEF NoRow, AnyRow, Blank, Content, Override
<1> QED
  BY <1>1 DEF Init, StateInv, StateTypes, ReadIsPast, CheckedIsShown, AppliedIsNewer, Place

\* A step that leaves the rows alone and the corrections where they are in time.
LEMMA SameRows ==
  ASSUME StateInv, NEW c \in Corrections, NEW place \in Place \ {"idle", "shown", "write"},
         pc[c] \notin {"idle", "shown"}, Goto(c, place),
         rowLock' \in [Transactions -> Corrections \cup {None}],
         UNCHANGED <<state, shown, read, applied>>
  PROVE  StateInv'
  BY DEF StateInv, StateTypes, ReadIsPast, CheckedIsShown, AppliedIsNewer, Goto

\* A step that makes rows newer, and changes nothing that corrections remember.
LEMMA NewerRows ==
  ASSUME StateInv, UNCHANGED <<pc, shown, read, applied, rowLock>>,
         state' \in [Transactions -> AnyRow],
         \A t \in Transactions : state'[t] = state[t] \/ state[t].version < state'[t].version
  PROVE  StateInv'
<1> USE DEF StateInv
<1>1. \A t \in Transactions : state[t].version \in Nat /\ state'[t].version \in Nat
  BY DEF StateTypes, AnyRow
<1>2. \A c \in Corrections : /\ TargetOf[c] \in Transactions
                             /\ read[c].version \in Nat /\ shown[c].version \in Nat
  BY CorrectionAssumption DEF StateTypes, AnyRow
<1>3. StateTypes'
  BY DEF StateTypes
<1>4. ReadIsPast'
  BY <1>1, <1>2 DEF ReadIsPast, Past
<1>5. CheckedIsShown'
  BY DEF CheckedIsShown
<1>6. AppliedIsNewer'
  BY <1>1, <1>2 DEF AppliedIsNewer
<1> QED
  BY <1>3, <1>4, <1>5, <1>6

\* The write of a correction makes its row newer by one.
LEMMA WriteKeepsInv ==
  ASSUME StateInv, NEW c \in Corrections, Writes(c), MayWrite(c) PROVE StateInv'
<1> DEFINE t == TargetOf[c]
<1>1. t \in Transactions /\ pc[c] = "write"
  BY CorrectionAssumption DEF Writes
<1>2. read[c] = state[t] /\ shown[c] = state[t]
  BY <1>1, WritesOnWhatItRead
<1>3. /\ state' = [state EXCEPT ![t] = Written(c)]
      /\ applied' = [applied EXCEPT ![c] = applied[c] + 1]
      /\ UNCHANGED <<shown, read>>
      /\ rowLock' = [rowLock EXCEPT ![t] = None]
      /\ \E p \in {"suggest", "audit", "error"} : Goto(c, p)
  BY DEF Writes, Unlock
<1>4. Written(c) \in AnyRow /\ Written(c).version = state[t].version + 1
  BY <1>2, WrittenType DEF Written, StateInv
<1>5. /\ \A u \in Transactions : state[u].version \in Nat /\ state'[u].version \in Nat
      /\ state[t].version < state'[t].version
      /\ \A u \in Transactions \ {t} : state'[u] = state[u]
  BY <1>1, <1>3, <1>4 DEF StateInv, StateTypes, AnyRow
<1>6. \A d \in Corrections : /\ TargetOf[d] \in Transactions
                             /\ read[d].version \in Nat /\ shown[d].version \in Nat
  BY CorrectionAssumption DEF StateInv, StateTypes, AnyRow
<1>7. StateTypes'
  BY <1>1, <1>3, <1>4 DEF StateInv, StateTypes, Goto, Place
<1>8. ReadIsPast'
  <2> SUFFICES ASSUME NEW d \in Corrections, pc'[d] # "idle"
               PROVE  /\ Past(shown[d], state'[TargetOf[d]])
                      /\ pc'[d] # "shown" => Past(read[d], state'[TargetOf[d]])
    BY <1>3 DEF ReadIsPast
  <2>1. pc[d] # "idle" /\ (pc'[d] # "shown" => pc[d] # "shown")
    BY <1>1, <1>3 DEF Goto, StateInv, StateTypes
  <2>2. /\ Past(shown[d], state[TargetOf[d]])
        /\ pc'[d] # "shown" => Past(read[d], state[TargetOf[d]])
    BY <2>1 DEF StateInv, ReadIsPast
  <2> QED
    BY <2>2, <1>5, <1>6 DEF Past
<1>9. CheckedIsShown'
  BY <1>1, <1>3 DEF StateInv, StateTypes, CheckedIsShown, Goto
<1>10. AppliedIsNewer'
  <2> SUFFICES ASSUME NEW d \in Corrections, applied'[d] # 0
               PROVE  pc'[d] # "idle" /\ shown[d].version < state'[TargetOf[d]].version
    BY <1>3 DEF AppliedIsNewer
  <2>1. CASE d = c
    BY <2>1, <1>1, <1>2, <1>3, <1>5 DEF Goto, StateInv, StateTypes
  <2>2. CASE d # c
    <3>1. applied[d] # 0 /\ pc'[d] = pc[d]
      BY <2>2, <1>3 DEF Goto, StateInv, StateTypes
    <3>2. pc[d] # "idle" /\ shown[d].version < state[TargetOf[d]].version
      BY <3>1 DEF StateInv, AppliedIsNewer
    <3> QED
      BY <3>1, <3>2, <1>5, <1>6
  <2> QED
    BY <2>1, <2>2
<1> QED
  BY <1>7, <1>8, <1>9, <1>10 DEF StateInv

-----------------------------------------------------------------------------
\* No step breaks StateInv.
LEMMA StepState == ASSUME StateInv, [Next]_vars PROVE StateInv'
<1>1. CASE UNCHANGED vars
  BY <1>1 DEF vars, tableVars, logVars, StateInv, StateTypes, ReadIsPast, CheckedIsShown,
              AppliedIsNewer
<1>2. ASSUME NEW c \in Corrections, Shows(c) PROVE StateInv'
  <2>1. TargetOf[c] \in Transactions
    BY CorrectionAssumption
  <2> QED
    BY <1>2, <2>1 DEF Shows, Goto, tableVars, logVars, StateInv, StateTypes, ReadIsPast, Past,
                      CheckedIsShown, AppliedIsNewer, Place
<1>3. ASSUME NEW c \in Corrections, Reads(c) PROVE StateInv'
  <2>1. TargetOf[c] \in Transactions
    BY CorrectionAssumption
  <2> QED
    BY <1>3, <2>1 DEF Reads, Goto, tableVars, logVars, StateInv, StateTypes, ReadIsPast, Past,
                      CheckedIsShown, AppliedIsNewer, Place
<1>4. ASSUME NEW c \in Corrections, Locks(c) PROVE StateInv'
  BY <1>4, SameRows DEF Locks, Place, tableVars, logVars, StateInv, StateTypes
<1>5. ASSUME NEW c \in Corrections, Checks(c) PROVE StateInv'
  <2>1. CASE Goto(c, "write") /\ UNCHANGED rowLock /\ read[c].version = shown[c].version
    BY <1>5, <2>1 DEF Checks, Goto, tableVars, logVars, StateInv, StateTypes, ReadIsPast,
                      CheckedIsShown, AppliedIsNewer, Place
  <2>2. CASE Goto(c, "error") /\ Unlock(c)
    BY <1>5, <2>2, SameRows
    DEF Checks, Unlock, Place, tableVars, logVars, StateInv, StateTypes
  <2> QED
    BY <1>5, <2>1, <2>2 DEF Checks
<1>6. ASSUME NEW c \in Corrections, Writes(c) PROVE StateInv'
  <2>1. CASE MayWrite(c)
    BY <1>6, <2>1, WriteKeepsInv
  <2>2. CASE ~MayWrite(c)
    BY <1>6, <2>2, SameRows DEF Writes, Unlock, Place, StateInv, StateTypes
  <2> QED
    BY <2>1, <2>2
<1>7. ASSUME NEW c \in Corrections, Suggests(c) PROVE StateInv'
  BY <1>7, SameRows DEF Suggests, Place, tableVars, StateInv, StateTypes
<1>8. ASSUME NEW c \in Corrections, Audits(c) PROVE StateInv'
  BY <1>8, SameRows DEF Audits, Place, tableVars, StateInv, StateTypes
<1>9. ASSUME NEW c \in Corrections, Fails(c) PROVE StateInv'
  BY <1>9, SameRows DEF Fails, Place, tableVars, logVars, StateInv, StateTypes
<1>10. ASSUME NEW c \in Corrections, Repeats(c) PROVE StateInv'
  BY <1>10 DEF Repeats, Goto, tableVars, logVars, StateInv, StateTypes, ReadIsPast,
               CheckedIsShown, AppliedIsNewer, Place
<1>11. ASSUME NEW t \in Transactions, NEW u \in Transactions, Transfers(t, u) PROVE StateInv'
  <2>1. [version |-> 1, content |-> state[u].content] \in AnyRow
    BY DEF StateInv, StateTypes, AnyRow
  <2> QED
    BY <1>11, <2>1, NewerRows DEF Transfers, logVars, StateInv, StateTypes
<1>12. ASSUME NEW m \in Merchants, NEW n \in Merchants, Merges(m, n) PROVE StateInv'
  <2>1. \A t \in Transactions : state[t] \in AnyRow /\ Renamed(state[t].content, m, n) \in Content
    BY <1>12, RenamedType DEF Merges, StateInv, StateTypes, AnyRow
  <2>2. \A t \in Transactions : [version |-> state[t].version + 1,
                               content |-> Renamed(state[t].content, m, n)] \in AnyRow
    BY <2>1 DEF AnyRow
  <2>3. state' \in [Transactions -> AnyRow]
    BY <1>12, <2>1, <2>2 DEF Merges
  <2>4. \A t \in Transactions : state'[t] = state[t] \/ state[t].version < state'[t].version
    BY <1>12, <2>1 DEF Merges, AnyRow
  <2> QED
    BY <1>12, <2>3, <2>4, NewerRows DEF Merges, logVars
<1>13. ASSUME NEW t \in Transactions, Retags(t) PROVE StateInv'
  BY <1>13, NewerRows DEF Retags, logVars, StateInv, StateTypes
<1> QED
  BY <1>1, <1>2, <1>3, <1>4, <1>5, <1>6, <1>7, <1>8, <1>9, <1>10, <1>11, <1>12, <1>13 DEF Next

-----------------------------------------------------------------------------
\* Every step is a step of the register or leaves it alone.
LEMMA StepRegister == ASSUME StateInv, [Next]_vars PROVE [Register!Next]_state
<1>1. ASSUME NEW c \in Corrections, Writes(c), MayWrite(c) PROVE Register!Next
  <2>1. TargetOf[c] \in Transactions /\ PatchOf[c] \in {PatchOf[d] : d \in Corrections}
    BY CorrectionAssumption
  <2>2. read[c] = state[TargetOf[c]]
    BY <1>1, WritesOnWhatItRead DEF Writes
  <2>3. Register!Patch(TargetOf[c])
    BY <1>1, <2>1, <2>2 DEF Writes, Written, Register!Patch, Register!Bumped
  <2> QED
    BY <2>1, <2>3 DEF Register!Next
<1>2. ASSUME NEW t \in Transactions, NEW u \in Transactions, Transfers(t, u), state' # state
      PROVE  Register!Next
  <2>1. Register!TakeOver(t)
    <3>1. t # u /\ state[t].version = 0
      BY <1>2 DEF Transfers
    <3>2. Register!Bumped(t, state[u].content) = [version |-> 1, content |-> state[u].content]
      BY <3>1 DEF Register!Bumped
    <3>3. state' = [state EXCEPT ![t] = Register!Bumped(t, state[u].content)]
      BY <1>2, <3>2 DEF Transfers
    <3> QED
      BY <3>1, <3>3 DEF Register!TakeOver
  <2> QED
    BY <2>1 DEF Register!Next
<1>3. ASSUME NEW m \in Merchants, NEW n \in Merchants, Merges(m, n) PROVE Register!Next
  <2>1. \A t \in Transactions : state[t].content.merchant = Set(m)
                                <=> Renamed(state[t].content, m, n) # state[t].content
    BY <1>3, RenamedType DEF Merges, StateInv, StateTypes, AnyRow
  <2>2. Register!Rename(m, n)
    BY <1>3, <2>1 DEF Merges, Register!Rename, Register!Bumped
  <2> QED
    BY <2>2 DEF Register!Next
<1>4. CASE UNCHANGED state
  BY <1>4
<1> QED
  BY <1>1, <1>2, <1>3, <1>4
  DEF Next, vars, tableVars, Shows, Reads, Locks, Checks, Writes, Suggests, Audits, Fails, Repeats,
      Retags

\* The table of user states implements the versioned register: whatever users, transfers
\* and merges interleave, each change has a new version and is made of what it replaces.
THEOREM StateImplementsRegister == Spec => ImplementsRegister
<1>1. Init => Register!Init
  BY DEF Init, NoRow, Register!Init
<1>2. StateInv /\ [Next]_vars => StateInv'
  BY StepState
<1>3. StateInv /\ [Next]_vars => [Register!Next]_state
  BY StepRegister
<1> QED
  BY <1>1, <1>2, <1>3, InitState, PTL DEF Spec, ImplementsRegister, Register!Spec

\* A correction, however often repeated, is written once and only over the row its user
\* was shown.
THEOREM ShownIsReplaced == Spec => OnlyTheShownIsReplaced
<1> DEFINE Replaced(c) == applied'[c] # applied[c] =>
                            applied[c] = 0 /\ state[TargetOf[c]] = shown[c]
<1>1. ASSUME StateInv, [Next]_vars, NEW c \in Corrections, applied'[c] # applied[c]
      PROVE  applied[c] = 0 /\ state[TargetOf[c]] = shown[c]
  <2>1. Writes(c) /\ MayWrite(c)
    <3>1. \E d \in Corrections : Writes(d) /\ MayWrite(d)
                               /\ applied' = [applied EXCEPT ![d] = applied[d] + 1]
      BY <1>1 DEF Next, vars, logVars, Shows, Reads, Locks, Checks, Writes, Suggests, Audits,
                  Fails, Repeats, Transfers, Merges, Retags
    <3> QED
      BY <3>1, <1>1 DEF StateInv, StateTypes
  <2>2. shown[c] = state[TargetOf[c]]
    BY <1>1, <2>1, WritesOnWhatItRead DEF Writes
  <2>3. TargetOf[c] \in Transactions /\ state[TargetOf[c]].version \in Nat
    BY <1>1, CorrectionAssumption DEF StateInv, StateTypes, AnyRow
  <2>4. applied[c] = 0
    BY <1>1, <2>2, <2>3 DEF StateInv, AppliedIsNewer
  <2> QED
    BY <2>2, <2>4
<1>2. StateInv /\ [Next]_vars => StateInv'
  BY StepState
<1>3. StateInv /\ [Next]_vars => [\A c \in Corrections : Replaced(c)]_vars
  BY <1>1
<1> QED
  BY <1>2, <1>3, InitState, PTL DEF Spec, OnlyTheShownIsReplaced, Replaced

-----------------------------------------------------------------------------
\* Types: every writer stores a content of the table with a version within its bound.
LEMMA TypeInit == Init => TypeOK
<1>1. NoRow \in StateRow
  BY CorrectionAssumption DEF NoRow, StateRow, Blank, Content, Override
<1> QED
  BY <1>1, CorrectionAssumption DEF Init, TypeOK, Place

\* A step of a correction that writes no row.
LEMMA StepsKeepTypes ==
  ASSUME TypeOK, NEW c \in Corrections,
         \/ Shows(c) \/ Reads(c) \/ Locks(c) \/ Checks(c) \/ Suggests(c) \/ Audits(c)
         \/ Fails(c) \/ Repeats(c)
  PROVE  TypeOK'
<1> USE DEF TypeOK, Goto, Unlock, tableVars, logVars, Place
<1>1. TargetOf[c] \in Transactions /\ MaxFaults \in Nat
  BY CorrectionAssumption
<1>2. CASE Shows(c) \/ Reads(c)
  BY <1>1, <1>2 DEF Shows, Reads
<1>3. CASE Locks(c) \/ Repeats(c)
  BY <1>1, <1>3 DEF Locks, Repeats
<1>4. CASE Checks(c)
  BY <1>1, <1>4 DEF Checks
<1>5. CASE Suggests(c)
  BY <1>1, <1>5 DEF Suggests
<1>6. CASE Audits(c)
  BY <1>1, <1>6 DEF Audits
<1>7. CASE Fails(c)
  BY <1>1, <1>7 DEF Fails, Fault
<1> QED
  BY <1>2, <1>3, <1>4, <1>5, <1>6, <1>7

LEMMA WriteKeepsTypes ==
  ASSUME TypeOK, NEW c \in Corrections, Writes(c)
  PROVE  TypeOK'
<1> DEFINE t == TargetOf[c]
<1>1. /\ t \in Transactions /\ PatchOf[c] \in Patch /\ MaxFaults \in Nat /\ MaxVersion \in Nat
      /\ TagsOf[c] \in (SUBSET Tags) \cup {Keep}
  BY CorrectionAssumption
<1>2. Written(c) \in StateRow
  <2>1. read[c] \in StateRow /\ read[c].version < MaxVersion
    BY DEF TypeOK, Writes
  <2>2. read[c].version + 1 \in 0..MaxVersion
    BY <1>1, <2>1 DEF StateRow
  <2>3. Patched(PatchOf[c], read[c].content) \in Content
    BY <1>1, <2>1, PatchedType DEF StateRow
  <2> QED
    BY <2>2, <2>3 DEF Written, StateRow
<1>3. state' \in [Transactions -> StateRow]
  BY <1>1, <1>2 DEF TypeOK, Writes
<1>4. tags' \in [Transactions -> SUBSET Tags]
  BY <1>1 DEF TypeOK, Writes
<1>5. applied' \in [Corrections -> Nat] /\ faults' \in 0..MaxFaults
  BY <1>1 DEF TypeOK, Writes, Fault
<1>6. pc' \in [Corrections -> Place] /\ rowLock' \in [Transactions -> Corrections \cup {None}]
  BY <1>1 DEF TypeOK, Writes, Goto, Unlock, Place
<1> QED
  BY <1>3, <1>4, <1>5, <1>6 DEF TypeOK, Writes

LEMMA TypeStep == ASSUME TypeOK, [Next]_vars PROVE TypeOK'
<1>1. CASE UNCHANGED vars
  BY <1>1 DEF vars, tableVars, logVars, TypeOK
<1>2. ASSUME NEW t \in Transactions, NEW u \in Transactions, Transfers(t, u) PROVE TypeOK'
  <2>1. state[u].version > 0 => [version |-> 1, content |-> state[u].content] \in StateRow
    BY <1>2, CorrectionAssumption DEF Transfers, TypeOK, StateRow
  <2>2. state' \in [Transactions -> StateRow] /\ tags' \in [Transactions -> SUBSET Tags]
    BY <1>2, <2>1 DEF Transfers, TypeOK
  <2> QED
    BY <1>2, <2>2 DEF Transfers, TypeOK, logVars
<1>3. ASSUME NEW m \in Merchants, NEW n \in Merchants, Merges(m, n) PROVE TypeOK'
  <2>1. ASSUME NEW t \in Transactions
        PROVE  [version |-> state[t].version + 1, content |-> Renamed(state[t].content, m, n)]
                 \in StateRow
    <3>1. /\ state[t].content \in Content /\ state[t].version \in 0..MaxVersion
          /\ state[t].version < MaxVersion /\ MaxVersion \in Nat /\ m # n
      BY <1>3, CorrectionAssumption DEF Merges, TypeOK, StateRow
    <3>2. Renamed(state[t].content, m, n) \in Content
      BY <3>1, RenamedType
    <3>3. state[t].version + 1 \in 0..MaxVersion
      BY <3>1
    <3> QED
      BY <3>2, <3>3 DEF StateRow
  <2>2. state' \in [Transactions -> StateRow]
    BY <1>3, <2>1 DEF Merges, TypeOK
  <2> QED
    BY <1>3, <2>2 DEF Merges, TypeOK, logVars
<1>4. ASSUME NEW t \in Transactions, Retags(t) PROVE TypeOK'
  <2>1. tags' \in [Transactions -> SUBSET Tags]
    BY <1>4 DEF Retags, TypeOK
  <2> QED
    BY <1>4, <2>1 DEF Retags, TypeOK, logVars
<1> QED
  BY <1>1, <1>2, <1>3, <1>4, StepsKeepTypes, WriteKeepsTypes DEF Next

-----------------------------------------------------------------------------
(***************************************************************************)
(* Replacements.  The runs of a connection hold its lock, so that only one   *)
(* detects and transfers at a time; reviewers hold no lock.  A link whose     *)
(* data has moved is confirmed, and stays so, since only a link that nobody   *)
(* has transferred is sent back to review.                                   *)
(***************************************************************************)

\* A link's data moves once, and only over a link that is confirmed then; a user who
\* confirms moves it, and a link confirmed by policy is left to the run that confirmed it.
LinksMove ==
    \A l \in Re!Pair :
      /\ transferred[l] <= 1
      /\ transferred[l] > 0 => link[l] \in Re!Confirmed
      /\ link[l] = "USER_CONFIRMED" => transferred[l] > 0
      /\ link[l] = "AUTO_CONFIRMED" /\ transferred[l] = 0 =>
           \E r \in Runs : l \in auto[r] \/ sync[r] \in {"dead", "failed"}

\* A run that works holds the lock.
OneRunWorks == \A r \in Runs : sync[r] \in {"running", "detect", "transfer"} => syncLock = r

\* A run has links to transfer once it has detected; the one it is about to demote has
\* not been transferred, unless a user has confirmed it since.
WorkOfRun(r) ==
    /\ sync[r] \in {"idle", "running", "detect"} => auto[r] = {}
    /\ clash[r] # None =>
         /\ sync[r] = "transfer" /\ clash[r] \in auto[r]
         /\ link[clash[r]] = "AUTO_CONFIRMED" => transferred[clash[r]] = 0

LinkInv ==
    /\ Re!TypeOK
    /\ Re!OneActivePerPredecessor(link)
    /\ LinksMove
    /\ OneRunWorks
    /\ \A r \in Runs : WorkOfRun(r)

\* LinkInv says that links and transfers agree.
LEMMA LinkInvSuffices == LinkInv => Re!TransfersMatchLinks
<1> SUFFICES ASSUME LinkInv PROVE Re!TransfersMatchLinks
  OBVIOUS
<1> USE ReplacementAssumption DEF LinkInv, LinksMove, Re!TypeOK
<1>1. Re!TransferredOnce
  BY DEF Re!TransferredOnce, Re!OneActivePerPredecessor
<1>2. Re!TransferredStaysConfirmed
  BY DEF Re!TransferredStaysConfirmed
<1>3. Re!ConfirmedIsTransferred
  BY DEF Re!ConfirmedIsTransferred, Re!Confirmed
<1> QED
  BY <1>1, <1>2, <1>3 DEF Re!TransfersMatchLinks

\* Before any run there are no links.
LEMMA LinkInit == Re!Init => LinkInv
<1> SUFFICES ASSUME Re!Init PROVE LinkInv
  OBVIOUS
<1>1. Re!TypeOK
  BY ReplacementAssumption DEF Re!Init, Re!TypeOK, Re!Stored, Re!Place
<1>2. Re!OneActivePerPredecessor(link)
  BY ReplacementAssumption DEF Re!Init, Re!OneActivePerPredecessor, Re!LinkStatus
<1>3. LinksMove
  BY ReplacementAssumption DEF Re!Init, LinksMove, Re!LinkStatus, Re!Confirmed
<1>4. OneRunWorks /\ \A r \in Runs : WorkOfRun(r)
  BY DEF Re!Init, OneRunWorks, WorkOfRun
<1> QED
  BY <1>1, <1>2, <1>3, <1>4 DEF LinkInv

-----------------------------------------------------------------------------
\* Rows and edits: the links and the runs stay as they are.
LEMMA LinksRest ==
  ASSUME LinkInv, Re!TypeOK', UNCHANGED <<link, transferred, auto, clash, sync, syncLock>>
  PROVE  LinkInv'
  BY DEF LinkInv, LinksMove, OneRunWorks, WorkOfRun, Re!OneActivePerPredecessor

\* The types of what replacements write.
LEMMA RowTypes ==
  ASSUME Re!TypeOK, NEW t \in Re!Stored,
         \/ t \in Old /\ (Re!Deletes(t) \/ Re!Reappears(t))
         \/ t \in New /\ Re!Creates(t)
         \/ Re!Edits(t)
  PROVE  Re!TypeOK'
<1> USE ReplacementAssumption DEF Re!TypeOK, Re!Stored, Re!userVars, Re!linkVars, Re!runVars,
          Re!rowVars
<1>0. Re!Running \subseteq Runs
  BY DEF Re!Running
<1>1. CASE t \in Old /\ Re!Deletes(t)
  BY <1>0, <1>1 DEF Re!Deletes
<1>2. CASE t \in Old /\ Re!Reappears(t)
  BY <1>0, <1>2 DEF Re!Reappears
<1>3. CASE t \in New /\ Re!Creates(t)
  BY <1>0, <1>3 DEF Re!Creates
<1>4. CASE Re!Edits(t)
  <2>1. userData' \in [Re!Stored -> Re!Stored \cup {None}]
    BY <1>4 DEF Re!Edits
  <2>2. userTags' \in [Re!Stored -> SUBSET Tags]
    BY <1>4 DEF Re!Edits
  <2>3. userEdits' \in 0..MaxEdits
    BY <1>4 DEF Re!Edits
  <2> QED
    BY <1>4, <2>1, <2>2, <2>3 DEF Re!Edits
<1> QED
  BY <1>1, <1>2, <1>3, <1>4

\* A run that starts or completes its import has nothing to transfer yet.
LEMMA RunBegins ==
  ASSUME LinkInv, NEW r \in Runs, Re!Start(r) \/ Re!Completes(r)
  PROVE  LinkInv'
<1> USE ReplacementAssumption DEF LinkInv
<1>1. PICK place \in {"running", "detect"} :
        /\ sync' = [sync EXCEPT ![r] = place]
        /\ sync[r] \in {"idle", "running"}
        /\ syncLock' = r
  BY DEF Re!Start, Re!Completes, OneRunWorks
<1>2. UNCHANGED <<live, deletedIn, createdIn, deletions, userData, userTags, link, transferred,
                  auto, clash, userEdits, deaths>>
  BY DEF Re!Start, Re!Completes, Re!rowVars, Re!userVars, Re!linkVars
<1>3. Re!TypeOK'
  BY <1>1, <1>2 DEF Re!TypeOK, Re!Place
<1>4. \A s \in Runs : sync'[s] = IF s = r THEN place ELSE sync[s]
  BY <1>1 DEF Re!TypeOK
<1>5. Re!OneActivePerPredecessor(link)' /\ LinksMove'
  BY <1>1, <1>2, <1>4 DEF Re!OneActivePerPredecessor, LinksMove
<1>6. OneRunWorks'
  BY <1>1, <1>4 DEF OneRunWorks, Re!Start, Re!Completes
<1>7. \A s \in Runs : WorkOfRun(s)'
  BY <1>1, <1>2, <1>4 DEF WorkOfRun
<1> QED
  BY <1>3, <1>5, <1>6, <1>7

\* A run that ends: what it leaves unfinished is its death or failure's.
LEMMA RunEnds ==
  ASSUME LinkInv, NEW r \in Runs, NEW place \in {"over", "failed", "dead"},
         sync[r] \in {"running", "detect", "transfer"},
         Re!Ended(r, place), clash'[r] = None,
         place = "over" => auto[r] = {},
         auto' = auto \/ auto' = [auto EXCEPT ![r] = {}],
         clash' = clash \/ clash' = [clash EXCEPT ![r] = None],
         UNCHANGED <<live, deletedIn, createdIn, deletions, userData, userTags, link,
                     transferred, userEdits>>,
         deaths' \in 0..MaxDeaths
  PROVE  LinkInv'
<1> USE ReplacementAssumption DEF LinkInv
<1>1. \A s \in Runs : sync'[s] = IF s = r THEN place ELSE sync[s]
  BY DEF Re!TypeOK, Re!Ended
<1>2. Re!TypeOK'
  BY DEF Re!TypeOK, Re!Ended, Re!Place
<1>3. /\ \A s \in Runs \ {r} : auto'[s] = auto[s] /\ clash'[s] = clash[s]
      /\ auto'[r] \in {auto[r], {}}
  BY DEF Re!TypeOK
<1>4. Re!OneActivePerPredecessor(link)'
  BY DEF Re!OneActivePerPredecessor
<1>5. LinksMove'
  BY <1>1, <1>3 DEF LinksMove
<1>6. OneRunWorks'
  BY <1>1 DEF OneRunWorks, Re!Ended
<1>7. \A s \in Runs : WorkOfRun(s)'
  BY <1>1, <1>3 DEF WorkOfRun
<1> QED
  BY <1>2, <1>4, <1>5, <1>6, <1>7

\* Detection: the links it confirms are its own to transfer.
LEMMA DetectKeeps == ASSUME LinkInv, NEW r \in Runs, Re!Detect(r) PROVE LinkInv'
<1> USE ReplacementAssumption DEF LinkInv
<1>0. /\ sync[r] = "detect" /\ auto[r] = {} /\ clash[r] = None /\ syncLock = r
      /\ UNCHANGED <<live, deletedIn, createdIn, deletions, userData, userTags, userEdits,
                     transferred, clash, deaths>>
  BY DEF Re!Detect, OneRunWorks, WorkOfRun, Re!rowVars, Re!userVars
<1>1. CASE /\ Re!OneActivePerPredecessor(Re!Upserted(r))
           /\ link' = Re!Upserted(r)
           /\ auto' = [auto EXCEPT ![r] = {l \in Re!Candidates(r) : link'[l] = "AUTO_CONFIRMED"}]
           /\ sync' = [sync EXCEPT ![r] = "transfer"]
           /\ UNCHANGED syncLock
  <2>1. \A s \in Runs : sync'[s] = IF s = r THEN "transfer" ELSE sync[s]
    BY <1>1 DEF Re!TypeOK
  <2>2. /\ Re!Candidates(r) \subseteq Re!Pair
        /\ \A s \in Runs : auto'[s] = IF s = r
             THEN {l \in Re!Candidates(r) : link'[l] = "AUTO_CONFIRMED"} ELSE auto[s]
    BY <1>1 DEF Re!TypeOK, Re!Candidates
  <2>3. \A l \in Re!Pair :
          \/ link'[l] = link[l] /\ (l \in Re!Candidates(r) => link[l] \in Re!LinkStatus)
          \/ /\ l \in Re!Candidates(r) /\ link[l] \in {None, "NEEDS_REVIEW"}
             /\ link'[l] \in {"AUTO_CONFIRMED", "NEEDS_REVIEW"}
    BY <1>1 DEF Re!Upserted, Re!Verdict, Re!TypeOK
  <2>4. Re!TypeOK'
    <3>1. link' \in [Re!Pair -> Re!LinkStatus \cup {None}]
      BY <1>1, <2>3 DEF Re!Upserted, Re!TypeOK, Re!LinkStatus, Re!Confirmed
    <3> QED
      BY <1>0, <1>1, <2>2, <3>1 DEF Re!TypeOK, Re!Place
  <2>5. Re!OneActivePerPredecessor(link)'
    BY <1>1 DEF Re!OneActivePerPredecessor
  <2>6. LinksMove'
    <3> SUFFICES ASSUME NEW l \in Re!Pair
                 PROVE  /\ transferred'[l] <= 1
                        /\ transferred'[l] > 0 => link'[l] \in Re!Confirmed
                        /\ link'[l] = "USER_CONFIRMED" => transferred'[l] > 0
                        /\ link'[l] = "AUTO_CONFIRMED" /\ transferred'[l] = 0 =>
                             \E s \in Runs : l \in auto'[s] \/ sync'[s] \in {"dead", "failed"}
      BY DEF LinksMove
    <3>1. CASE link'[l] = link[l]
      BY <1>0, <2>1, <2>2, <3>1 DEF LinksMove
    <3>2. CASE /\ l \in Re!Candidates(r) /\ link[l] \in {None, "NEEDS_REVIEW"}
               /\ link'[l] \in {"AUTO_CONFIRMED", "NEEDS_REVIEW"}
      BY <1>0, <2>2, <3>2 DEF LinksMove, Re!Confirmed, Re!LinkStatus
    <3> QED
      BY <2>3, <3>1, <3>2
  <2>7. OneRunWorks'
    BY <1>0, <1>1, <2>1 DEF OneRunWorks
  <2>8. \A s \in Runs : WorkOfRun(s)'
    <3> SUFFICES ASSUME NEW s \in Runs PROVE WorkOfRun(s)'
      OBVIOUS
    <3>1. clash'[s] = None
      BY <1>0 DEF OneRunWorks, WorkOfRun
    <3> QED
      BY <2>1, <2>2, <3>1 DEF WorkOfRun
  <2> QED
    BY <2>4, <2>5, <2>6, <2>7, <2>8
<1>2. CASE Re!Ended(r, "failed") /\ UNCHANGED <<link, auto>>
  <2>1. deaths' \in 0..MaxDeaths
    BY <1>0 DEF Re!TypeOK
  <2> QED
    BY <1>0, <1>2, <2>1, RunEnds
<1> QED
  BY <1>1, <1>2 DEF Re!Detect

\* What a transfer writes, by a run or by a reviewer.
LEMMA CopyTypes ==
  ASSUME Re!TypeOK, NEW l \in Re!Pair, Re!Copy(l)
  PROVE  /\ userData' \in [Re!Stored -> Re!Stored \cup {None}]
         /\ userTags' \in [Re!Stored -> SUBSET Tags]
         /\ transferred' \in [Re!Pair -> Nat]
         /\ \A k \in Re!Pair : transferred'[k] = IF k = l THEN transferred[l] + 1
                                                          ELSE transferred[k]
<1>1. Re!Predecessor(l) \in Re!Stored /\ Re!Successor(l) \in Re!Stored
  BY ReplacementAssumption DEF Re!Predecessor, Re!Successor, Re!Stored, Re!Pair
<1> QED
  BY <1>1 DEF Re!TypeOK, Re!Copy

\* A run transfers one of its links, or finds that it need not or cannot.
LEMMA TransferKeeps ==
  ASSUME LinkInv, NEW r \in Runs, NEW l \in auto[r], Re!Transfer(r, l) PROVE LinkInv'
<1> USE ReplacementAssumption DEF LinkInv
<1>0. /\ sync[r] = "transfer" /\ clash[r] = None /\ l \in Re!Pair
      /\ UNCHANGED <<live, deletedIn, createdIn, deletions, userEdits, deaths>>
  BY DEF Re!Transfer, Re!rowVars, Re!TypeOK
<1>1. CASE /\ transferred[l] > 0 /\ Re!Done(r, l)
           /\ UNCHANGED <<userData, userTags, link, transferred, sync, syncLock, clash>>
  <2>1. \A s \in Runs : auto'[s] = IF s = r THEN auto[r] \ {l} ELSE auto[s]
    BY <1>1 DEF Re!TypeOK, Re!Done
  <2>2. Re!TypeOK'
    BY <1>0, <1>1 DEF Re!TypeOK, Re!Done
  <2>3. Re!OneActivePerPredecessor(link)' /\ LinksMove'
    BY <1>1, <2>1 DEF Re!OneActivePerPredecessor, LinksMove
  <2>4. OneRunWorks' /\ \A s \in Runs : WorkOfRun(s)'
    BY <1>0, <1>1, <2>1 DEF OneRunWorks, WorkOfRun
  <2> QED
    BY <2>2, <2>3, <2>4
<1>2. CASE /\ Re!Ended(r, "failed")
           /\ UNCHANGED <<userData, userTags, link, transferred, auto, clash>>
  <2>1. deaths' \in 0..MaxDeaths
    BY <1>0 DEF Re!TypeOK
  <2> QED
    BY <1>0, <1>2, <2>1, RunEnds
<1>3. CASE /\ transferred[l] = 0 /\ clash' = [clash EXCEPT ![r] = l]
           /\ UNCHANGED <<userData, userTags, link, transferred, auto, sync, syncLock>>
  <2>1. \A s \in Runs : clash'[s] = IF s = r THEN l ELSE clash[s]
    BY <1>3 DEF Re!TypeOK
  <2>2. Re!TypeOK'
    BY <1>0, <1>3 DEF Re!TypeOK
  <2>3. Re!OneActivePerPredecessor(link)' /\ LinksMove' /\ OneRunWorks'
    BY <1>3 DEF Re!OneActivePerPredecessor, LinksMove, OneRunWorks
  <2>4. \A s \in Runs : WorkOfRun(s)'
    BY <1>0, <1>3, <2>1 DEF WorkOfRun
  <2> QED
    BY <2>2, <2>3, <2>4
<1>4. CASE /\ transferred[l] = 0 /\ link[l] = "AUTO_CONFIRMED"
           /\ Re!Copy(l) /\ Re!Done(r, l)
           /\ UNCHANGED <<link, sync, syncLock, clash>>
  <2>1. \A s \in Runs : auto'[s] = IF s = r THEN auto[r] \ {l} ELSE auto[s]
    BY <1>4 DEF Re!TypeOK, Re!Done
  <2>2. Re!TypeOK'
    <3>1. auto' \in [Runs -> SUBSET Re!Pair]
      BY <1>4 DEF Re!TypeOK, Re!Done
    <3> QED
      BY <1>0, <1>4, <3>1, CopyTypes DEF Re!TypeOK
  <2>3. \A k \in Re!Pair : transferred'[k] = IF k = l THEN 1 ELSE transferred[k]
    BY <1>0, <1>4, CopyTypes
  <2>4. Re!OneActivePerPredecessor(link)' /\ OneRunWorks'
    BY <1>4 DEF Re!OneActivePerPredecessor, OneRunWorks
  <2>5. LinksMove'
    BY <1>4, <2>1, <2>3 DEF LinksMove, Re!Confirmed
  <2>6. \A s \in Runs : WorkOfRun(s)'
    <3> SUFFICES ASSUME NEW s \in Runs PROVE WorkOfRun(s)'
      OBVIOUS
    <3>1. clash'[s] = None
      BY <1>0, <1>4 DEF OneRunWorks, WorkOfRun
    <3> QED
      BY <1>0, <1>4, <2>1, <3>1 DEF WorkOfRun
  <2> QED
    BY <2>2, <2>4, <2>5, <2>6
<1> QED
  BY <1>1, <1>2, <1>3, <1>4 DEF Re!Transfer, Re!linkVars

\* A demoted link goes back to review, unless a user confirmed it in the meantime.
LEMMA DemoteKeeps == ASSUME LinkInv, NEW r \in Runs, Re!Demote(r) PROVE LinkInv'
<1> USE ReplacementAssumption DEF LinkInv
<1> DEFINE l == clash[r]
<1>0. /\ sync[r] = "transfer" /\ l \in auto[r] /\ l \in Re!Pair
      /\ link[l] = "AUTO_CONFIRMED" => transferred[l] = 0
      /\ UNCHANGED <<live, deletedIn, createdIn, deletions, userData, userTags, userEdits,
                     transferred, sync, syncLock, deaths>>
  BY DEF Re!Demote, Re!rowVars, Re!userVars, WorkOfRun, Re!TypeOK
<1>1. /\ \A s \in Runs : auto'[s] = IF s = r THEN auto[r] \ {l} ELSE auto[s]
      /\ \A s \in Runs : clash'[s] = IF s = r THEN None ELSE clash[s]
  BY DEF Re!Demote, Re!Done, Re!TypeOK
<1>2. \A k \in Re!Pair : link'[k] = IF k = l /\ link[l] = "AUTO_CONFIRMED"
                                      THEN "NEEDS_REVIEW" ELSE link[k]
  BY <1>0 DEF Re!Demote, Re!TypeOK
<1>3. Re!TypeOK'
  <2>1. link' \in [Re!Pair -> Re!LinkStatus \cup {None}]
    BY <1>0 DEF Re!Demote, Re!TypeOK, Re!LinkStatus
  <2>2. auto' \in [Runs -> SUBSET Re!Pair] /\ clash' \in [Runs -> Re!Pair \cup {None}]
    BY DEF Re!Demote, Re!Done, Re!TypeOK
  <2> QED
    BY <1>0, <2>1, <2>2 DEF Re!TypeOK
<1> HIDE DEF l
<1>4. Re!OneActivePerPredecessor(link)'
  <2>1. \A k \in Re!Pair : link'[k] \in Re!Confirmed => link[k] \in Re!Confirmed
    BY <1>2 DEF Re!Confirmed
  <2> QED
    BY <2>1 DEF Re!OneActivePerPredecessor
<1>5. LinksMove'
  <2> SUFFICES ASSUME NEW k \in Re!Pair
               PROVE  /\ transferred'[k] <= 1
                      /\ transferred'[k] > 0 => link'[k] \in Re!Confirmed
                      /\ link'[k] = "USER_CONFIRMED" => transferred'[k] > 0
                      /\ link'[k] = "AUTO_CONFIRMED" /\ transferred'[k] = 0 =>
                           \E s \in Runs : k \in auto'[s] \/ sync'[s] \in {"dead", "failed"}
    BY DEF LinksMove
  <2>1. CASE link'[k] = "AUTO_CONFIRMED"
    <3>1. k # l /\ link[k] = "AUTO_CONFIRMED"
      BY <1>2, <2>1
    <3>2. \A s \in Runs : k \in auto[s] => k \in auto'[s]
      BY <1>1, <3>1
    <3> QED
      BY <1>0, <2>1, <3>1, <3>2 DEF LinksMove, Re!Confirmed
  <2>2. CASE link'[k] # "AUTO_CONFIRMED"
    BY <1>0, <1>2, <2>2 DEF LinksMove, Re!Confirmed
  <2> QED
    BY <2>1, <2>2
<1>6. OneRunWorks'
  BY <1>0 DEF OneRunWorks
<1>7. \A s \in Runs : WorkOfRun(s)'
  <2> SUFFICES ASSUME NEW s \in Runs PROVE WorkOfRun(s)'
    OBVIOUS
  <2>1. clash'[s] = None
    BY <1>0, <1>1 DEF OneRunWorks, WorkOfRun
  <2> QED
    BY <1>0, <1>1, <2>1 DEF WorkOfRun
<1> QED
  BY <1>3, <1>4, <1>5, <1>6, <1>7

\* A reviewer confirms a link and moves its data, or rejects one under review.
LEMMA ReviewKeeps ==
  ASSUME LinkInv, NEW l \in Re!Pair, Re!Confirm(l) \/ Re!Reject(l) PROVE LinkInv'
<1> USE ReplacementAssumption DEF LinkInv
<1>0. UNCHANGED <<live, deletedIn, createdIn, deletions, userEdits, auto, clash, sync, syncLock,
                  deaths>>
  BY DEF Re!Confirm, Re!Reject, Re!rowVars, Re!runVars, Re!userVars
<1>1. CASE Re!Confirm(l)
  <2>1. /\ link' = [link EXCEPT ![l] = "USER_CONFIRMED"] /\ transferred[l] = 0
        /\ Re!OneActivePerPredecessor([link EXCEPT ![l] = "USER_CONFIRMED"]) /\ Re!Copy(l)
    BY <1>1 DEF Re!Confirm
  <2>2. /\ \A k \in Re!Pair : transferred'[k] = IF k = l THEN 1 ELSE transferred[k]
        /\ \A k \in Re!Pair : link'[k] = IF k = l THEN "USER_CONFIRMED" ELSE link[k]
    BY <2>1, CopyTypes DEF Re!TypeOK
  <2>3. Re!TypeOK'
    <3>1. link' \in [Re!Pair -> Re!LinkStatus \cup {None}]
      BY <2>1 DEF Re!TypeOK, Re!LinkStatus, Re!Confirmed
    <3> QED
      BY <1>0, <2>1, <3>1, CopyTypes DEF Re!TypeOK
  <2>4. Re!OneActivePerPredecessor(link)'
    BY <2>1 DEF Re!OneActivePerPredecessor
  <2>5. LinksMove'
    BY <1>0, <2>2 DEF LinksMove, Re!Confirmed
  <2>6. OneRunWorks' /\ \A s \in Runs : WorkOfRun(s)'
    BY <1>0, <2>2 DEF OneRunWorks, WorkOfRun, Re!TypeOK
  <2> QED
    BY <2>3, <2>4, <2>5, <2>6
<1>2. CASE Re!Reject(l)
  <2>1. /\ link' = [link EXCEPT ![l] = "REJECTED"] /\ link[l] = "NEEDS_REVIEW"
        /\ UNCHANGED <<transferred, userData, userTags>>
    BY <1>2 DEF Re!Reject, Re!userVars
  <2>2. \A k \in Re!Pair : link'[k] = IF k = l THEN "REJECTED" ELSE link[k]
    BY <2>1 DEF Re!TypeOK
  <2>3. Re!TypeOK'
    BY <1>0, <2>1 DEF Re!TypeOK, Re!LinkStatus
  <2>4. Re!OneActivePerPredecessor(link)'
    BY <2>2 DEF Re!OneActivePerPredecessor, Re!Confirmed
  <2>5. LinksMove'
    BY <1>0, <2>1, <2>2 DEF LinksMove, Re!Confirmed
  <2>6. OneRunWorks' /\ \A s \in Runs : WorkOfRun(s)'
    BY <1>0, <2>1, <2>2 DEF OneRunWorks, WorkOfRun, Re!TypeOK
  <2> QED
    BY <2>3, <2>4, <2>5, <2>6
<1> QED
  BY <1>1, <1>2

\* Every step keeps LinkInv.
LEMMA LinkStep == ASSUME LinkInv, [Re!Next]_(Re!vars) PROVE LinkInv'
<1>1. CASE UNCHANGED Re!vars
  <2>1. Re!TypeOK' /\ UNCHANGED <<link, transferred, auto, clash, sync, syncLock>>
    BY <1>1 DEF LinkInv, Re!TypeOK, Re!vars, Re!rowVars, Re!userVars, Re!linkVars, Re!runVars
  <2> QED
    BY <2>1, LinksRest
<1>2. ASSUME NEW r \in Runs, Re!Finish(r) PROVE LinkInv'
  <2>1. /\ clash[r] = None /\ deaths' \in 0..MaxDeaths /\ sync[r] = "transfer"
        /\ UNCHANGED <<live, deletedIn, createdIn, deletions, userData, userTags, link,
                       transferred, userEdits>>
    BY <1>2 DEF Re!Finish, LinkInv, WorkOfRun, Re!TypeOK, Re!rowVars, Re!userVars, Re!linkVars
  <2> QED
    BY <1>2, <2>1, RunEnds DEF Re!Finish
<1>3. ASSUME NEW r \in Runs, Re!Dies(r) PROVE LinkInv'
  <2>1. /\ clash'[r] = None /\ deaths' \in 0..MaxDeaths
        /\ UNCHANGED <<live, deletedIn, createdIn, deletions, userData, userTags, link,
                       transferred, userEdits>>
    BY <1>3, ReplacementAssumption
    DEF Re!Dies, LinkInv, Re!TypeOK, Re!rowVars, Re!userVars, Re!linkVars
  <2> QED
    BY <1>3, <2>1, RunEnds DEF Re!Dies
<1>4. ASSUME NEW t \in Re!Stored,
             \/ t \in Old /\ (Re!Deletes(t) \/ Re!Reappears(t))
             \/ t \in New /\ Re!Creates(t)
             \/ Re!Edits(t)
      PROVE  LinkInv'
  <2>1. UNCHANGED <<link, transferred, auto, clash, sync, syncLock>>
    BY <1>4 DEF Re!Deletes, Re!Reappears, Re!Creates, Re!Edits, Re!linkVars, Re!runVars
  <2>2. Re!TypeOK'
    BY <1>4, RowTypes DEF LinkInv
  <2> QED
    BY <2>1, <2>2, LinksRest
<1> QED
  BY <1>1, <1>2, <1>3, <1>4, RunBegins, DetectKeeps, TransferKeeps, DemoteKeeps, ReviewKeeps
  DEF Re!Next, Re!Stored

\* Replacements only move as Replacement says.
LEMMA ReplacementsMove == [MCNext]_allVars => [Re!Next]_(Re!vars)
  BY DEF MCNext, allVars, replacementVars, Re!vars, Re!rowVars, Re!userVars, Re!linkVars,
         Re!runVars

\* A transaction's user data moves over one link, once, and only a confirmed link keeps
\* it: however runs that hold the lock die or fail between their transactions, and
\* whatever reviewers and users do meanwhile, for any transactions and scores.
THEOREM TransfersMatch == MCSpec => []TransfersMatchLinks
<1>1. MCInit => LinkInv
  BY LinkInit DEF MCInit
<1>2. LinkInv /\ [MCNext]_allVars => LinkInv'
  BY LinkStep, ReplacementsMove
<1>3. LinkInv => TransfersMatchLinks
  BY LinkInvSuffices DEF TransfersMatchLinks
<1> QED
  BY <1>1, <1>2, <1>3, PTL DEF MCSpec

\* No transfer overwrites what a user, a rule or another transfer stored.
THEOREM TransfersFillBlanks == MCSpec => NothingOverwritten
<1> DEFINE Fills(l) == /\ userData[Re!Successor(l)] = None /\ userTags[Re!Successor(l)] = {}
                       /\ userData'[Re!Successor(l)] = userData[Re!Predecessor(l)]
                       /\ userTags'[Re!Successor(l)] = userTags[Re!Predecessor(l)]
<1>1. ASSUME LinkInv, [MCNext]_allVars, NEW l \in Re!Pair, transferred'[l] # transferred[l]
      PROVE  Fills(l)
  <2>1. PICK k \in Re!Pair : Re!Copy(k) /\ ~Re!HasUserData(Re!Successor(k))
    BY <1>1, ReplacementsMove
    DEF Re!Next, Re!vars, Re!linkVars, Re!Start, Re!Completes, Re!Detect, Re!Demote, Re!Finish,
        Re!Dies, Re!Transfer, Re!Deletes, Re!Reappears, Re!Creates, Re!Confirm, Re!Reject,
        Re!Edits, LinkInv, Re!TypeOK
  <2>2. k = l
    BY <1>1, <2>1, CopyTypes DEF LinkInv
  <2>3. Re!Successor(l) \in Re!Stored
    BY ReplacementAssumption DEF Re!Successor, Re!Stored, Re!Pair
  <2> QED
    BY <1>1, <2>1, <2>2, <2>3 DEF Re!Copy, Re!HasUserData, LinkInv, Re!TypeOK
<1>2. MCInit => LinkInv
  BY LinkInit DEF MCInit
<1>3. LinkInv /\ [MCNext]_allVars => LinkInv'
  BY LinkStep, ReplacementsMove
<1>4. LinkInv /\ [MCNext]_allVars =>
        [\A l \in Re!Pair : transferred'[l] # transferred[l] => Fills(l)]_(Re!vars)
  BY <1>1
<1> QED
  BY <1>2, <1>3, <1>4, PTL DEF MCSpec, NothingOverwritten, Re!NothingOverwritten, Fills

-----------------------------------------------------------------------------
(***************************************************************************)
(* Role detection.  Only a detection writes pairs, and the workspace's lock  *)
(* admits one at a time: the pairs it has read are those it finds when it    *)
(* writes, although imports and overrides go on between its two steps.       *)
(***************************************************************************)

\* The rows have the facts of their transactions.
Stored(table) == table \in [Rows -> Ro!Row] /\ \A t \in Rows : table[t].facts \in FactsOf[t]

\* What a detection has read and still holds: the pairs, and the evidence of its target.
Reading(who) ==
    LET d == detector[who] IN
    /\ d.target \in Rows
    /\ Stored(d.rows)
    /\ \A t \in Rows : d.rows[t].pair = rows[t].pair
    /\ d.reconciled => d.target \in evidence

RoleInv ==
    /\ Ro!TypeOK
    /\ Stored(rows)
    /\ detector = [who \in Detectors |-> detector[who]]
    /\ \A who \in Detectors : detector[who] # None => Reading(who)
    /\ \A who, other \in Detectors : detector[who] # None /\ detector[other] # None => who = other
    /\ Ro!PairsAreMutual
    /\ Ro!PairsAreExplained
    /\ Ro!BillRolesHaveEvidence

\* Before any detection nothing is paired.
LEMMA RoleInit == Ro!Init => RoleInv
<1> SUFFICES ASSUME Ro!Init PROVE RoleInv
  OBVIOUS
<1>1. \A t \in Rows : /\ rows[t].facts \in FactsOf[t] /\ rows[t].facts \in Ro!Facts
                      /\ rows[t] = [facts |-> rows[t].facts, live |-> TRUE,
                                    role |-> Ro!Classified(rows[t].facts),
                                    source |-> "HEURISTIC", pair |-> None]
  BY RoleAssumption DEF Ro!Init
<1>2. \A f : Ro!Classified(f) \in {"PURCHASE", "UNKNOWN_CREDIT"}
  BY DEF Ro!Classified
<1>3. \A t \in Rows : rows[t] \in Ro!Row
  <2> TAKE t \in Rows
  <2> DEFINE f == rows[t].facts
  <2>1. f \in Ro!Facts /\ Ro!Classified(f) \in Ro!Role
    BY <1>1, <1>2 DEF Ro!Role
  <2>2. rows[t] = [facts |-> f, live |-> TRUE, role |-> Ro!Classified(f),
                   source |-> "HEURISTIC", pair |-> None]
    BY <1>1
  <2> HIDE DEF f
  <2> QED
    BY <2>1, <2>2 DEF Ro!Row, Ro!Source
<1>4. Stored(rows)
  BY <1>1, <1>3 DEF Stored, Ro!Init
<1>5. Ro!TypeOK
  BY <1>4 DEF Ro!TypeOK, Ro!Init, Stored
<1>6. \A t \in Rows : rows[t].pair = None /\ rows[t].role # "CARD_BILL_PAYMENT"
  <2> TAKE t \in Rows
  <2> DEFINE f == rows[t].facts
  <2>1. rows[t] = [facts |-> f, live |-> TRUE, role |-> Ro!Classified(f),
                   source |-> "HEURISTIC", pair |-> None]
    BY <1>1
  <2>2. Ro!Classified(f) # "CARD_BILL_PAYMENT"
    BY DEF Ro!Classified
  <2> HIDE DEF f
  <2>3. rows[t].pair = None /\ rows[t].role = Ro!Classified(f)
    BY <2>1
  <2> QED
    BY <2>2, <2>3
<1>7. Ro!PairsAreMutual /\ Ro!PairsAreExplained /\ Ro!BillRolesHaveEvidence
  BY <1>6 DEF Ro!PairsAreMutual, Ro!PairsAreExplained, Ro!BillRolesHaveEvidence
<1> QED
  BY <1>4, <1>5, <1>7 DEF RoleInv, Ro!Init

\* What happens to a row outside of detection: its pair stays, and its role is neither
\* that of a bill payment nor, unless it was before, heuristic.
LEMMA RowChanges ==
  ASSUME RoleInv, NEW t \in Rows, NEW row \in Ro!Row, rows' = [rows EXCEPT ![t] = row],
         row.facts \in FactsOf[t], row.pair = rows[t].pair,
         row.source = "HEURISTIC" /\ row.role = "CARD_BILL_PAYMENT" => t \in evidence,
         override' \in [Rows -> Ro!Role \cup {None}],
         UNCHANGED <<evidence, decisions, detector>>
  PROVE  RoleInv'
<1> USE RoleAssumption DEF RoleInv
<1>1. \A u \in Rows : rows'[u] = IF u = t THEN row ELSE rows[u]
  BY DEF Stored
<1>2. \A u \in Rows : rows'[u].pair = rows[u].pair
  BY <1>1
<1>3. Stored(rows)'
  BY <1>1 DEF Stored
<1>4. Ro!TypeOK'
  BY <1>3 DEF Ro!TypeOK, Stored
<1>5. \A who \in Detectors : detector'[who] # None => Reading(who)'
  BY <1>2 DEF Reading
<1>6. Ro!PairsAreMutual'
  BY <1>2 DEF Ro!PairsAreMutual, Stored, Ro!Row
<1>7. Ro!PairsAreExplained' /\ Ro!BillRolesHaveEvidence'
  BY <1>1, <1>2 DEF Ro!PairsAreExplained, Ro!BillRolesHaveEvidence
<1> QED
  BY <1>3, <1>4, <1>5, <1>6, <1>7

\* Imports, deletions, rules, overrides and reconciliations.
LEMMA RowsKeep ==
  ASSUME RoleInv, NEW t \in Rows,
         \/ Ro!Import(t) \/ Ro!Delete(t) \/ Ro!Reconcile(t)
         \/ \E role \in {"TRANSFER", "CARD_BILL_PAYMENT"} : Ro!ApplyRule(t, role)
         \/ \E role \in {"CARD_BILL_PAYMENT", "PURCHASE", None} : Ro!Override(t, role)
  PROVE  RoleInv'
<1> USE RoleAssumption DEF RoleInv
<1>0. rows[t] \in Ro!Row /\ rows[t].facts \in FactsOf[t]
  BY DEF Stored
<1>1. CASE Ro!Import(t)
  <2>1. PICK f \in FactsOf[t] :
          rows' = [rows EXCEPT ![t] =
                     [facts |-> f, live |-> TRUE, pair |-> rows[t].pair,
                      role |-> IF rows[t].source = "HEURISTIC" THEN Ro!Classified(f)
                               ELSE rows[t].role,
                      source |-> rows[t].source]]
    BY <1>1 DEF Ro!Import
  <2> DEFINE role == IF rows[t].source = "HEURISTIC" THEN Ro!Classified(f) ELSE rows[t].role
             row == [facts |-> f, live |-> TRUE, pair |-> rows[t].pair, role |-> role,
                     source |-> rows[t].source]
  <2>2. f \in Ro!Facts /\ role \in Ro!Role
    BY <1>0 DEF Ro!Classified, Ro!Role, Ro!Row
  <2>3. row \in Ro!Row
    BY <1>0, <2>2 DEF Ro!Row
  <2>4. row.source = "HEURISTIC" => row.role # "CARD_BILL_PAYMENT"
    BY DEF Ro!Classified
  <2>5. override' \in [Rows -> Ro!Role \cup {None}] /\ UNCHANGED <<evidence, decisions, detector>>
    BY <1>1 DEF Ro!Import, Ro!TypeOK
  <2> QED
    BY <2>1, <2>3, <2>4, <2>5, RowChanges
<1>2. CASE Ro!Delete(t)
  <2> DEFINE row == [rows[t] EXCEPT !.live = FALSE]
  <2>1. /\ row \in Ro!Row /\ row.facts = rows[t].facts /\ row.pair = rows[t].pair
        /\ row.source = rows[t].source /\ row.role = rows[t].role
    BY <1>0 DEF Ro!Row
  <2>2. rows' = [rows EXCEPT ![t] = row]
    BY <1>2 DEF Ro!Delete
  <2>3. override' \in [Rows -> Ro!Role \cup {None}] /\ UNCHANGED <<evidence, decisions, detector>>
    BY <1>2 DEF Ro!Delete, Ro!TypeOK
  <2> HIDE DEF row
  <2> QED
    BY <1>0, <2>1, <2>2, <2>3, RowChanges DEF Ro!BillRolesHaveEvidence
<1>3. CASE \E role \in {"TRANSFER", "CARD_BILL_PAYMENT"} : Ro!ApplyRule(t, role)
  <2>1. PICK role \in {"TRANSFER", "CARD_BILL_PAYMENT"} : Ro!ApplyRule(t, role)
    BY <1>3
  <2> DEFINE row == [rows[t] EXCEPT !.role = role, !.source = "RULE"]
  <2>2. /\ row \in Ro!Row /\ row.facts = rows[t].facts /\ row.pair = rows[t].pair
        /\ row.source = "RULE"
    BY <1>0 DEF Ro!Row, Ro!Role, Ro!Source
  <2>3. rows' = [rows EXCEPT ![t] = row]
    BY <2>1 DEF Ro!ApplyRule
  <2>4. override' \in [Rows -> Ro!Role \cup {None}] /\ UNCHANGED <<evidence, decisions, detector>>
    BY <2>1 DEF Ro!ApplyRule, Ro!TypeOK
  <2> HIDE DEF row
  <2> QED
    BY <1>0, <2>2, <2>3, <2>4, RowChanges
<1>4. CASE \E role \in {"CARD_BILL_PAYMENT", "PURCHASE", None} : Ro!Override(t, role)
  <2>1. UNCHANGED <<rows, evidence, decisions, detector>>
    BY <1>4 DEF Ro!Override
  <2>2. override' \in [Rows -> Ro!Role \cup {None}]
    BY <1>4 DEF Ro!Override, Ro!TypeOK, Ro!Role
  <2>3. rows' = [rows EXCEPT ![t] = rows[t]]
    BY <2>1 DEF Stored
  <2> QED
    BY <1>0, <2>1, <2>2, <2>3, RowChanges DEF Ro!BillRolesHaveEvidence
<1>5. CASE Ro!Reconcile(t)
  <2>1. evidence' = evidence \cup {t} /\ UNCHANGED <<rows, override, decisions, detector>>
    BY <1>5 DEF Ro!Reconcile
  <2>2. Ro!TypeOK' /\ Stored(rows)'
    BY <2>1 DEF Ro!TypeOK, Stored
  <2>3. \A who \in Detectors : detector'[who] # None => Reading(who)'
    BY <2>1 DEF Reading
  <2>4. Ro!PairsAreMutual' /\ Ro!PairsAreExplained' /\ Ro!BillRolesHaveEvidence'
    BY <2>1 DEF Ro!PairsAreMutual, Ro!PairsAreExplained, Ro!BillRolesHaveEvidence
  <2> QED
    BY <2>1, <2>2, <2>3, <2>4
<1> QED
  BY <1>1, <1>2, <1>3, <1>4, <1>5

\* A detection begins alone, and has read the rows as they are.
LEMMA DetectionBegins ==
  ASSUME RoleInv, NEW me \in Detectors, NEW t \in Rows, Ro!Begin(me, t)
  PROVE  RoleInv'
<1> DEFINE seen == [target |-> t, rows |-> rows, roles |-> override, reconciled |-> t \in evidence]
<1> USE RoleAssumption DEF RoleInv
<1>1. /\ \A who \in Detectors : detector[who] = None
      /\ detector' = [detector EXCEPT ![me] = seen]
      /\ UNCHANGED <<rows, override, evidence, decisions>>
  BY DEF Ro!Begin, Ro!Unlocked
<1>2. /\ seen.target = t /\ seen.rows = rows /\ seen.reconciled = (t \in evidence)
  OBVIOUS
<1> HIDE DEF seen
<1>3. \A who \in Detectors : detector'[who] = IF who = me THEN seen ELSE None
  BY <1>1 DEF Ro!TypeOK
<1>4. Ro!TypeOK'
  BY <1>1, <1>2, <1>3 DEF Ro!TypeOK
<1>5. \A who \in Detectors : detector'[who] # None => Reading(who)'
  BY <1>1, <1>2, <1>3 DEF Reading, Stored
<1>6. Stored(rows)' /\ Ro!PairsAreMutual' /\ Ro!PairsAreExplained' /\ Ro!BillRolesHaveEvidence'
  BY <1>1 DEF Stored, Ro!PairsAreMutual, Ro!PairsAreExplained, Ro!BillRolesHaveEvidence
<1>7. \A who, other \in Detectors : detector'[who] # None /\ detector'[other] # None
                                      => who = other
  BY <1>3
<1>8. detector' = [who \in Detectors |-> detector'[who]]
  BY <1>1
<1> QED
  BY <1>4, <1>5, <1>6, <1>7, <1>8

\* What a detection has written: facts and evidence stay, decisions accumulate.
LEMMA DetectionEnds ==
  ASSUME RoleInv, NEW me \in Detectors, detector[me] # None,
         detector' = [detector EXCEPT ![me] = None], UNCHANGED <<override, evidence>>,
         Stored(rows)', decisions \subseteq decisions',
         \A d \in decisions' : /\ d.of \in Rows /\ d.facts \in FactsOf[d.of]
                               /\ d.candidates \subseteq Rows,
         (Ro!PairsAreMutual /\ Ro!PairsAreExplained /\ Ro!BillRolesHaveEvidence)'
  PROVE  RoleInv'
<1> USE DEF RoleInv
<1>1. \A who \in Detectors : detector'[who] = None
  BY DEF Ro!TypeOK
<1>2. Ro!TypeOK'
  BY <1>1 DEF Ro!TypeOK, Stored
<1> QED
  BY <1>1, <1>2

\* A recorded decision is one of those recorded before, or is typed as its parts are; a
\* decision with these parts exists afterwards, whatever it selected.
LEMMA Recording ==
  ASSUME RoleInv, NEW t \in Rows, NEW kind, NEW facts \in FactsOf[t],
         NEW candidates \in SUBSET Rows,
         \E selected : decisions' = Ro!Recorded(t, kind, facts, candidates, selected)
  PROVE  /\ decisions \subseteq decisions'
         /\ \A d \in decisions' : /\ d.of \in Rows /\ d.facts \in FactsOf[d.of]
                                  /\ d.candidates \subseteq Rows
         /\ \E d \in decisions' : d.of = t /\ d.kind = kind /\ d.candidates = candidates
<1>0. PICK selected : decisions' = Ro!Recorded(t, kind, facts, candidates, selected)
  OBVIOUS
<1>1. \A d \in decisions : /\ d.of \in Rows /\ d.facts \in FactsOf[d.of]
                           /\ d.candidates \subseteq Rows
  BY DEF RoleInv, Ro!TypeOK
<1> DEFINE new == [of |-> t, kind |-> kind, facts |-> facts, candidates |-> candidates,
                   selected |-> selected]
<1>2. new.of = t /\ new.kind = kind /\ new.facts = facts /\ new.candidates = candidates
  OBVIOUS
<1>3. \/ /\ \E d \in decisions : d.of = t /\ d.kind = kind /\ d.candidates = candidates
         /\ decisions' = decisions
      \/ decisions' = decisions \cup {new}
  BY <1>0 DEF Ro!Recorded
<1> HIDE DEF new
<1> QED
  BY <1>1, <1>2, <1>3

\* A detection that gives its target a role: pairs stay.
LEMMA RoleApplied ==
  ASSUME RoleInv, NEW t \in Rows, NEW role \in Ro!Role, rows' = Ro!Applied({t}, role),
         role = "CARD_BILL_PAYMENT" => t \in evidence,
         UNCHANGED evidence, decisions \subseteq decisions'
  PROVE  Stored(rows)' /\ (Ro!PairsAreMutual /\ Ro!PairsAreExplained /\ Ro!BillRolesHaveEvidence)'
<1> DEFINE row == [rows[t] EXCEPT !.role = role, !.source = "HEURISTIC"]
<1> USE RoleAssumption DEF RoleInv
<1>1. /\ row \in Ro!Row /\ row.facts = rows[t].facts /\ row.pair = rows[t].pair
      /\ row.role = role
  BY DEF Stored, Ro!Row, Ro!Source
<1>2. rows' = [u \in Rows |-> IF u = t THEN row ELSE rows[u]]
  BY DEF Ro!Applied
<1> HIDE DEF row
<1>3. \A u \in Rows : rows'[u].pair = rows[u].pair
  BY <1>1, <1>2
<1>4. Stored(rows)'
  BY <1>1, <1>2 DEF Stored
<1>5. \A u \in Rows : rows[u].pair # None => rows[u].pair \in Rows
  <2>1. \A u \in Rows : rows[u] \in Ro!Row
    BY DEF Stored
  <2> QED
    BY <2>1 DEF Ro!Row
<1>6. Ro!PairsAreMutual'
  <2>1. \A u \in Rows : rows[u].pair # None => /\ rows[rows[u].pair].pair = u
                                               /\ AccountOf[rows[u].pair] # AccountOf[u]
    BY DEF Ro!PairsAreMutual
  <2>3. ASSUME NEW w \in Rows, rows'[w].pair # None
        PROVE  rows'[rows'[w].pair].pair = w /\ AccountOf[rows'[w].pair] # AccountOf[w]
    <3> DEFINE v == rows[w].pair
    <3>1. rows'[w].pair = v /\ v # None
      BY <1>3, <2>3
    <3>2. v \in Rows
      BY <1>5, <3>1
    <3>3. rows'[v].pair = rows[v].pair
      BY <1>3, <3>2
    <3> QED
      BY <2>1, <3>1, <3>3
  <2>2. \A w \in Rows : rows'[w].pair # None => /\ rows'[rows'[w].pair].pair = w
                                                /\ AccountOf[rows'[w].pair] # AccountOf[w]
    BY <2>3
  <2> QED
    BY <2>2 DEF Ro!PairsAreMutual
<1>7. Ro!PairsAreExplained'
  BY <1>3 DEF Ro!PairsAreExplained
<1>8. Ro!BillRolesHaveEvidence'
  BY <1>1, <1>2 DEF Ro!BillRolesHaveEvidence
<1> QED
  BY <1>4, <1>6, <1>7, <1>8

\* A detection that pairs its target with a counterpart: both were free when it read
\* them, and are free still.
LEMMA PairApplied ==
  ASSUME RoleInv, NEW t \in Rows, NEW u \in Rows, t # u, AccountOf[t] # AccountOf[u],
         rows[t].pair = None, rows[u].pair = None, rows' = Ro!Applying(t, u),
         UNCHANGED evidence, decisions \subseteq decisions',
         \E d \in decisions' : d.of = t /\ d.kind = "TRANSFER" /\ u \in d.candidates
  PROVE  Stored(rows)' /\ (Ro!PairsAreMutual /\ Ro!PairsAreExplained /\ Ro!BillRolesHaveEvidence)'
<1> DEFINE mine == [rows[t] EXCEPT !.role = "TRANSFER", !.source = "HEURISTIC", !.pair = u]
           other == [rows[u] EXCEPT !.role = "TRANSFER", !.source = "HEURISTIC", !.pair = t]
<1> USE RoleAssumption DEF RoleInv
<1>1. /\ mine \in Ro!Row /\ mine.facts = rows[t].facts /\ mine.pair = u
      /\ mine.role = "TRANSFER"
  BY DEF Stored, Ro!Row, Ro!Source, Ro!Role
<1>2. /\ other \in Ro!Row /\ other.facts = rows[u].facts /\ other.pair = t
      /\ other.role = "TRANSFER"
  BY DEF Stored, Ro!Row, Ro!Source, Ro!Role
<1>3. rows' \in [Rows -> Ro!Row] /\ rows'[t] = mine /\ rows'[u] = other
      /\ \A w \in Rows \ {t, u} : rows'[w] = rows[w]
  <2>1. rows = [w \in Rows |-> rows[w]] /\ \A w \in Rows : rows[w] \in Ro!Row
    BY DEF Stored
  <2>2. rows' = [w \in Rows |-> IF w = t THEN mine ELSE IF w = u THEN other ELSE rows[w]]
    BY <2>1 DEF Ro!Applying
  <2> HIDE DEF mine, other
  <2> QED
    BY <1>1, <1>2, <2>1, <2>2
<1> HIDE DEF mine, other
<1>4. Stored(rows)'
  BY <1>1, <1>2, <1>3 DEF Stored
<1>5. \A w \in Rows : rows[w].pair # None =>
        w \notin {t, u} /\ rows[w].pair \in Rows \ {t, u} /\ rows[rows[w].pair].pair = w
  <2>1. \A w \in Rows : rows[w].pair # None => rows[w].pair \in Rows
    BY DEF Stored, Ro!Row
  <2> QED
    BY <2>1 DEF Ro!PairsAreMutual
<1>6. Ro!PairsAreMutual'
  BY <1>1, <1>2, <1>3, <1>5 DEF Ro!PairsAreMutual
<1>7. Ro!PairsAreExplained'
  BY <1>1, <1>2, <1>3, <1>5 DEF Ro!PairsAreExplained
<1>8. Ro!BillRolesHaveEvidence'
  BY <1>1, <1>2, <1>3 DEF Ro!BillRolesHaveEvidence
<1> QED
  BY <1>4, <1>6, <1>7, <1>8

\* A detection writes what it has hits, or nothing.
LEMMA DetectionWrites ==
  ASSUME RoleInv, NEW me \in Detectors, Ro!Finish(me)
  PROVE  RoleInv'
<1> DEFINE d == detector[me]
           t == d.target
           facts == d.rows[t].facts
           pool == Ro!Unpaired(t, d)
           bought == Ro!Purchases(t, d)
<1> USE RoleAssumption
<1>1. /\ d # None /\ t \in Rows /\ Stored(d.rows) /\ facts \in FactsOf[t]
      /\ \A w \in Rows : d.rows[w].pair = rows[w].pair
      /\ d.reconciled => t \in evidence
  BY DEF Ro!Finish, RoleInv, Reading, Stored
<1>2. detector' = [detector EXCEPT ![me] = None] /\ UNCHANGED <<override, evidence>>
  BY DEF Ro!Finish
<1>3. /\ Stored(rows) /\ Ro!PairsAreMutual /\ Ro!PairsAreExplained /\ Ro!BillRolesHaveEvidence
      /\ \A e \in decisions : /\ e.of \in Rows /\ e.facts \in FactsOf[e.of]
                              /\ e.candidates \subseteq Rows
  BY DEF RoleInv, Ro!TypeOK
<1>4. /\ pool \subseteq Rows \ {t} /\ bought \subseteq Rows \ {t}
      /\ \A u \in pool : d.rows[u].pair = None
  BY DEF Ro!Unpaired, Ro!Purchases, Ro!Loaded
<1> DEFINE Complete == /\ Stored(rows)'
                       /\ decisions \subseteq decisions'
                       /\ \A e \in decisions' : /\ e.of \in Rows /\ e.facts \in FactsOf[e.of]
                                                /\ e.candidates \subseteq Rows
                       /\ (Ro!PairsAreMutual /\ Ro!PairsAreExplained
                             /\ Ro!BillRolesHaveEvidence)'
<1>5. ASSUME UNCHANGED <<rows, decisions>> PROVE Complete
  BY <1>2, <1>3, <1>5 DEF Stored, Ro!PairsAreMutual, Ro!PairsAreExplained,
     Ro!BillRolesHaveEvidence
<1>6. ASSUME Ro!HasBillEvidence(t, d), Ro!BillPayment(t, d) PROVE Complete
  <2>1. t \in evidence
    BY <1>1, <1>6 DEF Ro!HasBillEvidence
  <2>2. /\ rows' = Ro!Applied({t}, "CARD_BILL_PAYMENT")
        /\ decisions' = Ro!Recorded(t, "BILL_PAYMENT", facts, {t}, TRUE)
    BY <1>6 DEF Ro!BillPayment
  <2>3. {t} \in SUBSET Rows /\ "CARD_BILL_PAYMENT" \in Ro!Role
    BY <1>1 DEF Ro!Role
  <2> HIDE DEF t, facts
  <2>4. /\ decisions \subseteq decisions'
        /\ \A e \in decisions' : /\ e.of \in Rows /\ e.facts \in FactsOf[e.of]
                                 /\ e.candidates \subseteq Rows
    BY <1>1, <2>2, <2>3, Recording
  <2> QED
    BY <1>1, <1>2, <2>1, <2>2, <2>3, <2>4, RoleApplied
<1>7. ASSUME ~Ro!AlreadyApplied(t, d), Ro!Transfer(t, d) PROVE Complete
  <2> DEFINE hits == Ro!Counterparts(t, pool, d.rows)
  <2>1. hits \subseteq pool /\ \A u \in hits : AccountOf[u] # AccountOf[t]
    BY DEF Ro!Counterparts
  <2>2. /\ \E selected : decisions' = Ro!Recorded(t, "TRANSFER", facts, hits, selected)
        /\ \/ UNCHANGED rows
           \/ \E u \in Ro!Reciprocal(t, d) : rows' = Ro!Applying(t, u)
    BY <1>7 DEF Ro!Transfer
  <2>3. hits \in SUBSET Rows
    BY <1>4, <2>1
  <2>4. Ro!Reciprocal(t, d) \subseteq hits
    BY DEF Ro!Reciprocal
  <2>5. d.rows[t].pair = None
    BY <1>7 DEF Ro!AlreadyApplied
  <2> HIDE DEF t, facts, hits, pool
  <2>9. \E selected : decisions' = Ro!Recorded(t, "TRANSFER", facts, hits, selected)
    BY <2>2
  <2>10. t \in Rows /\ facts \in FactsOf[t]
    BY <1>1
  <2>6. /\ decisions \subseteq decisions'
        /\ \A e \in decisions' : /\ e.of \in Rows /\ e.facts \in FactsOf[e.of]
                                 /\ e.candidates \subseteq Rows
        /\ \E e \in decisions' : e.of = t /\ e.kind = "TRANSFER" /\ e.candidates = hits
    BY <2>3, <2>9, <2>10, Recording
  <2>7. CASE UNCHANGED rows
    BY <1>2, <1>3, <2>6, <2>7 DEF Stored, Ro!PairsAreMutual, Ro!PairsAreExplained,
       Ro!BillRolesHaveEvidence
  <2>8. ASSUME NEW u \in Ro!Reciprocal(t, d), rows' = Ro!Applying(t, u) PROVE Complete
    <3>1. /\ u \in Rows /\ t # u /\ AccountOf[t] # AccountOf[u]
          /\ rows[t].pair = None /\ rows[u].pair = None
      BY <1>1, <1>4, <2>1, <2>4, <2>5
    <3>2. \E e \in decisions' : e.of = t /\ e.kind = "TRANSFER" /\ u \in e.candidates
      BY <2>4, <2>6
    <3> QED
      BY <1>1, <1>2, <2>6, <2>8, <3>1, <3>2, PairApplied
  <2> QED
    BY <2>2, <2>7, <2>8
<1>8. ASSUME Ro!Refund(t, d) PROVE Complete
  <2> DEFINE hits == Ro!Refundable(t, bought, d.rows)
  <2>1. hits \in SUBSET Rows
    BY <1>4 DEF Ro!Refundable
  <2>2. \E selected : decisions' = Ro!Recorded(t, "REFUND", facts, hits, selected)
    BY <1>8, Zenon DEF Ro!Refund
  <2>7. rows' = Ro!Applied({t}, "REFUND") \/ rows' = rows
    BY <1>8 DEF Ro!Refund
  <2>3. "REFUND" \in Ro!Role
    BY DEF Ro!Role
  <2> HIDE DEF t, facts, hits, bought
  <2>4. /\ decisions \subseteq decisions'
        /\ \A e \in decisions' : /\ e.of \in Rows /\ e.facts \in FactsOf[e.of]
                                 /\ e.candidates \subseteq Rows
    BY <1>1, <2>1, <2>2, Recording
  <2>5. CASE rows' = Ro!Applied({t}, "REFUND")
    BY <1>1, <1>2, <2>3, <2>4, <2>5, <2>7, RoleApplied
  <2>6. CASE rows' = rows
    BY <1>2, <1>3, <2>4, <2>6, <2>7 DEF Stored, Ro!PairsAreMutual, Ro!PairsAreExplained,
       Ro!BillRolesHaveEvidence
  <2> QED
    BY <2>5, <2>6, <2>7
<1>9. Complete
  BY <1>5, <1>6, <1>7, <1>8 DEF Ro!Finish, Ro!Detected
<1>10. detector[me] # None
  BY DEF Ro!Finish
<1> HIDE DEF d, t, facts, pool, bought
<1> QED
  BY <1>2, <1>9, <1>10, DetectionEnds

\* The roles change only in their own part.
LEMMA RolesMove ==
  ASSUME [MCNext]_allVars
  PROVE  (part = "roles" /\ part' = part /\ Ro!Next) \/ UNCHANGED roleVars
BY DEF MCNext, allVars, roleVars

LEMMA RoleStep ==
  ASSUME RoleInv, Ro!Next \/ UNCHANGED roleVars
  PROVE  RoleInv'
<1>1. CASE UNCHANGED roleVars
  BY <1>1 DEF RoleInv, Stored, Reading, Ro!TypeOK, Ro!PairsAreMutual, Ro!PairsAreExplained,
     Ro!BillRolesHaveEvidence, roleVars
<1>2. CASE Ro!Next
  BY <1>2, RowsKeep, DetectionBegins, DetectionWrites DEF Ro!Next
<1> QED
  BY <1>1, <1>2

\* Transfers are mutual and explained, bill payments confirmed, for any number of
\* detections next to imports, rules, overrides and deletions.
THEOREM RolesBacked == MCSpec => []RolesAreBacked
<1>1. MCInit => RoleInv
  BY RoleInit DEF MCInit
<1>2. RoleInv /\ [MCNext]_allVars => RoleInv'
  BY RoleStep, RolesMove
<1>3. RoleInv => RolesAreBacked
  BY DEF RoleInv, RolesAreBacked, Ro!RolesAreBacked
<1> QED
  BY <1>1, <1>2, <1>3, PTL DEF MCSpec

-----------------------------------------------------------------------------
(***************************************************************************)
(* Merchants.  An alias changes hands only in a merge.  Until somebody edits  *)
(* the merchants every row is the provisional merchant of the resolution that *)
(* inserted it and answered with it, and no key has two (Tidy): what another   *)
(* resolution finds bears something of its own input, and two answers to one   *)
(* input that differ were not both made for it.                               *)
(***************************************************************************)

Resolvers == {s \in Sessions : Does[s] = "resolve"}

\* The merchants that a resolution may find.
Bearing(s) == {m \in Me!Present : Me!Bears(m, s)}

\* The rows that an insert of its provisional merchant collides with.
Colliding(s) == Me!Matching(Input[s].provisional, Input[s].hash)

Tidy ==
    /\ \A k \in Keys : alias[k] = None
    /\ \A m \in Me!Present : \E w \in Resolvers : Me!Provisional(w, m)
    /\ \A m, n \in Me!Present : merchant[m].key = merchant[n].key => m = n
    /\ \A s \in Resolvers : /\ session[s] = "raced" => Colliding(s) # {}
                            /\ session[s] = "over" => answer[s] \in Bearing(s)

Tables ==
    /\ merchant = [m \in Ids |-> merchant[m]]
    /\ alias = [k \in Keys |-> alias[k]]
    /\ session = [s \in Sessions |-> session[s]]
    /\ at = [s \in Sessions |-> at[s]]
    /\ answer = [s \in Sessions |-> answer[s]]
    /\ merchantEdits \in Nat

\* Resolutions and confirmations are at statements of their own.
Statements ==
    /\ \A s \in Sessions \ Resolvers :
         session[s] \in {"idle", "identity", "read", "write", "over"}
    /\ \A s \in Resolvers :
         /\ session[s] \in {"idle", "alias", "key", "hash", "pattern", "insert", "raced", "over"}
         /\ at[s] \in 1..Len(Input[s].keys)

MerchantInv == Tables /\ Statements /\ (Me!Untouched => Tidy)

\* The merchants change only in their own part.
LEMMA MerchantsMove ==
  ASSUME [MCNext]_allVars
  PROVE  (part = "merchants" /\ part' = part /\ Me!Next) \/ UNCHANGED merchantVars
BY DEF MCNext, allVars, merchantVars

LEMMA MerchantInit == Me!Init => MerchantInv
<1> SUFFICES ASSUME Me!Init PROVE MerchantInv
  OBVIOUS
<1>1. Tables
  BY DEF Me!Init, Tables
<1>2. \A s \in Sessions : session[s] = "idle" /\ at[s] = 1
  BY DEF Me!Init
<1>3. \A s \in Resolvers : 1 \in 1..Len(Input[s].keys)
  <2> TAKE s \in Resolvers
  <2>1. Input[s].keys \in Seq(Keys) /\ Input[s].keys # <<>>
    BY MerchantAssumption DEF Resolvers
  <2> HIDE DEF Resolvers
  <2> QED
    BY <2>1
<1>4. Statements
  BY <1>2, <1>3 DEF Statements, Resolvers
<1>5. Me!Present = {} /\ \A k \in Keys : alias[k] = None
  BY DEF Me!Init, Me!Present, Me!Absent
<1>6. Tidy
  BY <1>2, <1>5 DEF Tidy, Resolvers
<1> QED
  BY <1>1, <1>4, <1>6 DEF MerchantInv

\* Tables and statements stay what they are.
LEMMA TablesStay ==
  ASSUME Tables, Me!Next
  PROVE  Tables'
<1> USE DEF Tables, Me!Goto, Me!End
<1>1. ASSUME NEW s \in Sessions,
             \/ Me!Begin(s) \/ Me!Insert(s) \/ Me!Raced(s) \/ Me!LockName(s)
             \/ Me!LockIdentity(s) \/ Me!ReadCanonical(s) \/ Me!WriteCanonical(s)
             \/ Me!ReadAlias(s) \/ Me!WriteAlias(s) \/ Me!Abort(s)
      PROVE  Tables'
  <2>1. CASE Me!Begin(s)
    BY <2>1 DEF Me!Begin
  <2>2. CASE Me!Insert(s)
    BY <2>2 DEF Me!Insert
  <2>3. CASE Me!Raced(s)
    BY <2>3 DEF Me!Raced
  <2>4. CASE Me!LockName(s) \/ Me!LockIdentity(s)
    BY <2>4 DEF Me!LockName, Me!LockIdentity
  <2>5. CASE Me!ReadCanonical(s)
    BY <2>5 DEF Me!ReadCanonical
  <2>6. CASE Me!WriteCanonical(s)
    BY <2>6 DEF Me!WriteCanonical
  <2>7. CASE Me!ReadAlias(s)
    BY <2>7 DEF Me!ReadAlias
  <2>8. CASE Me!WriteAlias(s)
    BY <2>8 DEF Me!WriteAlias
  <2>9. CASE Me!Abort(s)
    <3>1. /\ UNCHANGED <<merchant, alias, at>> /\ merchantEdits' = merchantEdits + 1
          /\ session' = [session EXCEPT ![s] = "over"]
          /\ answer' = [answer EXCEPT ![s] = "failed"]
      BY <2>9 DEF Me!Abort
    <3>2. merchantEdits' \in Nat
      BY <3>1
    <3> QED
      BY <3>1, <3>2
  <2> QED
    BY <1>1, <2>1, <2>2, <2>3, <2>4, <2>5, <2>6, <2>7, <2>8, <2>9
<1>2. ASSUME NEW s \in Sessions, NEW place, NEW hits, NEW next, Me!Lookup(s, place, hits, next)
      PROVE  Tables'
  BY <1>2 DEF Me!Lookup
<1>3. ASSUME NEW m \in Ids, NEW k \in Keys, Me!Rename(m, k) PROVE Tables'
  BY <1>3 DEF Me!Rename
<1>4. ASSUME NEW m \in Ids, NEW n \in Ids, Me!Merge(m, n) PROVE Tables'
  <2>1. /\ UNCHANGED <<session, at, answer>> /\ merchantEdits' = merchantEdits + 1
        /\ merchant' = [merchant EXCEPT ![m] = Me!Absent]
    BY <1>4 DEF Me!Merge
  <2>2. alias' = [k \in Keys |-> alias'[k]]
    BY <1>4 DEF Me!Merge
  <2> QED
    BY <2>1, <2>2
<1> HIDE DEF Tables, Me!Goto, Me!End
<1> QED
  BY <1>1, <1>2, <1>3, <1>4 DEF Me!Next, Me!ExactAlias, Me!ExactKey, Me!ProviderIdentity,
     Me!PatternAlias

Stays(k) == alias[k] # None => \/ alias'[k].merchant = alias[k].merchant
                               \/ ~merchant'[alias[k].merchant].present

\* A confirmed alias leaves its merchant only with the merchant.
THEOREM AliasesRemain == MCSpec => AliasesStay
<1>1. ASSUME Tables, Me!Next, NEW k \in Keys, alias[k] # None
      PROVE  Stays(k)
  <2>1. CASE UNCHANGED alias
    BY <2>1 DEF Stays
  <2>2. ASSUME NEW s \in Sessions, Me!WriteAlias(s), alias' # alias PROVE Stays(k)
    <3>1. /\ ~Me!Others(Input[s].key, Input[s].target)
          /\ alias' = [alias EXCEPT ![Input[s].key] =
                         [merchant |-> Input[s].target, match |-> Input[s].match]]
      BY <2>2 DEF Me!WriteAlias
    <3>2. CASE k = Input[s].key
      BY <1>1, <3>1, <3>2 DEF Me!Others, Tables, Stays
    <3>3. CASE k # Input[s].key
      BY <1>1, <3>1, <3>3 DEF Tables, Stays
    <3> QED
      BY <3>2, <3>3
  <2>3. ASSUME NEW m \in Ids, NEW n \in Ids, Me!Merge(m, n) PROVE Stays(k)
    <3>1. ~merchant'[m].present
      BY <1>1, <2>3 DEF Me!Merge, Me!Absent, Tables
    <3>2. \/ alias'[k].merchant = n /\ alias[k].merchant \in {m, n}
          \/ alias[k].merchant = m
          \/ alias'[k] = alias[k]
      BY <1>1, <2>3 DEF Me!Merge
    <3> QED
      BY <3>1, <3>2 DEF Stays
  <2>4. \/ UNCHANGED alias
        \/ \E s \in Sessions : Me!WriteAlias(s)
        \/ \E m, n \in Ids : Me!Merge(m, n)
    BY <1>1 DEF Me!Next, Me!Begin, Me!ExactAlias, Me!ExactKey, Me!ProviderIdentity,
       Me!PatternAlias, Me!Lookup, Me!Insert, Me!Raced, Me!LockName, Me!LockIdentity,
       Me!ReadCanonical, Me!WriteCanonical, Me!ReadAlias, Me!Abort, Me!Rename
  <2> QED
    BY <2>1, <2>2, <2>3, <2>4
<1>2. MCInit => Tables
  BY MerchantInit DEF MCInit, MerchantInv
<1>3. Tables /\ [MCNext]_allVars => Tables'
  <2>1. Tables /\ UNCHANGED merchantVars => Tables'
    BY DEF Tables, merchantVars
  <2> QED
    BY <2>1, TablesStay, MerchantsMove
<1>4. Tables /\ [MCNext]_allVars => [\A k \in Keys : Stays(k)]_(Me!vars)
  <2>1. UNCHANGED merchantVars => UNCHANGED Me!vars
    BY DEF merchantVars, Me!vars
  <2> QED
    BY <1>1, <2>1, MerchantsMove DEF Stays
<1> QED
  BY <1>2, <1>3, <1>4, PTL DEF MCSpec, AliasesStay, Me!AliasesStay, Stays

LEMMA StatementsStay ==
  ASSUME Tables, Statements, Me!Next
  PROVE  Statements'
<1> USE DEF Statements, Tables
<1>1. \A s \in Sessions : Does[s] = "resolve" <=> s \in Resolvers
  BY DEF Resolvers
<1>2. ASSUME NEW s \in Sessions, NEW place,
             session' = [session EXCEPT ![s] = place], UNCHANGED at,
             IF s \in Resolvers
               THEN place \in {"idle", "alias", "key", "hash", "pattern", "insert", "raced", "over"}
               ELSE place \in {"idle", "identity", "read", "write", "over"}
      PROVE  Statements'
  <2>1. \A u \in Sessions : session'[u] = IF u = s THEN place ELSE session[u]
    BY <1>2
  <2>2. \A u \in Resolvers : u \in Sessions
    BY DEF Resolvers
  <2> QED
    BY <1>2, <2>1, <2>2
<1>3. ASSUME NEW s \in Sessions, Me!Begin(s) PROVE Statements'
  BY <1>1, <1>2, <1>3 DEF Me!Begin, Me!Goto
<1>4. ASSUME NEW s \in Sessions, Me!Insert(s) \/ Me!Raced(s) PROVE Statements'
  <2>1. s \in Resolvers /\ UNCHANGED at
    BY <1>4 DEF Me!Insert, Me!Raced
  <2>2. session' = [session EXCEPT ![s] = "over"] \/ session' = [session EXCEPT ![s] = "raced"]
    BY <1>4 DEF Me!Insert, Me!Raced, Me!Goto, Me!End
  <2> QED
    BY <1>2, <2>1, <2>2
<1>5. ASSUME NEW s \in Sessions,
             \/ Me!LockName(s) \/ Me!LockIdentity(s) \/ Me!ReadCanonical(s)
             \/ Me!WriteCanonical(s) \/ Me!ReadAlias(s) \/ Me!WriteAlias(s)
      PROVE  Statements'
  <2>1. s \notin Resolvers /\ UNCHANGED at
    BY <1>1, <1>5 DEF Me!LockName, Me!LockIdentity, Me!ReadCanonical, Me!WriteCanonical,
       Me!ReadAlias, Me!WriteAlias
  <2>2. \E place \in {"identity", "read", "write", "over"} :
          session' = [session EXCEPT ![s] = place]
    BY <1>5 DEF Me!LockName, Me!LockIdentity, Me!ReadCanonical, Me!WriteCanonical,
       Me!ReadAlias, Me!WriteAlias, Me!Goto, Me!End
  <2> QED
    BY <1>2, <2>1, <2>2
<1>6. ASSUME NEW s \in Sessions, Me!Abort(s) PROVE Statements'
  BY <1>2, <1>6 DEF Me!Abort, Me!End, Me!Goto
<1>10. ASSUME NEW s \in Sessions, s \in Resolvers, NEW index \in 1..Len(Input[s].keys),
              NEW place \in {"alias", "key", "hash", "pattern", "insert"},
              session' = [session EXCEPT ![s] = place], at' = [at EXCEPT ![s] = index]
       PROVE  Statements'
  <2>1. \A u \in Sessions : /\ session'[u] = IF u = s THEN place ELSE session[u]
                            /\ at'[u] = IF u = s THEN index ELSE at[u]
    BY <1>10
  <2>2. \A u \in Resolvers : u \in Sessions
    BY DEF Resolvers
  <2> QED
    BY <1>10, <2>1, <2>2
<1>7. ASSUME NEW s \in Resolvers, NEW place, NEW hits, NEW next \in {"key", "hash", "pattern", "insert"},
             place \in {"alias", "key", "hash", "pattern"}, Me!Lookup(s, place, hits, next)
      PROVE  Statements'
  <2>1. s \in Sessions /\ at[s] \in 1..Len(Input[s].keys)
    BY DEF Resolvers
  <2>2. CASE UNCHANGED at /\ session' = [session EXCEPT ![s] = "over"]
    BY <1>2, <2>1, <2>2
  <2>3. CASE /\ at' = [at EXCEPT ![s] = at[s] + 1] /\ at[s] < Len(Input[s].keys)
             /\ session' = [session EXCEPT ![s] = place]
    <3>1. Len(Input[s].keys) \in Nat
      BY MerchantAssumption DEF Resolvers
    <3>2. at[s] + 1 \in 1..Len(Input[s].keys)
      BY <2>1, <2>3, <3>1
    <3> QED
      BY <1>7, <1>10, <2>1, <2>3, <3>2
  <2>4. CASE at' = [at EXCEPT ![s] = 1] /\ session' = [session EXCEPT ![s] = next]
    <3>1. Len(Input[s].keys) \in Nat /\ Len(Input[s].keys) # 0
      BY MerchantAssumption DEF Resolvers
    <3>2. 1 \in 1..Len(Input[s].keys)
      BY <3>1
    <3> QED
      BY <1>7, <1>10, <2>1, <2>4, <3>2
  <2> QED
    BY <1>7, <2>2, <2>3, <2>4 DEF Me!Lookup, Me!End, Me!Goto
<1>8. ASSUME NEW s \in Sessions,
             \/ Me!ExactAlias(s) \/ Me!ExactKey(s) \/ Me!ProviderIdentity(s) \/ Me!PatternAlias(s)
      PROVE  Statements'
  <2>1. s \in Resolvers
    BY <1>8 DEF Me!ExactAlias, Me!ExactKey, Me!ProviderIdentity, Me!PatternAlias, Me!Lookup
  <2> HIDE DEF Statements, Tables
  <2> QED
    BY <1>7, <1>8, <2>1 DEF Me!ExactAlias, Me!ExactKey, Me!ProviderIdentity, Me!PatternAlias
<1>9. ASSUME NEW m \in Ids, NEW k, Me!Rename(m, k) \/ Me!Merge(m, k) PROVE Statements'
  BY <1>9 DEF Me!Rename, Me!Merge
<1> HIDE DEF Statements, Tables
<1> QED
  BY <1>3, <1>4, <1>5, <1>6, <1>8, <1>9 DEF Me!Next

\* What is untouched after a step was so before, and the step was a resolution's.
LEMMA UntouchedBefore ==
  ASSUME Tables, Statements, Me!Next, Me!Untouched'
  PROVE  /\ Me!Untouched
         /\ \E s \in Resolvers : \/ Me!Begin(s) \/ Me!ExactAlias(s) \/ Me!ExactKey(s)
                                 \/ Me!ProviderIdentity(s) \/ Me!PatternAlias(s)
                                 \/ Me!Insert(s) \/ Me!Raced(s)
<1>1. ~ \E s \in Sessions : Me!Abort(s)
  BY DEF Me!Abort, Me!Untouched, Tables
<1>2. ~ \E m \in Ids : \E k : Me!Rename(m, k) \/ Me!Merge(m, k)
  BY DEF Me!Rename, Me!Merge, Me!Untouched, Tables
<1>3. ASSUME NEW s \in Sessions,
             \/ Me!LockName(s) \/ Me!LockIdentity(s) \/ Me!ReadCanonical(s)
             \/ Me!WriteCanonical(s) \/ Me!ReadAlias(s) \/ Me!WriteAlias(s)
      PROVE  FALSE
  <2>1. Does[s] # "resolve"
    BY <1>3 DEF Me!LockName, Me!LockIdentity, Me!ReadCanonical, Me!WriteCanonical,
       Me!ReadAlias, Me!WriteAlias, Statements, Resolvers
  <2>2. \E place \in {"identity", "read", "write", "over"} :
          session' = [session EXCEPT ![s] = place]
    BY <1>3 DEF Me!LockName, Me!LockIdentity, Me!ReadCanonical, Me!WriteCanonical,
       Me!ReadAlias, Me!WriteAlias, Me!Goto, Me!End
  <2>3. session'[s] # "idle"
    BY <2>2 DEF Tables
  <2> QED
    BY <2>1, <2>3 DEF Me!Untouched
<1>4. \E s \in Sessions : \/ Me!Begin(s) \/ Me!ExactAlias(s) \/ Me!ExactKey(s)
                          \/ Me!ProviderIdentity(s) \/ Me!PatternAlias(s)
                          \/ Me!Insert(s) \/ Me!Raced(s)
  BY <1>1, <1>2, <1>3 DEF Me!Next
<1>5. PICK s \in Sessions : \/ Me!Begin(s) \/ Me!ExactAlias(s) \/ Me!ExactKey(s)
                            \/ Me!ProviderIdentity(s) \/ Me!PatternAlias(s)
                            \/ Me!Insert(s) \/ Me!Raced(s)
  BY <1>4
<1>6. s \in Resolvers
  BY <1>5 DEF Me!Begin, Me!ExactAlias, Me!ExactKey, Me!ProviderIdentity, Me!PatternAlias,
     Me!Lookup, Me!Insert, Me!Raced, Statements, Resolvers
<1>7. UNCHANGED merchantEdits /\ \E place : session' = [session EXCEPT ![s] = place]
  BY <1>5 DEF Me!Begin, Me!ExactAlias, Me!ExactKey, Me!ProviderIdentity, Me!PatternAlias,
     Me!Lookup, Me!Insert, Me!Raced, Me!Goto, Me!End
<1>8. Me!Untouched
  BY <1>6, <1>7 DEF Me!Untouched, Tables, Resolvers
<1> QED
  BY <1>5, <1>6, <1>8

\* What an insert collides with bears something of the input.
LEMMA CollidingBears ==
  ASSUME NEW s, NEW m \in Colliding(s)
  PROVE  m \in Bearing(s)
BY DEF Colliding, Me!Matching, Bearing, Me!Bears

\* A step of one resolution that leaves the merchants alone: it answers with what it
\* may find, or goes on.
LEMMA TidyKept ==
  ASSUME Tables, Tidy, NEW s \in Resolvers, session[s] # "over",
         NEW place, UNCHANGED <<merchant, alias>>,
         session' = [session EXCEPT ![s] = place],
         \/ place \notin {"raced", "over"} /\ UNCHANGED answer
         \/ place = "raced" /\ UNCHANGED answer /\ Colliding(s) # {}
         \/ place = "over" /\ \E m \in Bearing(s) : answer' = [answer EXCEPT ![s] = m]
  PROVE  Tidy'
<1>1. \A u \in Resolvers : u \in Sessions
  BY DEF Resolvers
<1>2. \A u \in Sessions : /\ session'[u] = IF u = s THEN place ELSE session[u]
                          /\ u # s => answer'[u] = answer[u]
  BY DEF Tables
<1>3. /\ Me!Present' = Me!Present
      /\ \A u : Bearing(u)' = Bearing(u) /\ Colliding(u)' = Colliding(u)
  BY DEF Me!Present, Bearing, Me!Bears, Colliding, Me!Matching
<1>4. place = "over" => answer'[s] \in Bearing(s)
  BY <1>1 DEF Tables
<1>5. \A u \in Resolvers : /\ session'[u] = "raced" => Colliding(u) # {}
                           /\ session'[u] = "over" => answer'[u] \in Bearing(u)
  BY <1>1, <1>2, <1>4 DEF Tidy
<1>6. \A u \in Resolvers : \A m : Me!Provisional(u, m) => Me!Provisional(u, m)'
  BY <1>1, <1>2 DEF Me!Provisional
<1>7. \A m \in Me!Present' : \E u \in Resolvers : Me!Provisional(u, m)'
  BY <1>3, <1>6 DEF Tidy
<1>8. /\ \A k \in Keys : alias'[k] = None
      /\ \A m, n \in Me!Present' : merchant'[m].key = merchant'[n].key => m = n
  BY <1>3 DEF Tidy
<1>9. \A u \in Resolvers : /\ session'[u] = "raced" => Colliding(u)' # {}
                           /\ session'[u] = "over" => answer'[u] \in Bearing(u)'
  BY <1>3, <1>5
<1> QED
  BY <1>7, <1>8, <1>9 DEF Tidy

\* A lookup that finds only merchants that bear something of the input.
LEMMA LookupKeepsTidy ==
  ASSUME Tables, Tidy, NEW s \in Resolvers, NEW place \in {"alias", "key", "hash", "pattern"},
         NEW hits \in SUBSET Bearing(s), NEW next \in {"key", "hash", "pattern", "insert"},
         Me!Lookup(s, place, hits, next)
  PROVE  Tidy'
<1>1. UNCHANGED <<merchant, alias>>
  BY DEF Me!Lookup
<1>5. session[s] # "over"
  BY DEF Me!Lookup
<1>2. CASE \E m \in hits : Me!End(s, m)
  BY <1>1, <1>2, <1>5, TidyKept DEF Me!End, Me!Goto
<1>3. CASE UNCHANGED answer /\ session' = [session EXCEPT ![s] = place]
  BY <1>1, <1>3, <1>5, TidyKept
<1>4. CASE UNCHANGED answer /\ session' = [session EXCEPT ![s] = next]
  BY <1>1, <1>4, <1>5, TidyKept
<1> QED
  BY <1>2, <1>3, <1>4 DEF Me!Lookup, Me!Goto

\* The insert: the new row is the resolution's own, and nothing like it was there.
LEMMA InsertKeepsTidy ==
  ASSUME Tables, Tidy, NEW s \in Resolvers, Me!Insert(s)
  PROVE  Tidy'
<1> DEFINE row == [present |-> TRUE, key |-> Input[s].provisional, hash |-> Input[s].hash]
<1>1. UNCHANGED alias /\ s \in Sessions /\ session[s] = "insert"
  BY DEF Me!Insert, Resolvers
<1>2. CASE ~Me!Unique(None, Input[s].provisional, Input[s].hash)
  <2>1. UNCHANGED <<merchant, answer>> /\ session' = [session EXCEPT ![s] = "raced"]
    BY <1>2 DEF Me!Insert, Me!Goto
  <2>2. PICK n \in Me!Present : \/ merchant[n].key = Input[s].provisional
                                \/ Input[s].hash # None /\ merchant[n].hash = Input[s].hash
    BY <1>2 DEF Me!Unique
  <2>3. n \in Colliding(s)
    BY <2>2 DEF Colliding, Me!Matching
  <2> QED
    BY <1>1, <2>1, <2>3, TidyKept
<1>3. CASE Me!Unique(None, Input[s].provisional, Input[s].hash)
  <2>1. PICK new \in Ids \ Me!Present :
          /\ merchant' = [merchant EXCEPT ![new] = row]
          /\ session' = [session EXCEPT ![s] = "over"]
          /\ answer' = [answer EXCEPT ![s] = new]
    BY <1>3 DEF Me!Insert, Me!End, Me!Goto
  <2>2. row.present = TRUE /\ row.key = Input[s].provisional /\ row.hash = Input[s].hash
    OBVIOUS
  <2> HIDE DEF row
  <2>3. None \notin Me!Present
    BY MerchantAssumption DEF Me!Present
  <2>4. \A n \in Me!Present : merchant[n].key # Input[s].provisional
    BY <1>3, <2>3 DEF Me!Unique
  <2>5. \A n \in Ids : merchant'[n] = IF n = new THEN row ELSE merchant[n]
    BY <2>1 DEF Tables
  <2>6. Me!Present' = Me!Present \cup {new}
    BY <2>1, <2>2, <2>5 DEF Me!Present
  <2>7. \A n \in Me!Present : n \in Me!Present' /\ n # new /\ merchant'[n] = merchant[n]
    BY <2>1, <2>5, <2>6 DEF Me!Present
  <2>8. \A u \in Sessions : /\ session'[u] = IF u = s THEN "over" ELSE session[u]
                            /\ answer'[u] = IF u = s THEN new ELSE answer[u]
    BY <2>1 DEF Tables
  <2>9. \A u : \A n \in Bearing(u) : n \in Bearing(u)'
    BY <2>7 DEF Bearing, Me!Bears
  <2>10. \A u : \A n \in Colliding(u) : n \in Colliding(u)'
    BY <2>7 DEF Colliding, Me!Matching
  <2>11. Me!Provisional(s, new)' /\ new \in Bearing(s)'
    BY <1>1, <2>1, <2>2, <2>5, <2>6, <2>8 DEF Me!Provisional, Bearing, Me!Bears
  <2>12. \A m \in Me!Present' : \E u \in Resolvers : Me!Provisional(u, m)'
    <3>1. ASSUME NEW m \in Me!Present PROVE \E u \in Resolvers : Me!Provisional(u, m)'
      <4>1. PICK u \in Resolvers : Me!Provisional(u, m)
        BY DEF Tidy
      <4>2. u \in Sessions /\ u # s
        BY <1>1, <4>1 DEF Me!Provisional, Resolvers
      <4>3. Me!Provisional(u, m)'
        BY <2>7, <2>8, <4>1, <4>2 DEF Me!Provisional
      <4> QED
        BY <4>3
    <3> QED
      BY <2>6, <2>11, <3>1
  <2>13. \A m, n \in Me!Present' : merchant'[m].key = merchant'[n].key => m = n
    <3>1. merchant'[new].key = Input[s].provisional
      BY <2>1, <2>2, <2>5
    <3>2. \A m, n \in Me!Present : merchant[m].key = merchant[n].key => m = n
      BY DEF Tidy
    <3> QED
      BY <2>4, <2>6, <2>7, <3>1, <3>2
  <2>14. \A u \in Resolvers : /\ session'[u] = "raced" => Colliding(u)' # {}
                              /\ session'[u] = "over" => answer'[u] \in Bearing(u)'
    <3> TAKE u \in Resolvers
    <3>1. u \in Sessions
      BY DEF Resolvers
    <3>2. CASE u = s
      BY <2>8, <2>11, <3>1, <3>2
    <3>3. CASE u # s
      <4>1. session'[u] = session[u] /\ answer'[u] = answer[u]
        BY <2>8, <3>1, <3>3
      <4>2. /\ session[u] = "raced" => Colliding(u) # {}
            /\ session[u] = "over" => answer[u] \in Bearing(u)
        BY DEF Tidy
      <4> QED
        BY <2>9, <2>10, <4>1, <4>2
    <3> QED
      BY <3>2, <3>3
  <2>15. \A k \in Keys : alias'[k] = None
    BY <1>1 DEF Tidy
  <2> QED
    BY <2>12, <2>13, <2>14, <2>15 DEF Tidy
<1> QED
  BY <1>2, <1>3

\* While nobody edits the merchants, the resolutions keep them tidy.
LEMMA TidyStays ==
  ASSUME Tables, Statements, Tidy, NEW s \in Resolvers,
         \/ Me!Begin(s) \/ Me!ExactAlias(s) \/ Me!ExactKey(s) \/ Me!ProviderIdentity(s)
         \/ Me!PatternAlias(s) \/ Me!Insert(s) \/ Me!Raced(s)
  PROVE  Tidy'
<1>1. CASE Me!Begin(s)
  <2>1. /\ UNCHANGED <<merchant, alias, answer>> /\ session' = [session EXCEPT ![s] = "alias"]
        /\ session[s] = "idle"
    BY <1>1 DEF Me!Begin, Me!Goto
  <2> QED
    BY <2>1, TidyKept
<1>2. s \in Sessions /\ at[s] \in 1..Len(Input[s].keys)
  BY DEF Statements, Resolvers
<1>3. /\ \E i \in DOMAIN Input[s].keys : Me!CurrentKey(s) = Input[s].keys[i]
      /\ Me!CurrentKey(s) \in Keys
  <2>1. Input[s].keys \in Seq(Keys)
    BY <1>2, MerchantAssumption DEF Resolvers
  <2>2. at[s] \in DOMAIN Input[s].keys /\ Input[s].keys[at[s]] \in Keys
    BY <1>2, <2>1
  <2> QED
    BY <2>2 DEF Me!CurrentKey
<1>4. CASE Me!ExactAlias(s)
  <2>1. {m \in Me!Present : /\ alias[Me!CurrentKey(s)] # None
                            /\ alias[Me!CurrentKey(s)].merchant = m} \in SUBSET Bearing(s)
    BY <1>3 DEF Tidy
  <2> QED
    BY <1>4, <2>1, LookupKeepsTidy DEF Me!ExactAlias
<1>5. CASE Me!ExactKey(s)
  <2>1. {m \in Me!Present : merchant[m].key = Me!CurrentKey(s)} \in SUBSET Bearing(s)
    BY <1>3 DEF Bearing, Me!Bears
  <2> QED
    BY <1>5, <2>1, LookupKeepsTidy DEF Me!ExactKey
<1>6. CASE Me!ProviderIdentity(s)
  <2>1. {m \in Me!Present : Input[s].hash # None /\ merchant[m].hash = Input[s].hash}
          \in SUBSET Bearing(s)
    BY DEF Bearing, Me!Bears
  <2> QED
    BY <1>6, <2>1, LookupKeepsTidy DEF Me!ProviderIdentity
<1>7. CASE Me!PatternAlias(s)
  <2>1. Me!PatternMerchants(s) = {}
    BY DEF Me!PatternMerchants, Tidy
  <2>2. {} \in SUBSET Bearing(s)
    OBVIOUS
  <2>3. Me!Lookup(s, "pattern", {}, "insert")
    BY <1>7, <2>1 DEF Me!PatternAlias
  <2> QED
    BY <2>2, <2>3, LookupKeepsTidy
<1>8. CASE Me!Raced(s)
  <2>1. session[s] = "raced" /\ Colliding(s) # {}
    BY <1>8 DEF Me!Raced, Tidy
  <2>2. Me!Winner(s) # {} /\ Me!Winner(s) \subseteq Colliding(s)
    BY <2>1 DEF Me!Winner, Colliding
  <2>3. \E m \in Bearing(s) : Me!End(s, m)
    BY <1>8, <2>2, CollidingBears DEF Me!Raced
  <2>4. /\ UNCHANGED <<merchant, alias>> /\ session' = [session EXCEPT ![s] = "over"]
        /\ \E m \in Bearing(s) : answer' = [answer EXCEPT ![s] = m]
    BY <1>8, <2>3 DEF Me!Raced, Me!End, Me!Goto
  <2> QED
    BY <2>1, <2>4, TidyKept
<1>9. CASE Me!Insert(s)
  BY <1>9, InsertKeepsTidy
<1> QED
  BY <1>1, <1>4, <1>5, <1>6, <1>7, <1>8, <1>9

\* Until somebody edits the merchants no resolution fails and each finds what bears
\* something of its input, for any sessions and inputs; resolutions of one input give
\* one merchant unless the resolution of another left them its own to find.
THEOREM ResolutionsGiveOne == MCSpec => []ResolutionsAgree
<1>1. MCInit => MerchantInv
  BY MerchantInit DEF MCInit
<1>2. MerchantInv /\ [MCNext]_allVars => MerchantInv'
  <2>1. ASSUME MerchantInv, UNCHANGED merchantVars PROVE MerchantInv'
    <3>1. UNCHANGED <<merchant, alias, session, at, answer, merchantEdits>>
      BY <2>1 DEF merchantVars
    <3>2. Tables' /\ Statements'
      BY <2>1, <3>1 DEF MerchantInv, Tables, Statements
    <3>3. Me!Untouched' => Me!Untouched
      BY <3>1 DEF Me!Untouched
    <3>4. Tidy => Tidy'
      <4>1. /\ Me!Present' = Me!Present
            /\ \A u : Bearing(u)' = Bearing(u) /\ Colliding(u)' = Colliding(u)
        BY <3>1 DEF Me!Present, Bearing, Me!Bears, Colliding, Me!Matching
      <4>2. \A u, m : Me!Provisional(u, m) => Me!Provisional(u, m)'
        BY <3>1 DEF Me!Provisional
      <4> QED
        BY <3>1, <4>1, <4>2 DEF Tidy
    <3> QED
      BY <2>1, <3>2, <3>3, <3>4 DEF MerchantInv
  <2>2. ASSUME MerchantInv, Me!Next PROVE MerchantInv'
    <3>1. Tables' /\ Statements'
      BY <2>2, TablesStay, StatementsStay DEF MerchantInv
    <3>2. Me!Untouched' => Tidy'
      BY <2>2, UntouchedBefore, TidyStays DEF MerchantInv
    <3> QED
      BY <3>1, <3>2 DEF MerchantInv
  <2> QED
    BY <2>1, <2>2, MerchantsMove
<1>3. MerchantInv => ResolutionsAgree
  <2> SUFFICES ASSUME MerchantInv, Me!Untouched, NEW s \in Sessions, session[s] = "over"
               PROVE  /\ answer[s] \in Me!Present /\ Me!Bears(answer[s], s)
                      /\ \A u \in Sessions :
                           session[u] = "over" /\ Input[u] = Input[s] /\ answer[u] # answer[s]
                           => \E w \in Sessions, m \in {answer[s], answer[u]} :
                                Input[w] # Input[s] /\ Me!Provisional(w, m)
    BY DEF ResolutionsAgree, Me!ResolutionsAgree
  <2>1. Tidy /\ \A u \in Sessions : session[u] = "over" => u \in Resolvers
    BY DEF MerchantInv, Me!Untouched, Resolvers
  <2>2. \A u \in Sessions : session[u] = "over" => answer[u] \in Me!Present
                                                   /\ Me!Bears(answer[u], u)
    BY <2>1 DEF Tidy, Bearing
  <2>3. ASSUME NEW u \in Sessions, session[u] = "over", Input[u] = Input[s],
               answer[u] # answer[s]
        PROVE  \E w \in Sessions, m \in {answer[s], answer[u]} :
                 Input[w] # Input[s] /\ Me!Provisional(w, m)
    <3>1. PICK v \in Resolvers, w \in Resolvers :
            Me!Provisional(v, answer[s]) /\ Me!Provisional(w, answer[u])
      BY <2>1, <2>2, <2>3 DEF Tidy
    <3>2. /\ merchant[answer[s]].key = Input[v].provisional
          /\ merchant[answer[u]].key = Input[w].provisional
      BY <3>1 DEF Me!Provisional
    <3>3. Input[v] # Input[s] \/ Input[w] # Input[s]
      BY <2>1, <2>2, <2>3, <3>2 DEF Tidy
    <3> QED
      BY <3>1, <3>3 DEF Resolvers
  <2> QED
    BY <2>2, <2>3
<1> QED
  BY <1>1, <1>2, <1>3, PTL DEF MCSpec

-----------------------------------------------------------------------------
(***************************************************************************)
(* Types of merchants.  The unique constraints are in what the writes ask   *)
(* for; that an alias keeps a merchant that exists is the locks' doing: who *)
(* has read the target of an alias holds it until the alias is written, so   *)
(* that no merge takes it away.                                             *)
(***************************************************************************)

AliasRow(k) == alias[k] = [merchant |-> alias[k].merchant, match |-> alias[k].match]

\* A confirmation between its read and its write holds the merchant it names.
TargetHeld(s) ==
    Does[s] = "alias" /\ session[s] = "write" =>
      Input[s].target \in Me!Present /\ <<s, Input[s].target, "shared">> \in held

MerchantTypes ==
    /\ Me!TypeOK
    /\ \A m \in Ids \ Me!Present : merchant[m] = Me!Absent
    /\ \A k \in Keys : alias[k] # None => AliasRow(k)
    /\ \A s \in Sessions : TargetHeld(s)

\* What the table says of rows, and of the merchants of aliases.
RowsTyped ==
    /\ merchant \in [Ids -> [present : BOOLEAN, key : Keys \cup {None}, hash : Hashes \cup {None}]]
    /\ \A m, n \in Me!Present : m # n => /\ merchant[m].key # merchant[n].key
                                         /\ merchant[m].hash # None
                                              => merchant[m].hash # merchant[n].hash
    /\ \A m \in Ids \ Me!Present : merchant[m] = Me!Absent
AliasesTyped == \A k \in Keys : alias[k] # None => AliasRow(k) /\ alias[k].merchant \in Me!Present
SessionsTyped ==
    /\ session \in [Sessions -> {"idle", "alias", "key", "hash", "pattern", "insert", "raced",
                                 "identity", "read", "write", "over"}]
    /\ at \in [Sessions -> 1..3]
    /\ found \in [Sessions -> SUBSET Ids]
    /\ answer \in [Sessions -> Ids \cup {None, "failed"}]
    /\ \A h \in held : h[1] \in Sessions
    /\ merchantEdits \in 0..MaxEdits

LEMMA TypesInParts ==
  MerchantTypes <=> RowsTyped /\ AliasesTyped /\ SessionsTyped /\ \A s \in Sessions : TargetHeld(s)
BY DEF MerchantTypes, RowsTyped, AliasesTyped, SessionsTyped, Me!TypeOK

LEMMA PartsMakeTypes ==
  ASSUME RowsTyped', AliasesTyped', SessionsTyped', \A s \in Sessions : TargetHeld(s)'
  PROVE  MerchantTypes'
BY DEF MerchantTypes, RowsTyped, AliasesTyped, SessionsTyped, Me!TypeOK

\* A write that the unique constraints admit leaves rows that satisfy them.
LEMMA RowStored ==
  ASSUME RowsTyped, NEW m \in Ids, NEW k \in Keys, NEW h \in Hashes \cup {None},
         merchant' = [merchant EXCEPT ![m] = [present |-> TRUE, key |-> k, hash |-> h]],
         \A n \in Me!Present \ {m} : /\ merchant[n].key # k
                                     /\ h # None => merchant[n].hash # h
  PROVE  RowsTyped' /\ Me!Present' = Me!Present \cup {m}
<1> USE DEF RowsTyped
<1>1. \A n \in Ids : merchant'[n] = IF n = m THEN [present |-> TRUE, key |-> k, hash |-> h]
                                    ELSE merchant[n]
  OBVIOUS
<1>2. Me!Present' = Me!Present \cup {m}
  BY <1>1 DEF Me!Present
<1>3. merchant' \in [Ids -> [present : BOOLEAN, key : Keys \cup {None},
                             hash : Hashes \cup {None}]]
  OBVIOUS
<1>4. \A a, b \in Me!Present \cup {m} :
        a # b => /\ merchant'[a].key # merchant'[b].key
                 /\ merchant'[a].hash # None => merchant'[a].hash # merchant'[b].hash
  BY <1>1 DEF Me!Present
<1>5. \A a \in Ids \ (Me!Present \cup {m}) : merchant'[a] = Me!Absent
  BY <1>1
<1> QED
  BY <1>2, <1>3, <1>4, <1>5

\* Sessions that do not move keep what they hold.
LEMMA OthersHold ==
  ASSUME NEW s \in Sessions, \A u \in Sessions : TargetHeld(u),
         \A u \in Sessions \ {s} : session'[u] = session[u],
         \A h \in held : h[1] # s => h \in held',
         Me!Present \subseteq Me!Present', TargetHeld(s)'
  PROVE  \A u \in Sessions : TargetHeld(u)'
<1> SUFFICES ASSUME NEW u \in Sessions, u # s PROVE TargetHeld(u)'
  OBVIOUS
<1>1. TargetHeld(u) /\ session'[u] = session[u]
  OBVIOUS
<1>2. <<u, Input[u].target, "shared">> \in held => <<u, Input[u].target, "shared">> \in held'
  OBVIOUS
<1> QED
  BY <1>1, <1>2 DEF TargetHeld

\* The end of a session frees its locks.
LEMMA EndKeeps ==
  ASSUME SessionsTyped, NEW s \in Sessions, NEW result \in Ids \cup {None, "failed"},
         Me!End(s, result), UNCHANGED <<at, found>>, merchantEdits' \in 0..MaxEdits
  PROVE  /\ SessionsTyped'
         /\ \A u \in Sessions \ {s} : session'[u] = session[u]
         /\ \A h \in held : h[1] # s => h \in held'
         /\ TargetHeld(s)'
BY DEF SessionsTyped, Me!End, Me!Goto, TargetHeld

LEMMA LookupKeeps ==
  ASSUME Statements, MerchantTypes, NEW s \in Resolvers, NEW place, NEW hits, NEW next,
         hits \subseteq Ids, place \in {"alias", "key", "hash", "pattern"},
         next \in {"key", "hash", "pattern", "insert"}, Me!Lookup(s, place, hits, next)
  PROVE  MerchantTypes'
<1>1. /\ s \in Sessions /\ Does[s] = "resolve" /\ Len(Input[s].keys) <= 3
      /\ at[s] \in 1..Len(Input[s].keys) /\ Len(Input[s].keys) \in Nat
  <2>1. s \in Sessions /\ Does[s] = "resolve"
    BY DEF Resolvers
  <2>2. Input[s].keys \in Seq(Keys) /\ Len(Input[s].keys) <= 3
    BY <2>1, MerchantAssumption
  <2>3. at[s] \in 1..Len(Input[s].keys)
    BY DEF Statements
  <2> QED
    BY <2>1, <2>2, <2>3
<1>2. UNCHANGED <<merchant, alias, found, merchantEdits>>
  BY DEF Me!Lookup
<1>3. RowsTyped' /\ AliasesTyped' /\ Me!Present' = Me!Present
  BY <1>2, TypesInParts DEF RowsTyped, AliasesTyped, AliasRow, Me!Present
<1>4. /\ SessionsTyped'
      /\ \A u \in Sessions \ {s} : session'[u] = session[u]
      /\ \A h \in held : h[1] # s => h \in held'
  <2>1. CASE \E m \in hits : Me!End(s, m) /\ UNCHANGED at
    <3>1. PICK m \in hits : Me!End(s, m) /\ UNCHANGED at
      BY <2>1
    <3>2. m \in Ids \cup {None, "failed"} /\ merchantEdits' \in 0..MaxEdits
      BY <1>2, TypesInParts DEF SessionsTyped
    <3> QED
      BY <1>1, <1>2, <3>1, <3>2, EndKeeps, TypesInParts
  <2>2. CASE \E n \in 1..3, p \in {place, next} :
               /\ at' = [at EXCEPT ![s] = n] /\ session' = [session EXCEPT ![s] = p]
               /\ UNCHANGED <<answer, held>>
    BY <1>1, <1>2, <2>2, TypesInParts DEF SessionsTyped
  <2>3. \/ \E m \in hits : Me!End(s, m) /\ UNCHANGED at
        \/ \E n \in 1..3, p \in {place, next} :
             /\ at' = [at EXCEPT ![s] = n] /\ session' = [session EXCEPT ![s] = p]
             /\ UNCHANGED <<answer, held>>
    <3>1. ASSUME at[s] < Len(Input[s].keys) PROVE at[s] + 1 \in 1..3
      BY <1>1, <3>1
    <3> QED
      BY <3>1 DEF Me!Lookup, Me!Goto
  <2> QED
    BY <2>1, <2>2, <2>3
<1>5. TargetHeld(s)'
  BY <1>1 DEF TargetHeld
<1>6. \A u \in Sessions : TargetHeld(u)
  BY TypesInParts
<1>7. \A u \in Sessions : TargetHeld(u)'
  BY <1>1, <1>3, <1>4, <1>5, <1>6, OthersHold
<1> QED
  BY <1>3, <1>4, <1>7, PartsMakeTypes

\* A session that moves without a write, and keeps or ends what it holds.
LEMMA MoveKeeps ==
  ASSUME MerchantTypes, NEW s \in Sessions, UNCHANGED <<merchant, alias>>,
         SessionsTyped', \A u \in Sessions \ {s} : session'[u] = session[u],
         \A h \in held : h[1] # s => h \in held', TargetHeld(s)'
  PROVE  MerchantTypes'
<1>1. RowsTyped' /\ AliasesTyped' /\ Me!Present' = Me!Present
  BY TypesInParts DEF RowsTyped, AliasesTyped, AliasRow, Me!Present
<1>2. \A u \in Sessions : TargetHeld(u)
  BY TypesInParts
<1>3. \A u \in Sessions : TargetHeld(u)'
  BY <1>1, <1>2, OthersHold
<1> QED
  BY <1>1, <1>3, PartsMakeTypes

LEMMA EndKeepsTypes ==
  ASSUME MerchantTypes, NEW s \in Sessions, NEW result \in Ids \cup {None, "failed"},
         Me!End(s, result), UNCHANGED <<merchant, alias, at, found>>,
         merchantEdits' \in 0..MaxEdits
  PROVE  MerchantTypes'
BY EndKeeps, MoveKeeps, TypesInParts

\* Lock requests and reads.
LEMMA LocksKeep ==
  ASSUME MerchantTypes, NEW s \in Sessions, NEW whats, NEW mode, Me!Locks(s, whats, mode),
         NEW place \in {"identity", "read", "write"}, Me!Goto(s, place),
         UNCHANGED <<merchant, alias, at, answer, merchantEdits>>,
         found' \in [Sessions -> SUBSET Ids],
         place = "write" /\ Does[s] = "alias" =>
           Input[s].target \in Me!Present /\ whats = {Input[s].target} /\ mode = "shared"
  PROVE  MerchantTypes'
<1> USE DEF Me!Locks, Me!Goto
<1>1. SessionsTyped'
  <2>1. \A h \in held' : h[1] \in Sessions
    BY TypesInParts DEF SessionsTyped
  <2> QED
    BY <2>1, TypesInParts DEF SessionsTyped
<1>2. \A u \in Sessions : session'[u] = IF u = s THEN place ELSE session[u]
  BY TypesInParts DEF SessionsTyped
<1>3. TargetHeld(s)'
  BY <1>2 DEF TargetHeld, Me!Present
<1> QED
  BY <1>1, <1>2, <1>3, MoveKeeps

\* Every statement that writes no row or alias.
LEMMA StatementsKeepTypes ==
  ASSUME Statements, MerchantTypes, NEW s \in Sessions,
         \/ Me!Begin(s) \/ Me!ExactAlias(s) \/ Me!ExactKey(s) \/ Me!ProviderIdentity(s)
         \/ Me!PatternAlias(s) \/ Me!Raced(s) \/ Me!LockName(s) \/ Me!LockIdentity(s)
         \/ Me!ReadCanonical(s) \/ Me!ReadAlias(s) \/ Me!Abort(s)
  PROVE  MerchantTypes'
<1>1. Me!Present \subseteq Ids /\ merchantEdits \in 0..MaxEdits /\ MaxEdits \in Nat
  BY TypesInParts, ReplacementAssumption DEF SessionsTyped, Me!Present
<1>2. \A u \in Sessions \ Resolvers : session[u] \in {"idle", "identity", "read", "write", "over"}
  BY DEF Statements
<1>3. CASE Me!Begin(s)
  <2>1. /\ session' = [session EXCEPT ![s] = "alias"]
        /\ UNCHANGED <<merchant, alias, at, found, answer, held, merchantEdits>>
        /\ Does[s] = "resolve"
    BY <1>3 DEF Me!Begin, Me!Goto
  <2>2. SessionsTyped' /\ \A u \in Sessions \ {s} : session'[u] = session[u]
    BY <2>1, TypesInParts DEF SessionsTyped
  <2> QED
    BY <2>1, <2>2, MoveKeeps DEF TargetHeld
<1>4. ASSUME NEW place \in {"alias", "key", "hash", "pattern"}, NEW hits, NEW next,
             Me!Lookup(s, place, hits, next)
      PROVE  s \in Resolvers
  BY <1>2, <1>4 DEF Me!Lookup
<1>5. CASE Me!ExactAlias(s)
  BY <1>1, <1>4, <1>5, LookupKeeps DEF Me!ExactAlias
<1>6. CASE Me!ExactKey(s)
  BY <1>1, <1>4, <1>6, LookupKeeps DEF Me!ExactKey
<1>7. CASE Me!ProviderIdentity(s)
  BY <1>1, <1>4, <1>7, LookupKeeps DEF Me!ProviderIdentity
<1>8. CASE Me!PatternAlias(s)
  <2>1. Me!PatternMerchants(s) \subseteq Ids
    BY <1>1, TypesInParts DEF Me!PatternMerchants, AliasesTyped
  <2> QED
    BY <1>4, <1>8, <2>1, LookupKeeps DEF Me!PatternAlias
<1>9. CASE Me!Raced(s)
  <2>1. Me!Winner(s) \subseteq Ids
    BY <1>1 DEF Me!Winner, Me!Matching
  <2>2. \E result \in Ids \cup {None, "failed"} : Me!End(s, result)
    BY <1>9, <2>1 DEF Me!Raced
  <2> QED
    BY <1>1, <1>9, <2>2, EndKeepsTypes DEF Me!Raced
<1>10. found \in [Sessions -> SUBSET Ids]
  BY TypesInParts DEF SessionsTyped
<1>11. CASE Me!LockName(s)
  <2>1. PICK place \in {"identity", "read"} : Me!Goto(s, place)
    BY <1>11 DEF Me!LockName
  <2> QED
    BY <1>10, <1>11, <2>1, LocksKeep DEF Me!LockName
<1>12. CASE Me!LockIdentity(s)
  BY <1>10, <1>12, LocksKeep DEF Me!LockIdentity
<1>13. CASE Me!ReadCanonical(s)
  <2> DEFINE match == Me!Matching(Input[s].key, Input[s].hash)
  <2>1. match \subseteq Ids
    BY <1>1 DEF Me!Matching
  <2>2. CASE Me!End(s, "failed") /\ UNCHANGED found
    BY <1>1, <1>13, <2>2, EndKeepsTypes DEF Me!ReadCanonical
  <2>3. CASE /\ Me!Locks(s, match, "exclusive") /\ found' = [found EXCEPT ![s] = match]
             /\ Me!Goto(s, "write") /\ UNCHANGED answer
    <3>1. found' \in [Sessions -> SUBSET Ids]
      BY <1>10, <2>1, <2>3
    <3> QED
      BY <1>13, <2>3, <3>1, LocksKeep DEF Me!ReadCanonical
  <2> QED
    BY <1>13, <2>2, <2>3 DEF Me!ReadCanonical
<1>14. CASE Me!ReadAlias(s)
  <2>1. CASE Me!End(s, "failed")
    BY <1>1, <1>14, <2>1, EndKeepsTypes DEF Me!ReadAlias
  <2>2. CASE /\ Input[s].target \in Me!Present
             /\ Me!Locks(s, {Input[s].target}, "shared") /\ Me!Goto(s, "write")
             /\ UNCHANGED answer
    BY <1>10, <1>14, <2>2, LocksKeep DEF Me!ReadAlias
  <2> QED
    BY <1>14, <2>1, <2>2 DEF Me!ReadAlias
<1>15. CASE Me!Abort(s)
  <2>1. merchantEdits' \in 0..MaxEdits
    BY <1>1, <1>15 DEF Me!Abort
  <2> QED
    BY <1>15, <2>1, EndKeepsTypes DEF Me!Abort
<1> QED
  BY <1>3, <1>5, <1>6, <1>7, <1>8, <1>9, <1>11, <1>12, <1>13, <1>14, <1>15

\* A session that stores a row and ends.
LEMMA StoreKeepsTypes ==
  ASSUME MerchantTypes, NEW s \in Sessions, NEW m \in Ids, NEW k \in Keys,
         NEW h \in Hashes \cup {None},
         merchant' = [merchant EXCEPT ![m] = [present |-> TRUE, key |-> k, hash |-> h]],
         \A n \in Me!Present \ {m} : /\ merchant[n].key # k
                                     /\ h # None => merchant[n].hash # h,
         Me!End(s, m), UNCHANGED <<alias, at, found, merchantEdits>>
  PROVE  MerchantTypes'
<1>1. RowsTyped' /\ Me!Present' = Me!Present \cup {m}
  BY RowStored, TypesInParts
<1>2. AliasesTyped'
  BY <1>1, TypesInParts DEF AliasesTyped, AliasRow
<1>3. merchantEdits' \in 0..MaxEdits
  BY TypesInParts DEF SessionsTyped
<1>4. /\ SessionsTyped' /\ TargetHeld(s)'
      /\ \A u \in Sessions \ {s} : session'[u] = session[u]
      /\ \A l \in held : l[1] # s => l \in held'
  BY <1>3, EndKeeps, TypesInParts
<1>5. \A u \in Sessions : TargetHeld(u)
  BY TypesInParts
<1>6. \A u \in Sessions : TargetHeld(u)'
  BY <1>1, <1>4, <1>5, OthersHold
<1> QED
  BY <1>1, <1>2, <1>4, <1>6, PartsMakeTypes

LEMMA InsertKeepsTypes ==
  ASSUME Statements, MerchantTypes, NEW s \in Sessions, Me!Insert(s)
  PROVE  MerchantTypes'
<1>1. s \in Resolvers
  BY DEF Statements, Me!Insert
<1>2. /\ Input[s].provisional \in Keys /\ Input[s].hash \in Hashes \cup {None}
      /\ None \notin Ids
  BY <1>1, MerchantAssumption DEF Resolvers
<1>3. CASE Me!Unique(None, Input[s].provisional, Input[s].hash)
  <2>1. PICK m \in Ids :
          /\ merchant' = [merchant EXCEPT ![m] = [present |-> TRUE,
                                                  key |-> Input[s].provisional,
                                                  hash |-> Input[s].hash]]
          /\ Me!End(s, m)
    BY <1>3 DEF Me!Insert
  <2>2. \A n \in Me!Present \ {m} : /\ merchant[n].key # Input[s].provisional
                                    /\ Input[s].hash # None => merchant[n].hash # Input[s].hash
    BY <1>2, <1>3 DEF Me!Unique, Me!Present
  <2>3. UNCHANGED <<alias, at, found, merchantEdits>>
    BY DEF Me!Insert
  <2> QED
    BY <1>2, <2>1, <2>2, <2>3, StoreKeepsTypes
<1>4. CASE ~Me!Unique(None, Input[s].provisional, Input[s].hash)
  <2>1. /\ session' = [session EXCEPT ![s] = "raced"]
        /\ UNCHANGED <<merchant, alias, at, found, answer, held, merchantEdits>>
    BY <1>4 DEF Me!Insert, Me!Goto
  <2>2. SessionsTyped' /\ \A u \in Sessions \ {s} : session'[u] = session[u]
    BY <2>1, TypesInParts DEF SessionsTyped
  <2>3. TargetHeld(s)'
    BY <1>1 DEF TargetHeld, Resolvers
  <2> QED
    BY <2>1, <2>2, <2>3, MoveKeeps
<1> QED
  BY <1>3, <1>4

LEMMA CanonicalKeepsTypes ==
  ASSUME MerchantTypes, NEW s \in Sessions, Me!WriteCanonical(s)
  PROVE  MerchantTypes'
<1>1. Input[s].key \in Keys /\ Input[s].hash \in Hashes \cup {None}
  BY MerchantAssumption DEF Me!WriteCanonical
<1>2. found[s] \subseteq Ids /\ merchantEdits \in 0..MaxEdits
  BY TypesInParts DEF SessionsTyped
<1>3. PICK m \in Ids :
        IF Me!Unique(m, Input[s].key, Input[s].hash)
          THEN /\ merchant' = [merchant EXCEPT ![m] =
                                 [present |-> TRUE, key |-> Input[s].key,
                                  hash |-> IF Input[s].hash # None THEN Input[s].hash
                                           ELSE merchant[m].hash]]
               /\ Me!End(s, m)
          ELSE Me!End(s, "failed") /\ UNCHANGED merchant
  BY <1>2 DEF Me!WriteCanonical, Me!Present
<1>4. UNCHANGED <<alias, at, found, merchantEdits>>
  BY DEF Me!WriteCanonical
<1>5. CASE Me!Unique(m, Input[s].key, Input[s].hash)
  <2> DEFINE h == IF Input[s].hash # None THEN Input[s].hash ELSE merchant[m].hash
  <2>1. RowsTyped
    BY TypesInParts
  <2>2. h \in Hashes \cup {None}
    BY <1>1, <2>1 DEF RowsTyped
  <2>3. ASSUME NEW n \in Me!Present \ {m}
        PROVE  merchant[n].key # Input[s].key /\ (h # None => merchant[n].hash # h)
    <3>1. merchant[n].key # Input[s].key
      BY <1>5 DEF Me!Unique
    <3>2. Input[s].hash # None => merchant[n].hash # Input[s].hash
      BY <1>5 DEF Me!Unique
    <3>3. CASE m \in Me!Present
      BY <2>1, <3>1, <3>2, <3>3 DEF RowsTyped
    <3>4. CASE m \notin Me!Present
      BY <2>1, <3>1, <3>2, <3>4 DEF RowsTyped, Me!Absent
    <3> QED
      BY <3>3, <3>4
  <2>4. /\ merchant' = [merchant EXCEPT ![m] = [present |-> TRUE, key |-> Input[s].key,
                                                hash |-> h]]
        /\ Me!End(s, m)
    BY <1>3, <1>5
  <2> HIDE DEF h
  <2> QED
    BY <1>1, <1>4, <2>2, <2>3, <2>4, StoreKeepsTypes
<1>6. CASE ~Me!Unique(m, Input[s].key, Input[s].hash)
  BY <1>2, <1>3, <1>4, <1>6, EndKeepsTypes
<1> QED
  BY <1>5, <1>6

LEMMA AliasKeepsTypes ==
  ASSUME MerchantTypes, NEW s \in Sessions, Me!WriteAlias(s)
  PROVE  MerchantTypes'
<1>1. Input[s].target \in Me!Present /\ Me!Present \subseteq Ids
  BY TypesInParts DEF Me!WriteAlias, TargetHeld, Me!Present
<1>2. UNCHANGED <<merchant, at, found, merchantEdits>> /\ merchantEdits \in 0..MaxEdits
  BY TypesInParts DEF Me!WriteAlias, SessionsTyped
<1>3. CASE Me!End(s, "failed") /\ UNCHANGED alias
  BY <1>2, <1>3, EndKeepsTypes
<1>4. CASE /\ alias' = [alias EXCEPT ![Input[s].key] =
                          [merchant |-> Input[s].target, match |-> Input[s].match]]
           /\ Me!End(s, Input[s].target)
  <2>1. RowsTyped' /\ Me!Present' = Me!Present
    BY <1>2, TypesInParts DEF RowsTyped, Me!Present
  <2>2. \A k \in Keys : alias'[k] = alias[k] \/ alias'[k] = [merchant |-> Input[s].target,
                                                            match |-> Input[s].match]
    BY <1>4
  <2>3. AliasesTyped'
    BY <1>1, <2>1, <2>2, TypesInParts DEF AliasesTyped, AliasRow
  <2>4. /\ SessionsTyped' /\ TargetHeld(s)'
        /\ \A u \in Sessions \ {s} : session'[u] = session[u]
        /\ \A l \in held : l[1] # s => l \in held'
    BY <1>1, <1>2, <1>4, EndKeeps, TypesInParts
  <2>5. \A u \in Sessions : TargetHeld(u)
    BY TypesInParts
  <2>6. \A u \in Sessions : TargetHeld(u)'
    BY <2>1, <2>4, <2>5, OthersHold
  <2> QED
    BY <2>1, <2>3, <2>4, <2>6, PartsMakeTypes
<1> QED
  BY <1>3, <1>4 DEF Me!WriteAlias

LEMMA Rekeyed ==
  ASSUME NEW row, NEW p, NEW old, NEW h, NEW k, row = [present |-> p, key |-> old, hash |-> h]
  PROVE  [row EXCEPT !.key = k] = [present |-> p, key |-> k, hash |-> h]
OBVIOUS

LEMMA RenameKeepsTypes ==
  ASSUME MerchantTypes, NEW m \in Ids, NEW k \in Keys, Me!Rename(m, k)
  PROVE  MerchantTypes'
<1> DEFINE h == merchant[m].hash
<1>1. RowsTyped /\ m \in Me!Present
  BY TypesInParts DEF Me!Rename
<1>2. /\ merchant' = [merchant EXCEPT ![m] = [present |-> TRUE, key |-> k, hash |-> h]]
      /\ h \in Hashes \cup {None}
  <2>1. /\ merchant[m] = [present |-> TRUE, key |-> merchant[m].key, hash |-> h]
        /\ h \in Hashes \cup {None}
    BY <1>1 DEF RowsTyped, Me!Present
  <2>2. [merchant[m] EXCEPT !.key = k] = [present |-> TRUE, key |-> k, hash |-> h]
    <3>1. PICK p : p = TRUE
      OBVIOUS
    <3>2. \A old : merchant[m] = [present |-> p, key |-> old, hash |-> h]
            => [merchant[m] EXCEPT !.key = k] = [present |-> p, key |-> k, hash |-> h]
      BY Rekeyed
    <3> QED
      BY <2>1, <3>1, <3>2, Zenon
  <2>3. merchant' = [merchant EXCEPT ![m] = [merchant[m] EXCEPT !.key = k]]
    BY DEF Me!Rename
  <2> QED
    BY <2>1, <2>2, <2>3
<1>3. \A n \in Me!Present \ {m} : merchant[n].key # k /\ (h # None => merchant[n].hash # h)
  BY <1>1 DEF Me!Rename, Me!Unique, RowsTyped
<1> HIDE DEF h
<1>4. RowsTyped' /\ Me!Present' = Me!Present \cup {m}
  BY <1>1, <1>2, <1>3, RowStored
<1>5. /\ UNCHANGED <<alias, session, at, found, answer, held>>
      /\ merchantEdits' \in 0..MaxEdits
  BY TypesInParts, ReplacementAssumption DEF Me!Rename, SessionsTyped
<1>6. AliasesTyped' /\ SessionsTyped' /\ \A u \in Sessions : TargetHeld(u)'
  BY <1>4, <1>5, TypesInParts DEF AliasesTyped, AliasRow, SessionsTyped, TargetHeld
<1> QED
  BY <1>4, <1>6, PartsMakeTypes

\* A merge takes no merchant that an alias is about to name, and leaves none that names it.
LEMMA MergeKeepsTypes ==
  ASSUME MerchantTypes, NEW m \in Ids, NEW n \in Ids, Me!Merge(m, n)
  PROVE  MerchantTypes'
<1>1. /\ m \in Me!Present /\ n \in Me!Present /\ m # n
      /\ merchant' = [merchant EXCEPT ![m] = Me!Absent]
      /\ UNCHANGED <<session, at, found, answer, held>>
      /\ Me!MayLock(None, m, "exclusive")
  BY DEF Me!Merge
<1>2. RowsTyped /\ AliasesTyped /\ SessionsTyped /\ \A u \in Sessions : TargetHeld(u)
  BY TypesInParts
<1>3. \A a \in Ids : merchant'[a] = IF a = m THEN Me!Absent ELSE merchant[a]
  BY <1>1, <1>2 DEF RowsTyped
<1>4. Me!Present' = Me!Present \ {m}
  BY <1>3 DEF Me!Present, Me!Absent
<1>5. RowsTyped'
  <2>1. merchant' \in [Ids -> [present : BOOLEAN, key : Keys \cup {None},
                               hash : Hashes \cup {None}]]
    BY <1>1, <1>2 DEF RowsTyped, Me!Absent
  <2>2. \A a \in Ids \ Me!Present' : merchant'[a] = Me!Absent
    BY <1>2, <1>3, <1>4 DEF RowsTyped
  <2>3. \A a, b \in Me!Present' :
          a # b => /\ merchant'[a].key # merchant'[b].key
                   /\ merchant'[a].hash # None => merchant'[a].hash # merchant'[b].hash
    BY <1>2, <1>3, <1>4 DEF RowsTyped, Me!Present
  <2> QED
    BY <2>1, <2>2, <2>3 DEF RowsTyped
<1>6. AliasesTyped'
  <2> SUFFICES ASSUME NEW k \in Keys, alias'[k] # None
               PROVE  AliasRow(k)' /\ alias'[k].merchant \in Me!Present'
    BY DEF AliasesTyped
  <2> DEFINE key == merchant[m].key
  <2>1. \/ k = key /\ \E match : alias'[k] = [merchant |-> n, match |-> match]
        \/ k # key /\ alias[k] # None /\ alias[k].merchant = m
             /\ alias'[k] = [alias[k] EXCEPT !.merchant = n]
        \/ k # key /\ ~(alias[k] # None /\ alias[k].merchant = m) /\ alias'[k] = alias[k]
    BY DEF Me!Merge
  <2>2. CASE k = key
    <3>1. PICK match : alias'[k] = [merchant |-> n, match |-> match]
      BY <2>1, <2>2
    <3>2. alias'[k].merchant = n /\ alias'[k].match = match
      BY <3>1
    <3>3. alias'[k] = [merchant |-> alias'[k].merchant, match |-> alias'[k].match]
      BY <3>1, <3>2
    <3> QED
      BY <1>1, <1>4, <3>2, <3>3 DEF AliasRow
  <2>3. CASE k # key /\ alias[k] # None /\ alias[k].merchant = m
    <3>1. alias[k] = [merchant |-> alias[k].merchant, match |-> alias[k].match]
      BY <1>2, <2>3 DEF AliasesTyped, AliasRow
    <3>2. alias'[k] = [merchant |-> n, match |-> alias[k].match]
      BY <2>1, <2>3, <3>1
    <3> QED
      BY <1>1, <1>4, <3>2 DEF AliasRow
  <2>4. CASE k # key /\ alias'[k] = alias[k] /\ ~(alias[k] # None /\ alias[k].merchant = m)
    BY <1>2, <1>4, <2>4 DEF AliasesTyped, AliasRow
  <2> QED
    BY <2>1, <2>2, <2>3, <2>4
<1>7. SessionsTyped'
  <2>1. merchantEdits' \in 0..MaxEdits
    BY <1>2, ReplacementAssumption DEF Me!Merge, SessionsTyped
  <2> QED
    BY <1>1, <1>2, <2>1 DEF SessionsTyped
<1>8. \A u \in Sessions : TargetHeld(u)'
  <2> SUFFICES ASSUME NEW u \in Sessions, Does[u] = "alias", session[u] = "write"
               PROVE  /\ Input[u].target \in Me!Present'
                      /\ <<u, Input[u].target, "shared">> \in held
    BY <1>1 DEF TargetHeld
  <2>1. Input[u].target \in Me!Present /\ <<u, Input[u].target, "shared">> \in held
    BY <1>2 DEF TargetHeld
  <2>2. Input[u].target # m
    <3>1. u # None
      BY MerchantAssumption
    <3> QED
      BY <1>1, <2>1, <3>1 DEF Me!MayLock
  <2> QED
    BY <1>4, <2>1, <2>2
<1> QED
  BY <1>5, <1>6, <1>7, <1>8, PartsMakeTypes

LEMMA MerchantTypesInit == Me!Init => MerchantTypes
<1> SUFFICES ASSUME Me!Init PROVE MerchantTypes
  OBVIOUS
<1>1. Me!Present = {} /\ RowsTyped /\ AliasesTyped
  BY DEF Me!Init, Me!Present, Me!Absent, RowsTyped, AliasesTyped
<1>2. SessionsTyped /\ \A s \in Sessions : TargetHeld(s)
  BY ReplacementAssumption DEF Me!Init, SessionsTyped, TargetHeld
<1> QED
  BY <1>1, <1>2, TypesInParts

LEMMA MerchantTypesStep ==
  ASSUME Statements, MerchantTypes, Me!Next \/ UNCHANGED merchantVars
  PROVE  MerchantTypes'
<1>1. CASE UNCHANGED merchantVars
  BY <1>1, TypesInParts, PartsMakeTypes
  DEF merchantVars, RowsTyped, AliasesTyped, AliasRow, SessionsTyped, TargetHeld, Me!Present
<1>2. CASE Me!Next
  BY <1>2, StatementsKeepTypes, InsertKeepsTypes, CanonicalKeepsTypes, AliasKeepsTypes,
     RenameKeepsTypes, MergeKeepsTypes DEF Me!Next
<1> QED
  BY <1>1, <1>2

-----------------------------------------------------------------------------
(***************************************************************************)
(* Recurring series: the arithmetic of the detection query.  That the        *)
(* intervals have a largest and a smallest is an induction on their number,  *)
(* by a least number for which it fails.                                    *)
(***************************************************************************)

\* Among finitely many integers, one is the largest.
LEMMA HasLargest ==
  ASSUME NEW n \in Nat, n > 0, NEW f, \A i \in 1..n : f[i] \in Int
  PROVE  \E k \in 1..n : \A i \in 1..n : f[i] <= f[k]
<1> DEFINE Largest(m) == \E k \in 1..m : \A i \in 1..m : f[i] <= f[k]
           without == {m \in 1..n : ~Largest(m)}
<1>1. Largest(1)
  <2>1. 1 \in 1..1 /\ \A i \in 1..1 : i = 1
    OBVIOUS
  <2>2. f[1] \in Int
    OBVIOUS
  <2> QED
    BY <2>1, <2>2
<1>2. ASSUME NEW m \in Nat, m > 0, m < n, Largest(m) PROVE Largest(m + 1)
  <2>1. PICK k \in 1..m : \A i \in 1..m : f[i] <= f[k]
    BY <1>2
  <2>2. \A i \in 1..(m + 1) : f[i] \in Int /\ (i \in 1..m \/ i = m + 1)
    BY <1>2
  <2>3. k \in 1..(m + 1) /\ m + 1 \in 1..(m + 1)
    BY <1>2
  <2>4. CASE f[m + 1] <= f[k]
    BY <2>1, <2>2, <2>3, <2>4
  <2>5. CASE ~(f[m + 1] <= f[k])
    <3>1. \A i \in 1..(m + 1) : f[i] <= f[m + 1]
      BY <2>1, <2>2, <2>3, <2>5
    <3> QED
      BY <2>3, <3>1
  <2> QED
    BY <2>4, <2>5
<1>3. \A m \in without : m \in Nat /\ m > 0 /\ m <= n /\ ~Largest(m)
  OBVIOUS
<1>4. n \notin without => Largest(n)
  OBVIOUS
<1>5. without \in SUBSET Nat
  OBVIOUS
<1>6. \A m \in Nat : m > 0 /\ m <= n /\ ~Largest(m) => m \in without
  OBVIOUS
<1> HIDE DEF Largest, without
<1>7. without = {}
  <2> SUFFICES ASSUME without # {} PROVE FALSE
    OBVIOUS
  <2>1. PICK least \in without : \A m \in without : ~(m < least)
    BY <1>5, Least
  <2>2. least # 1
    BY <1>1, <1>3
  <2>3. least - 1 \in Nat /\ least - 1 > 0 /\ least - 1 < n /\ least - 1 < least
    BY <1>3, <2>2
  <2>4. Largest(least - 1)
    BY <1>6, <2>1, <2>3
  <2>5. Largest((least - 1) + 1)
    BY <1>2, <2>3, <2>4
  <2>6. (least - 1) + 1 = least
    BY <1>3
  <2> QED
    BY <1>3, <2>5, <2>6
<1> QED
  BY <1>4, <1>7 DEF Largest

\* The largest and the smallest of finitely many integers are among them.
LEMMA Extremes ==
  ASSUME NEW n \in Nat, n > 0, NEW f, \A i \in 1..n : f[i] \in Int, NEW S,
         S = {f[i] : i \in 1..n}
  PROVE  /\ Se!Max(S) \in S /\ \A v \in S : v <= Se!Max(S)
         /\ Se!Min(S) \in S /\ \A v \in S : Se!Min(S) <= v
<1> DEFINE opposite == [i \in 1..n |-> -f[i]]
<1>1. PICK k \in 1..n : \A i \in 1..n : f[i] <= f[k]
  BY HasLargest
<1>2. \A i \in 1..n : opposite[i] = -f[i] /\ opposite[i] \in Int
  OBVIOUS
<1> HIDE DEF opposite
<1>3. PICK l \in 1..n : \A i \in 1..n : opposite[i] <= opposite[l]
  BY <1>2, HasLargest
<1>4. \A i \in 1..n : f[l] <= f[i]
  BY <1>2, <1>3
<1>5. \E v \in S : \A w \in S : v >= w
  BY <1>1
<1>6. \E v \in S : \A w \in S : v <= w
  BY <1>4
<1>7. Se!Max(S) \in S /\ \A w \in S : Se!Max(S) >= w
  BY <1>5 DEF Se!Max
<1>8. Se!Min(S) \in S /\ \A w \in S : Se!Min(S) <= w
  BY <1>6 DEF Se!Min
<1>9. \A v \in S : v \in Int
  OBVIOUS
<1> QED
  BY <1>7, <1>8, <1>9

\* Days are integers, and so are the intervals between them.
LEMMA GapsAreIntegers ==
  ASSUME NEW h \in Histories
  PROVE  /\ Len(h) \in Nat
         /\ \A i \in 1..Len(h) : Se!Day(h, i) \in Int
         /\ \A i \in Se!Gaps(h) : Se!Gap(h, i) \in Int
<1>1. h \in Seq(Int \X Int)
  BY SeriesAssumption
<1>2. \A i \in 1..Len(h) : h[i] \in Int \X Int
  BY <1>1
<1>3. \A i \in 1..Len(h) : h[i][1] \in Int
  BY <1>2
<1> QED
  BY <1>1, <1>3 DEF Se!Day, Se!Gap, Se!Gaps

\* Intervals that deviate from their median by at most tolerance differ by at most twice it.
LEMMA RecurringGaps ==
  ASSUME NEW h \in Histories, Len(h) >= 3, NEW low \in Nat, NEW high \in Nat,
         NEW tolerance \in Nat, Se!Recurs(h, low, high, tolerance)
  PROVE  /\ Se!MedianTwice(h) \in (2 * low)..(2 * high)
         /\ LET gaps == {Se!Gap(h, i) : i \in Se!Gaps(h)}
            IN Se!Max(gaps) - Se!Min(gaps) <= 2 * tolerance
<1> DEFINE n == Len(h) - 1
           median == Se!MedianTwice(h)
           gap == [i \in 1..n |-> Se!Gap(h, i)]
           gaps == {Se!Gap(h, i) : i \in Se!Gaps(h)}
           above == [i \in 1..n |-> 2 * Se!Gap(h, i) - median]
           under == [i \in 1..n |-> -(2 * Se!Gap(h, i) - median)]
           offs == {2 * Se!Gap(h, i) - median : i \in Se!Gaps(h)}
                     \cup {-(2 * Se!Gap(h, i) - median) : i \in Se!Gaps(h)}
<1>1. n \in Nat /\ n > 0 /\ Se!Gaps(h) = 1..n
  BY GapsAreIntegers DEF Se!Gaps
<1>2. median \in (2 * low)..(2 * high) /\ median \in Int
  BY DEF Se!Recurs
<1>3. Se!DeviationTwice(h) = Se!Max(offs)
  BY DEF Se!DeviationTwice
<1>4. Se!Max(offs) <= 2 * tolerance
  BY <1>3 DEF Se!Recurs
<1>5. \A i \in 1..n : Se!Gap(h, i) \in Int
  BY <1>1, GapsAreIntegers
<1>6. /\ \A i \in 1..n : above[i] = 2 * Se!Gap(h, i) - median /\ above[i] \in Int
      /\ \A i \in 1..n : under[i] = -(2 * Se!Gap(h, i) - median) /\ under[i] \in Int
      /\ \A i \in 1..n : gap[i] = Se!Gap(h, i) /\ gap[i] \in Int
  <2> HIDE DEF median, n
  <2>1. \A i \in 1..n : above[i] = 2 * Se!Gap(h, i) - median
    OBVIOUS
  <2>2. \A i \in 1..n : under[i] = -(2 * Se!Gap(h, i) - median)
    OBVIOUS
  <2>3. \A i \in 1..n : gap[i] = Se!Gap(h, i)
    OBVIOUS
  <2> HIDE DEF above, under, gap
  <2>4. \A i \in 1..n : above[i] \in Int /\ under[i] \in Int /\ gap[i] \in Int
    BY <1>2, <1>5, <2>1, <2>2, <2>3
  <2> QED
    BY <2>1, <2>2, <2>3, <2>4
<1>7. gaps = {gap[i] : i \in 1..n}
  BY <1>1
<1>8. offs = {above[i] : i \in 1..n} \cup {under[i] : i \in 1..n}
  BY <1>1
<1> HIDE DEF n, median, gap, gaps, above, under, offs
<1>9. /\ Se!Max(gaps) \in gaps /\ Se!Min(gaps) \in gaps
  BY <1>1, <1>6, <1>7, Extremes
<1>10. PICK k \in 1..n : \A i \in 1..n : above[i] <= above[k]
  BY <1>1, <1>6, HasLargest
<1>11. PICK l \in 1..n : \A i \in 1..n : under[i] <= under[l]
  BY <1>1, <1>6, HasLargest
<1>12. \E v \in offs : \A w \in offs : v >= w
  <2>1. above[k] \in offs /\ under[l] \in offs
    BY <1>8
  <2>2. CASE above[k] >= under[l]
    <3>1. \A w \in offs : above[k] >= w
      BY <1>6, <1>8, <1>10, <1>11, <2>2
    <3> QED
      BY <2>1, <3>1
  <2>3. CASE ~(above[k] >= under[l])
    <3>1. \A w \in offs : under[l] >= w
      BY <1>6, <1>8, <1>10, <1>11, <2>3
    <3> QED
      BY <2>1, <3>1
  <2> QED
    BY <2>2, <2>3
<1>13. Se!Max(offs) \in offs /\ \A w \in offs : Se!Max(offs) >= w
  BY <1>12 DEF Se!Max
<1>14. Se!Max(offs) \in Int /\ \A w \in offs : w \in Int
  BY <1>6, <1>8, <1>13
<1>15. \A i \in 1..n : above[i] <= 2 * tolerance /\ under[i] <= 2 * tolerance
  <2> TAKE i \in 1..n
  <2>1. above[i] \in offs /\ under[i] \in offs
    BY <1>8
  <2>2. /\ above[i] <= Se!Max(offs) /\ under[i] <= Se!Max(offs)
        /\ above[i] \in Int /\ under[i] \in Int
    BY <1>13, <1>14, <2>1
  <2> QED
    BY <1>4, <1>14, <2>2
<1>16. \A i, j \in 1..n : gap[i] - gap[j] <= 2 * tolerance
  <2> TAKE i, j \in 1..n
  <2>1. /\ 2 * gap[i] - median <= 2 * tolerance /\ -(2 * gap[j] - median) <= 2 * tolerance
        /\ gap[i] \in Int /\ gap[j] \in Int
    BY <1>6, <1>15
  <2>2. \A a, b, m \in Int : 2 * a - m <= 2 * tolerance /\ -(2 * b - m) <= 2 * tolerance
                             => a - b <= 2 * tolerance
    OBVIOUS
  <2> QED
    BY <1>2, <2>1, <2>2
<1>17. Se!Max(gaps) - Se!Min(gaps) <= 2 * tolerance
  BY <1>7, <1>9, <1>16
<1> QED
  BY <1>2, <1>17 DEF gaps, median

\* A cadence that is seen, and the intervals it allows.
LEMMA CadenceSeen ==
  ASSUME NEW h \in Histories, Se!Cadence[h] # None
  PROVE  /\ Len(h) >= 3
         /\ \/ Se!Cadence[h] = "WEEKLY" /\ Se!Recurs(h, 6, 8, 3)
            \/ Se!Cadence[h] = "MONTHLY" /\ Se!Recurs(h, 26, 35, 6)
            \/ Se!Cadence[h] = "QUARTERLY" /\ Se!Recurs(h, 80, 100, 12)
            \/ Se!Cadence[h] = "ANNUAL" /\ Se!Recurs(h, 350, 380, 25)
<1>1. Len(h) \in Nat
  BY GapsAreIntegers
<1>2. Se!Cadence[h] = IF Len(h) < 3 \/ ~Se!Steady(h) THEN None
                      ELSE CASE Se!Recurs(h, 6, 8, 3) -> "WEEKLY"
                             [] Se!Recurs(h, 26, 35, 6) -> "MONTHLY"
                             [] Se!Recurs(h, 80, 100, 12) -> "QUARTERLY"
                             [] Se!Recurs(h, 350, 380, 25) -> "ANNUAL"
                             [] OTHER -> None
  BY DEF Se!Cadence
<1>3. ~(Len(h) < 3 \/ ~Se!Steady(h))
  BY <1>2
<1> QED
  BY <1>1, <1>2, <1>3

\* CadencesAreRegular holds of whatever the histories are.
LEMMA RegularCadences ==
  ASSUME history \in [Se!Groups -> Histories] PROVE Se!CadencesAreRegular
<1> SUFFICES ASSUME NEW g \in Se!Groups, Se!Eligible(g)
             PROVE  LET spread == [WEEKLY |-> 6, MONTHLY |-> 12, QUARTERLY |-> 24, ANNUAL |-> 50]
                        gaps == {Se!Gap(history[g], i) : i \in Se!Gaps(history[g])}
                    IN Se!Max(gaps) - Se!Min(gaps) <= spread[Se!Cadence[history[g]]]
  BY DEF Se!CadencesAreRegular
<1> DEFINE h == history[g]
           gaps == {Se!Gap(h, i) : i \in Se!Gaps(h)}
<1>1. h \in Histories /\ Se!Cadence[h] # None
  BY DEF Se!Eligible
<1> HIDE DEF h
<1>2. Len(h) >= 3
  BY <1>1, CadenceSeen
<1>3. CASE Se!Cadence[h] = "WEEKLY" /\ Se!Recurs(h, 6, 8, 3)
  <2>1. Se!Max(gaps) - Se!Min(gaps) <= 2 * 3
    BY <1>1, <1>2, <1>3, RecurringGaps
  <2> QED
    BY <1>3, <2>1 DEF h
<1>4. CASE Se!Cadence[h] = "MONTHLY" /\ Se!Recurs(h, 26, 35, 6)
  <2>1. Se!Max(gaps) - Se!Min(gaps) <= 2 * 6
    BY <1>1, <1>2, <1>4, RecurringGaps
  <2> QED
    BY <1>4, <2>1 DEF h
<1>5. CASE Se!Cadence[h] = "QUARTERLY" /\ Se!Recurs(h, 80, 100, 12)
  <2>1. Se!Max(gaps) - Se!Min(gaps) <= 2 * 12
    BY <1>1, <1>2, <1>5, RecurringGaps
  <2> QED
    BY <1>5, <2>1 DEF h
<1>6. CASE Se!Cadence[h] = "ANNUAL" /\ Se!Recurs(h, 350, 380, 25)
  <2>1. Se!Max(gaps) - Se!Min(gaps) <= 2 * 25
    BY <1>1, <1>2, <1>6, RecurringGaps
  <2> QED
    BY <1>6, <2>1 DEF h
<1> QED
  BY <1>1, <1>3, <1>4, <1>5, <1>6, CadenceSeen

-----------------------------------------------------------------------------
(***************************************************************************)
(* Recurring series: detections, merges and answers.  The workspace's lock    *)
(* lets one detection at a time propose what is not known and write it; a     *)
(* merge waits for the merchants it has written; a reviewer who has updated a *)
(* candidate holds its row until the commit.                                 *)
(***************************************************************************)

\* A row of the table, with what a detection can have computed.
SeriesRow ==
    {row \in [group : Se!Groups, of : Se!Groups, cadence : Se!Cadences,
              average : {Se!Total(h) \div Len(h) : h \in Histories},
              last : Int, next : Int, status : Se!Answers \cup {"CANDIDATE"}] :
       row.next > row.last}

Alike(row, other) == row.of = other.of /\ row.cadence = other.cadence

SeriesTypes ==
    /\ history \in [Se!Groups -> Histories]
    /\ gone \subseteq Ids
    /\ series \in Seq(SeriesRow)
    /\ Len(series) <= MaxSeries
    /\ audits = [i \in 1..MaxSeries |-> audits[i]]
    /\ actor \in [Se!Actors -> {"idle", "open", "found", "written", "over"}]
    /\ pending = [d \in Detectors |-> pending[d]]
    /\ target = [r \in Reviewers |-> target[r]]
    /\ seriesLock \in Detectors \cup {None}
    /\ seriesRowLock \in [1..MaxSeries -> Reviewers \cup {None}]

\* What a detection inserts: candidates of different groups that are not stored yet.
Insertable(inserts) ==
    /\ inserts \in Seq(SeriesRow)
    /\ \A i \in 1..Len(inserts) : /\ inserts[i].status = "CANDIDATE"
                               /\ inserts[i].of = inserts[i].group
                               /\ \A j \in 1..Len(series) : ~Alike(series[j], inserts[i])
    /\ \A i, j \in 1..Len(inserts) : i # j => inserts[i].group # inserts[j].group

\* A detection at work holds the lock; the merchants of what it has written stay.
Proposing ==
    \A d \in Detectors : /\ actor[d] # "over"
                         /\ actor[d] # "idle" => seriesLock = d
                         /\ actor[d] \in {"found", "written"} => Insertable(pending[d])
                         /\ actor[d] = "written" => \A g \in Se!Inserts(d) : g[1] \notin gone

\* A reviewer who has updated a row holds it, and it is a candidate still.
Answering ==
    \A r \in Reviewers :
      /\ actor[r] # "open"
      /\ actor[r] = "written" =>
           \E i \in 1..Len(series) : \E a \in Se!Answers :
             target[r] = <<i, a>> /\ seriesRowLock[i] = r /\ series[i].status = "CANDIDATE"

Settled == \A i, j \in 1..Len(series) : i # j => ~Alike(series[i], series[j])
Owned ==
    \A i \in 1..Len(series) : /\ series[i].group[1] \notin gone
                              /\ series[i].group # series[i].of => series[i].of[1] \in gone
Counted ==
    \A i \in 1..MaxSeries :
      audits[i] = IF i \in 1..Len(series) /\ series[i].status # "CANDIDATE" THEN 1 ELSE 0

SeriesInv == SeriesTypes /\ Proposing /\ Answering /\ Settled /\ Owned /\ Counted

\* The series change only in their own part.
LEMMA SeriesMove ==
  ASSUME [MCNext]_allVars
  PROVE  (part = "series" /\ part' = part /\ Se!Next) \/ UNCHANGED seriesVars
BY DEF MCNext, allVars, seriesVars

LEMMA SeriesInit == Se!Init => SeriesInv
<1> SUFFICES ASSUME Se!Init PROVE SeriesInv
  OBVIOUS
<1>1. /\ series = <<>> /\ Len(series) = 0 /\ \A s \in Se!Actors : actor[s] = "idle"
      /\ series \in Seq(SeriesRow)
  BY DEF Se!Init
<1>2. SeriesTypes
  BY <1>1, SeriesAssumption DEF Se!Init, SeriesTypes
<1>3. Proposing /\ Answering
  BY <1>1 DEF Proposing, Answering, Se!Actors
<1>4. Settled /\ Owned /\ Counted
  BY <1>1 DEF Settled, Owned, Counted, Se!Init
<1> QED
  BY <1>2, <1>3, <1>4 DEF SeriesInv

\* Cardinalities of the instance are those of this module.
LEMMA SameCardinality == ASSUME NEW S PROVE Se!Cardinality(S) = Cardinality(S)
  BY DEF Se!Cardinality, Cardinality

\* A candidate is due after its group's last purchase.
LEMMA CandidateRow ==
  ASSUME SeriesTypes, NEW g \in Se!Groups, Se!Eligible(g)
  PROVE  Se!Candidate(g) \in SeriesRow
<1> DEFINE h == history[g]
           median == Se!MedianTwice(h)
           last == Se!Day(h, Len(h))
<1>1. h \in Histories /\ Se!Cadence[h] # None
  BY DEF Se!Eligible, SeriesTypes
<1> HIDE DEF h
<1>2. Len(h) \in Nat /\ Len(h) >= 3
  BY <1>1, CadenceSeen, GapsAreIntegers
<1>3. Se!Cadence[h] \in Se!Cadences
  BY <1>1, CadenceSeen DEF Se!Cadences
<1>4. \/ median \in (2 * 6)..(2 * 8) \/ median \in (2 * 26)..(2 * 35)
      \/ median \in (2 * 80)..(2 * 100) \/ median \in (2 * 350)..(2 * 380)
  BY <1>1, CadenceSeen DEF Se!Recurs
<1>5. median \in Int /\ median >= 12
  BY <1>4
<1>6. last \in Int
  BY <1>1, <1>2, GapsAreIntegers
<1> HIDE DEF median, last
<1>7. last + (median + 1) \div 2 \in Int /\ last + (median + 1) \div 2 > last
  BY <1>5, <1>6
<1>8. Se!Candidate(g) = [group |-> g, of |-> g, cadence |-> Se!Cadence[h],
                         average |-> Se!Total(h) \div Len(h), last |-> last,
                         next |-> last + (median + 1) \div 2, status |-> "CANDIDATE"]
  BY DEF Se!Candidate, h, median, last
<1>9. Se!Total(h) \div Len(h) \in {Se!Total(l) \div Len(l) : l \in Histories}
  BY <1>1
<1> QED
  BY <1>3, <1>6, <1>7, <1>8, <1>9 DEF SeriesRow

LEMMA DetectionOpens ==
  ASSUME SeriesInv, NEW d \in Detectors, Se!BeginDetect(d)
  PROVE  SeriesInv'
<1> USE SeriesAssumption DEF SeriesInv
<1>1. /\ seriesLock = None /\ seriesLock' = d
      /\ actor' = [actor EXCEPT ![d] = "open"]
      /\ UNCHANGED <<history, gone, series, audits, pending, target, seriesRowLock>>
  BY DEF Se!BeginDetect, Se!MayDetect, Se!Goto
<1>2. \A s \in Se!Actors : actor'[s] = IF s = d THEN "open" ELSE actor[s]
  BY <1>1 DEF SeriesTypes
<1>3. SeriesTypes'
  BY <1>1 DEF SeriesTypes
<1>4. \A e \in Detectors : actor[e] = "idle"
  BY <1>1 DEF Proposing
<1>5. Proposing'
  BY <1>1, <1>2, <1>4 DEF Proposing, Se!Actors
<1>6. Answering'
  BY <1>1, <1>2 DEF Answering, Se!Actors
<1>7. Settled' /\ Owned' /\ Counted'
  BY <1>1 DEF Settled, Owned, Counted
<1> QED
  BY <1>3, <1>5, <1>6, <1>7

\* The insert proposes each unknown cadence once.
LEMMA DetectionProposes ==
  ASSUME SeriesInv, NEW d \in Detectors, Se!Propose(d)
  PROVE  SeriesInv'
<1> DEFINE new == {g \in Se!Groups : Se!Eligible(g) /\ ~Se!Known(g)}
<1> USE DEF SeriesInv
<1>1. PICK order \in [1..Cardinality(new) -> new] :
        /\ {order[i] : i \in DOMAIN order} = new
        /\ pending' = [pending EXCEPT ![d] = [i \in DOMAIN order |-> Se!Candidate(order[i])]]
  BY SameCardinality DEF Se!Propose
<1>2. /\ actor[d] = "open" /\ actor' = [actor EXCEPT ![d] = "found"]
      /\ UNCHANGED <<history, gone, series, audits, target, seriesLock, seriesRowLock>>
  BY DEF Se!Propose, Se!Goto
<1>3. new \subseteq Se!Groups /\ \A g \in new : Se!Eligible(g) /\ ~Se!Known(g)
  OBVIOUS
<1> HIDE DEF new
<1>4. IsFiniteSet(new) /\ Cardinality(new) \in Nat
  <2>1. IsFiniteSet(Se!Groups)
    BY SeriesAssumption, FS_Product DEF Se!Groups
  <2> QED
    BY <1>3, <2>1, FS_Subset, FS_CardinalityType
<1> DEFINE n == Cardinality(new)
           inserts == [i \in 1..n |-> Se!Candidate(order[i])]
<1>5. \A i, j \in 1..n : order[i] = order[j] => i = j
  <2>1. IsFiniteSet(1..n) /\ Cardinality(1..n) = n
    BY <1>4, FS_Interval
  <2>2. order \in Surjection(1..n, new)
    BY <1>1 DEF Surjection
  <2>3. order \in Injection(1..n, new)
    BY <2>1, <2>2, FS_SurjSameCardinalityImpliesInj
  <2> QED
    BY <1>1, <2>3 DEF Injection, IsInjective
<1>6. pending'[d] = inserts /\ \A e \in Detectors \ {d} : pending'[e] = pending[e]
  BY <1>1 DEF SeriesTypes
<1>7. \A i \in 1..n : /\ order[i] \in new /\ order[i] \in Se!Groups
                      /\ inserts[i] = Se!Candidate(order[i])
                      /\ inserts[i] \in SeriesRow
  BY <1>1, <1>3, CandidateRow
<1>8. inserts \in Seq(SeriesRow) /\ Len(inserts) = n
  BY <1>4, <1>7
<1>9. \A g : /\ Se!Candidate(g).group = g /\ Se!Candidate(g).of = g /\ Se!Candidate(g).status = "CANDIDATE"
             /\ Se!Candidate(g).cadence = Se!Cadence[history[g]]
  BY DEF Se!Candidate
<1> HIDE DEF n, inserts
<1>10. \A i \in 1..n : /\ inserts[i].status = "CANDIDATE" /\ inserts[i].group = order[i]
                       /\ inserts[i].of = order[i]
                       /\ \A j \in 1..Len(series) : ~Alike(series[j], inserts[i])
  <2> TAKE i \in 1..n
  <2>1. /\ inserts[i].group = order[i] /\ inserts[i].of = order[i] /\ inserts[i].status = "CANDIDATE"
        /\ inserts[i].cadence = Se!Cadence[history[order[i]]]
    BY <1>7, <1>9
  <2>2. ~Se!Known(order[i]) /\ order[i][1] \notin gone
    BY <1>3, <1>7 DEF Se!Eligible
  <2>3. \A j \in 1..Len(series) : ~(/\ series[j].group = order[i]
                                   /\ series[j].cadence = Se!Cadence[history[order[i]]])
    BY <2>2 DEF Se!Known, Se!Id, SeriesTypes
  <2>4. \A j \in 1..Len(series) : series[j].of = order[i] => series[j].group = order[i]
    BY <2>2 DEF Owned
  <2> QED
    BY <2>1, <2>3, <2>4 DEF Alike
<1>11. Insertable(inserts)
  BY <1>5, <1>8, <1>10 DEF Insertable
<1>12. \A s \in Se!Actors : actor'[s] = IF s = d THEN "found" ELSE actor[s]
  BY <1>2 DEF SeriesTypes
<1>13. SeriesTypes'
  <2>1. pending' = [e \in Detectors |-> pending'[e]]
    BY <1>1 DEF SeriesTypes
  <2> QED
    BY <1>2, <2>1 DEF SeriesTypes
<1>14. Proposing'
  BY <1>2, <1>6, <1>11, <1>12 DEF Proposing, Insertable, Se!Actors, Se!Inserts
<1>15. Answering'
  BY <1>2, <1>12, SeriesAssumption DEF Answering, Se!Actors
<1>16. Settled' /\ Owned' /\ Counted'
  BY <1>2 DEF Settled, Owned, Counted
<1> QED
  BY <1>13, <1>14, <1>15, <1>16

\* The insert keeps what was found, or nothing.
LEMMA DetectionInserts ==
  ASSUME SeriesInv, NEW d \in Detectors, Se!Insert(d)
  PROVE  SeriesInv'
<1> USE DEF SeriesInv
<1>1. /\ actor[d] = "found"
      /\ UNCHANGED <<history, gone, series, audits, target, seriesRowLock>>
      /\ \/ /\ \A g \in Se!Inserts(d) : g[1] \notin gone
            /\ actor' = [actor EXCEPT ![d] = "written"]
            /\ UNCHANGED <<pending, seriesLock>>
         \/ /\ actor' = [actor EXCEPT ![d] = "idle"]
            /\ pending' = [pending EXCEPT ![d] = <<>>]
            /\ seriesLock' = IF seriesLock = d THEN None ELSE seriesLock
  BY DEF Se!Insert, Se!Goto
<1>2. seriesLock = d /\ \A e \in Detectors \ {d} : actor[e] = "idle"
  BY <1>1 DEF Proposing
<1>3. \A s \in Se!Actors \ {d} : actor'[s] = actor[s]
  BY <1>1 DEF SeriesTypes
<1>4. d \in Se!Actors
  BY DEF Se!Actors
<1>5. SeriesTypes'
  <2>1. pending' = [e \in Detectors |-> pending'[e]]
    BY <1>1 DEF SeriesTypes
  <2>2. actor' \in [Se!Actors -> {"idle", "open", "found", "written", "over"}]
    BY <1>1 DEF SeriesTypes
  <2> QED
    BY <1>1, <2>1, <2>2 DEF SeriesTypes
<1>6. Proposing'
  <2>1. CASE actor' = [actor EXCEPT ![d] = "written"] /\ UNCHANGED <<pending, seriesLock>>
             /\ \A g \in Se!Inserts(d) : g[1] \notin gone
    <3>1. actor'[d] = "written"
      BY <1>4, <2>1 DEF SeriesTypes
    <3>2. \A e \in Detectors \ {d} : actor'[e] = "idle"
      BY <1>2, <1>3 DEF Se!Actors
    <3>3. Insertable(pending[d])
      BY <1>1 DEF Proposing
    <3> QED
      BY <1>1, <1>2, <2>1, <3>1, <3>2, <3>3 DEF Proposing, Insertable, Se!Inserts
  <2>2. CASE actor' = [actor EXCEPT ![d] = "idle"]
    <3>1. \A e \in Detectors : actor'[e] = "idle"
      BY <1>2, <1>3, <1>4, <2>2 DEF Se!Actors, SeriesTypes
    <3> QED
      BY <3>1 DEF Proposing
  <2> QED
    BY <1>1, <2>1, <2>2
<1>7. Answering'
  <2>1. \A r \in Reviewers : actor'[r] = actor[r]
    BY <1>3, SeriesAssumption DEF Se!Actors
  <2> QED
    BY <1>1, <2>1 DEF Answering
<1>8. Settled' /\ Owned' /\ Counted'
  BY <1>1 DEF Settled, Owned, Counted
<1> QED
  BY <1>5, <1>6, <1>7, <1>8

\* The commit stores what was not stored, next to whatever was answered meanwhile.
LEMMA DetectionCommits ==
  ASSUME SeriesInv, NEW d \in Detectors, Se!CommitDetect(d)
  PROVE  SeriesInv'
<1> DEFINE new == pending[d]
           m == Len(series)
           n == Len(new)
<1> USE DEF SeriesInv
<1>1. /\ actor[d] = "written" /\ actor' = [actor EXCEPT ![d] = "idle"]
      /\ m + n <= MaxSeries /\ series' = series \o new
      /\ pending' = [pending EXCEPT ![d] = <<>>]
      /\ seriesLock' = IF seriesLock = d THEN None ELSE seriesLock
      /\ UNCHANGED <<history, gone, audits, target, seriesRowLock>>
  BY DEF Se!CommitDetect, Se!Goto
<1>2. /\ Insertable(new) /\ seriesLock = d
      /\ \A i \in 1..n : new[i].group[1] \notin gone
  BY <1>1 DEF Proposing, Insertable, Se!Inserts
<1>3. /\ series \in Seq(SeriesRow) /\ new \in Seq(SeriesRow) /\ m \in Nat /\ n \in Nat
  BY <1>2 DEF SeriesTypes, Insertable
<1> HIDE DEF new
<1>4. /\ series' \in Seq(SeriesRow) /\ Len(series') = m + n
      /\ \A i \in 1..(m + n) : series'[i] = IF i <= m THEN series[i] ELSE new[i - m]
  BY <1>1, <1>3
<1> HIDE DEF m, n
<1>5. \A s \in Se!Actors : actor'[s] = IF s = d THEN "idle" ELSE actor[s]
  BY <1>1 DEF SeriesTypes
<1>6. \A i \in 1..(m + n) : i \in 1..m \/ (i - m \in 1..n /\ ~(i <= m))
  BY <1>3
<1>7. SeriesTypes'
  <2>1. pending' = [e \in Detectors |-> pending'[e]]
    BY <1>1 DEF SeriesTypes
  <2>2. audits' = [i \in 1..MaxSeries |-> audits'[i]] /\ target' = [r \in Reviewers |-> target'[r]]
    BY <1>1 DEF SeriesTypes
  <2> QED
    BY <1>1, <1>4, <2>1, <2>2 DEF SeriesTypes
<1>8. Proposing'
  <2>1. \A e \in Detectors \ {d} : actor[e] = "idle"
    BY <1>2 DEF Proposing
  <2> QED
    BY <1>5, <2>1 DEF Proposing, Se!Actors
<1>9. Answering'
  <2> SUFFICES ASSUME NEW r \in Reviewers
               PROVE  /\ actor'[r] # "open"
                      /\ actor'[r] = "written" =>
                           \E i \in 1..Len(series') : \E a \in Se!Answers :
                             target'[r] = <<i, a>> /\ seriesRowLock'[i] = r
                             /\ series'[i].status = "CANDIDATE"
    BY DEF Answering
  <2>1. actor'[r] = actor[r]
    BY <1>5, SeriesAssumption DEF Se!Actors
  <2>2. actor[r] # "open"
    BY DEF Answering
  <2>3. ASSUME actor[r] = "written"
        PROVE  \E i \in 1..Len(series') : \E a \in Se!Answers :
                 target'[r] = <<i, a>> /\ seriesRowLock'[i] = r /\ series'[i].status = "CANDIDATE"
    <3>1. PICK i \in 1..m, a \in Se!Answers :
            target[r] = <<i, a>> /\ seriesRowLock[i] = r /\ series[i].status = "CANDIDATE"
      BY <2>3 DEF Answering, m
    <3>2. i \in 1..Len(series') /\ series'[i] = series[i]
      BY <1>3, <1>4
    <3> QED
      BY <1>1, <3>1, <3>2
  <2> QED
    BY <2>1, <2>2, <2>3
<1>10. Settled'
  <2>1. /\ \A i \in 1..n : \A j \in 1..m : ~Alike(series[j], new[i])
        /\ \A i, j \in 1..n : i # j => ~Alike(new[i], new[j])
        /\ \A i, j \in 1..m : i # j => ~Alike(series[i], series[j])
    BY <1>2 DEF Insertable, Settled, Alike, m, n
  <2>2. ASSUME NEW i \in 1..(m + n), NEW j \in 1..(m + n), i # j
        PROVE  ~Alike(series'[i], series'[j])
    <3>1. CASE i \in 1..m /\ j \in 1..m
      <4>1. series'[i] = series[i] /\ series'[j] = series[j]
        BY <1>3, <1>4, <3>1
      <4> QED
        BY <2>1, <2>2, <3>1, <4>1
    <3>2. CASE i \in 1..m /\ j - m \in 1..n /\ ~(j <= m)
      <4>1. series'[i] = series[i] /\ series'[j] = new[j - m]
        BY <1>3, <1>4, <3>2
      <4> QED
        BY <2>1, <3>2, <4>1
    <3>3. CASE i - m \in 1..n /\ ~(i <= m) /\ j \in 1..m
      <4>1. series'[i] = new[i - m] /\ series'[j] = series[j]
        BY <1>3, <1>4, <3>3
      <4>2. ~Alike(series[j], new[i - m])
        BY <2>1, <3>3
      <4> QED
        BY <4>1, <4>2 DEF Alike
    <3>4. CASE i - m \in 1..n /\ ~(i <= m) /\ j - m \in 1..n /\ ~(j <= m)
      <4>1. series'[i] = new[i - m] /\ series'[j] = new[j - m]
        BY <1>3, <1>4, <3>4
      <4>2. i - m # j - m
        BY <1>3, <2>2
      <4> QED
        BY <2>1, <3>4, <4>1, <4>2
    <3> QED
      BY <1>6, <3>1, <3>2, <3>3, <3>4
  <2> QED
    BY <1>4, <2>2 DEF Settled
<1>12. Owned'
  <2>1. ASSUME NEW i \in 1..(m + n)
        PROVE  /\ series'[i].group[1] \notin gone
               /\ series'[i].group # series'[i].of => series'[i].of[1] \in gone
    <3>1. CASE i \in 1..m
      <4>1. series'[i] = series[i]
        BY <1>3, <1>4, <3>1
      <4> QED
        BY <3>1, <4>1 DEF Owned, m
    <3>2. CASE i - m \in 1..n /\ ~(i <= m)
      <4>1. series'[i] = new[i - m]
        BY <1>4, <3>2
      <4>2. new[i - m].of = new[i - m].group /\ new[i - m].group[1] \notin gone
        BY <1>2, <3>2 DEF Insertable, n
      <4> QED
        BY <4>1, <4>2
    <3> QED
      BY <1>6, <3>1, <3>2
  <2> QED
    BY <1>1, <1>4, <2>1 DEF Owned
<1>11. Counted'
  <2>1. ASSUME NEW i \in 1..MaxSeries
        PROVE  audits'[i] = IF i \in 1..(m + n) /\ series'[i].status # "CANDIDATE" THEN 1 ELSE 0
    <3>1. audits'[i] = IF i \in 1..m /\ series[i].status # "CANDIDATE" THEN 1 ELSE 0
      BY <1>1 DEF Counted, m
    <3>2. CASE i \in 1..m
      <4>1. i \in 1..(m + n) /\ series'[i] = series[i]
        BY <1>3, <1>4, <3>2
      <4> QED
        BY <3>1, <3>2, <4>1
    <3>3. CASE i \notin 1..m /\ i \in 1..(m + n)
      <4>1. i - m \in 1..n /\ series'[i] = new[i - m]
        BY <1>4, <1>6, <3>3
      <4>2. series'[i].status = "CANDIDATE"
        BY <1>2, <4>1 DEF Insertable, n
      <4> QED
        BY <3>1, <3>3, <4>2
    <3>4. CASE i \notin 1..(m + n)
      <4>1. i \notin 1..m
        BY <1>3, <3>4
      <4> QED
        BY <3>1, <3>4, <4>1
    <3> QED
      BY <3>2, <3>3, <3>4
  <2> QED
    BY <1>4, <2>1 DEF Counted
<1> QED
  BY <1>7, <1>8, <1>9, <1>10, <1>11, <1>12

LEMMA ReviewerAnswers ==
  ASSUME SeriesInv, NEW r \in Reviewers, Se!Answer(r)
  PROVE  SeriesInv'
<1> USE DEF SeriesInv
<1>1. UNCHANGED <<history, gone, series, audits, pending, seriesLock>>
  BY DEF Se!Answer
<1>2. PICK i \in Se!Id, a \in Se!Answers :
        /\ seriesRowLock[i] = None
        /\ \/ /\ series[i].status = "CANDIDATE"
              /\ seriesRowLock' = [seriesRowLock EXCEPT ![i] = r]
              /\ target' = [target EXCEPT ![r] = <<i, a>>]
              /\ actor' = [actor EXCEPT ![r] = "written"]
           \/ /\ actor' = [actor EXCEPT ![r] = "over"]
              /\ UNCHANGED <<seriesRowLock, target>>
  BY DEF Se!Answer, Se!Open, Se!Goto
<1>3. i \in 1..Len(series) /\ i \in 1..MaxSeries
  BY SeriesAssumption DEF Se!Id, SeriesTypes
<1>4. SeriesTypes'
  <2>1. actor' \in [Se!Actors -> {"idle", "open", "found", "written", "over"}]
    BY <1>2 DEF SeriesTypes
  <2>2. target' = [q \in Reviewers |-> target'[q]]
    BY <1>2 DEF SeriesTypes
  <2>3. seriesRowLock' \in [1..MaxSeries -> Reviewers \cup {None}]
    <3>1. seriesRowLock' = seriesRowLock \/ seriesRowLock' = [seriesRowLock EXCEPT ![i] = r]
      BY <1>2
    <3> QED
      BY <3>1 DEF SeriesTypes
  <2> QED
    BY <1>1, <2>1, <2>2, <2>3 DEF SeriesTypes
<1>5. \A s \in Se!Actors \ {r} : actor'[s] = actor[s]
  BY <1>2 DEF SeriesTypes
<1>6. Proposing'
  <2>1. \A d \in Detectors : actor'[d] = actor[d]
    BY <1>5, SeriesAssumption DEF Se!Actors
  <2> QED
    BY <1>1, <2>1 DEF Proposing, Insertable, Se!Inserts
<1>7. Answering'
  <2> SUFFICES ASSUME NEW q \in Reviewers
               PROVE  /\ actor'[q] # "open"
                      /\ actor'[q] = "written" =>
                           \E j \in 1..Len(series) : \E b \in Se!Answers :
                             target'[q] = <<j, b>> /\ seriesRowLock'[j] = q
                             /\ series[j].status = "CANDIDATE"
    BY <1>1 DEF Answering
  <2>1. CASE q # r
    <3>1. actor'[q] = actor[q] /\ target'[q] = target[q]
      BY <1>2, <1>5, <2>1 DEF SeriesTypes, Se!Actors
    <3>2. ASSUME actor[q] = "written"
          PROVE  \E j \in 1..Len(series) : \E b \in Se!Answers :
                   target'[q] = <<j, b>> /\ seriesRowLock'[j] = q
                   /\ series[j].status = "CANDIDATE"
      <4>1. PICK j \in 1..Len(series), b \in Se!Answers :
              target[q] = <<j, b>> /\ seriesRowLock[j] = q /\ series[j].status = "CANDIDATE"
        BY <3>2 DEF Answering
      <4>2. j # i
        BY <1>2, <4>1, SeriesAssumption
      <4>3. seriesRowLock'[j] = q
        <5>1. seriesRowLock' = seriesRowLock \/ seriesRowLock' = [seriesRowLock EXCEPT ![i] = r]
          BY <1>2
        <5>2. j \in 1..MaxSeries
          BY SeriesAssumption DEF SeriesTypes
        <5> QED
          BY <4>1, <4>2, <5>1, <5>2 DEF SeriesTypes
      <4> QED
        BY <3>1, <4>1, <4>3
    <3> QED
      BY <3>1, <3>2 DEF Answering
  <2>2. CASE q = r
    <3>1. actor'[r] \in {"written", "over"}
      BY <1>2 DEF SeriesTypes, Se!Actors
    <3>2. actor'[r] = "written" => /\ series[i].status = "CANDIDATE" /\ target'[r] = <<i, a>>
                                   /\ seriesRowLock'[i] = r
      BY <1>2, <1>3 DEF SeriesTypes, Se!Actors
    <3> QED
      BY <1>3, <2>2, <3>1, <3>2
  <2> QED
    BY <2>1, <2>2
<1>8. Settled' /\ Owned' /\ Counted'
  BY <1>1 DEF Settled, Owned, Counted
<1> QED
  BY <1>4, <1>6, <1>7, <1>8

\* The commit of an answer: only the reviewer who holds the row can be at it.
LEMMA AnswerCommits ==
  ASSUME SeriesInv, NEW r \in Reviewers, Se!CommitAnswer(r)
  PROVE  SeriesInv'
<1> USE DEF SeriesInv
<1>1. actor[r] = "written" /\ actor' = [actor EXCEPT ![r] = "over"]
      /\ UNCHANGED <<history, gone, pending, seriesLock>>
  BY DEF Se!CommitAnswer, Se!Goto
<1>2. PICK i \in 1..Len(series), a \in Se!Answers :
        target[r] = <<i, a>> /\ seriesRowLock[i] = r /\ series[i].status = "CANDIDATE"
  BY <1>1 DEF Answering
<1> DEFINE row == [series[i] EXCEPT !.status = a]
<1>3. /\ series' = [series EXCEPT ![i] = row]
      /\ audits' = [audits EXCEPT ![i] = audits[i] + 1]
      /\ seriesRowLock' = [seriesRowLock EXCEPT ![i] = None]
      /\ target' = [target EXCEPT ![r] = None]
  BY <1>2 DEF Se!CommitAnswer
<1>4. series \in Seq(SeriesRow) /\ Len(series) \in Nat /\ i \in 1..MaxSeries
  BY SeriesAssumption DEF SeriesTypes
<1>5. /\ row \in SeriesRow /\ row.group = series[i].group /\ row.of = series[i].of /\ row.cadence = series[i].cadence
      /\ row.status = a /\ a # "CANDIDATE"
  <2>1. series[i] \in SeriesRow
    BY <1>4
  <2> QED
    BY <2>1 DEF SeriesRow, Se!Answers
<1> HIDE DEF row
<1>6. /\ series' \in Seq(SeriesRow) /\ Len(series') = Len(series)
      /\ \A j \in 1..Len(series) : series'[j] = IF j = i THEN row ELSE series[j]
  BY <1>3, <1>4, <1>5
<1>7. \A s \in Se!Actors : actor'[s] = IF s = r THEN "over" ELSE actor[s]
  BY <1>1 DEF SeriesTypes
<1>8. SeriesTypes'
  <2>1. audits' = [j \in 1..MaxSeries |-> audits'[j]] /\ target' = [q \in Reviewers |-> target'[q]]
    BY <1>3 DEF SeriesTypes
  <2>2. seriesRowLock' \in [1..MaxSeries -> Reviewers \cup {None}]
    BY <1>3 DEF SeriesTypes
  <2>3. actor' \in [Se!Actors -> {"idle", "open", "found", "written", "over"}]
    BY <1>1 DEF SeriesTypes
  <2> QED
    BY <1>1, <1>6, <2>1, <2>2, <2>3 DEF SeriesTypes
<1>9. \A j \in 1..Len(series) : /\ series'[j].group = series[j].group
                                /\ series'[j].of = series[j].of
                                /\ series'[j].cadence = series[j].cadence
  BY <1>5, <1>6
<1>10. Proposing'
  <2>1. \A d \in Detectors : actor'[d] = actor[d]
    BY <1>7, SeriesAssumption DEF Se!Actors
  <2>2. \A inserts : Insertable(inserts) => Insertable(inserts)'
    BY <1>6, <1>9 DEF Insertable, Alike
  <2> QED
    BY <1>1, <2>1, <2>2 DEF Proposing, Se!Inserts
<1>11. Answering'
  <2> SUFFICES ASSUME NEW q \in Reviewers
               PROVE  /\ actor'[q] # "open"
                      /\ actor'[q] = "written" =>
                           \E j \in 1..Len(series') : \E b \in Se!Answers :
                             target'[q] = <<j, b>> /\ seriesRowLock'[j] = q
                             /\ series'[j].status = "CANDIDATE"
    BY DEF Answering
  <2>1. CASE q = r
    BY <1>7, <2>1 DEF Se!Actors
  <2>2. CASE q # r
    <3>1. actor'[q] = actor[q] /\ target'[q] = target[q]
      BY <1>3, <1>7, <2>2 DEF SeriesTypes, Se!Actors
    <3>2. ASSUME actor[q] = "written"
          PROVE  \E j \in 1..Len(series') : \E b \in Se!Answers :
                   target'[q] = <<j, b>> /\ seriesRowLock'[j] = q
                   /\ series'[j].status = "CANDIDATE"
      <4>1. PICK j \in 1..Len(series), b \in Se!Answers :
              target[q] = <<j, b>> /\ seriesRowLock[j] = q /\ series[j].status = "CANDIDATE"
        BY <3>2 DEF Answering
      <4>2. j # i
        BY <1>2, <2>2, <4>1
      <4>3. seriesRowLock'[j] = q /\ series'[j] = series[j]
        BY <1>3, <1>6, <4>1, <4>2 DEF SeriesTypes
      <4> QED
        BY <1>6, <3>1, <4>1, <4>3
    <3> QED
      BY <3>1, <3>2 DEF Answering
  <2> QED
    BY <2>1, <2>2
<1>12. Settled' /\ Owned'
  BY <1>1, <1>6, <1>9 DEF Settled, Owned, Alike
<1>13. Counted'
  <2>1. \A j \in 1..MaxSeries : audits'[j] = IF j = i THEN audits[i] + 1 ELSE audits[j]
    BY <1>3 DEF SeriesTypes
  <2>2. audits[i] = 0
    BY <1>2, <1>4 DEF Counted
  <2> QED
    BY <1>4, <1>5, <1>6, <2>1, <2>2 DEF Counted
<1> QED
  BY <1>8, <1>10, <1>11, <1>12, <1>13

\* A rollback frees what the session held, and nothing else.
LEMMA SessionAborts ==
  ASSUME SeriesInv, NEW s \in Se!Actors, Se!Abort(s)
  PROVE  SeriesInv'
<1> USE DEF SeriesInv
<1>1. /\ UNCHANGED <<history, gone, series, audits>> /\ actor' = [actor EXCEPT ![s] = "idle"]
      /\ pending' = [d \in Detectors |-> IF d = s THEN <<>> ELSE pending[d]]
      /\ target' = [r \in Reviewers |-> IF r = s THEN None ELSE target[r]]
      /\ seriesLock' = IF seriesLock = s THEN None ELSE seriesLock
      /\ seriesRowLock' = [i \in 1..MaxSeries |-> IF seriesRowLock[i] = s THEN None
                                                  ELSE seriesRowLock[i]]
  BY DEF Se!Abort, Se!Goto
<1>2. \A t \in Se!Actors : actor'[t] = IF t = s THEN "idle" ELSE actor[t]
  BY <1>1 DEF SeriesTypes
<1>3. SeriesTypes'
  <2>1. audits' = [j \in 1..MaxSeries |-> audits'[j]]
    BY <1>1 DEF SeriesTypes
  <2>2. seriesRowLock' \in [1..MaxSeries -> Reviewers \cup {None}]
    BY <1>1 DEF SeriesTypes
  <2>3. actor' \in [Se!Actors -> {"idle", "open", "found", "written", "over"}]
    BY <1>1 DEF SeriesTypes
  <2>4. pending' = [d \in Detectors |-> pending'[d]] /\ target' = [q \in Reviewers |-> target'[q]]
    BY <1>1
  <2> QED
    BY <1>1, <2>1, <2>2, <2>3, <2>4 DEF SeriesTypes
<1>4. Proposing'
  <2> SUFFICES ASSUME NEW d \in Detectors
               PROVE  /\ actor'[d] # "over"
                      /\ actor'[d] # "idle" => seriesLock' = d
                      /\ actor'[d] \in {"found", "written"} => Insertable(pending[d])'
                      /\ actor'[d] = "written" => \A g \in Se!Inserts(d)' : g[1] \notin gone'
    BY DEF Proposing
  <2>1. CASE d = s
    BY <1>2, <2>1 DEF Se!Actors
  <2>2. CASE d # s
    <3>1. actor'[d] = actor[d] /\ pending'[d] = pending[d]
      BY <1>1, <1>2, <2>2 DEF Se!Actors
    <3>2. Insertable(pending[d]) => Insertable(pending[d])'
      BY <1>1, <3>1 DEF Insertable
    <3> QED
      BY <1>1, <2>2, <3>1, <3>2 DEF Proposing, Se!Inserts
  <2> QED
    BY <2>1, <2>2
<1>5. Answering'
  <2> SUFFICES ASSUME NEW q \in Reviewers
               PROVE  /\ actor'[q] # "open"
                      /\ actor'[q] = "written" =>
                           \E j \in 1..Len(series) : \E b \in Se!Answers :
                             target'[q] = <<j, b>> /\ seriesRowLock'[j] = q
                             /\ series[j].status = "CANDIDATE"
    BY <1>1 DEF Answering
  <2>1. CASE q = s
    BY <1>2, <2>1 DEF Se!Actors
  <2>2. CASE q # s
    <3>1. actor'[q] = actor[q] /\ target'[q] = target[q]
      BY <1>1, <1>2, <2>2 DEF Se!Actors
    <3>2. \A j \in 1..Len(series) : seriesRowLock[j] = q => seriesRowLock'[j] = q
      BY <1>1, <2>2, SeriesAssumption DEF SeriesTypes
    <3> QED
      BY <3>1, <3>2 DEF Answering
  <2> QED
    BY <2>1, <2>2
<1>6. Settled' /\ Owned' /\ Counted'
  BY <1>1 DEF Settled, Owned, Counted
<1> QED
  BY <1>3, <1>4, <1>5, <1>6

\* A merge waits for what is written, and leaves each series what it was proposed for.
LEMMA MerchantsMerge ==
  ASSUME SeriesInv, NEW source \in Ids, NEW into \in Ids, Se!Merge(source, into)
  PROVE  SeriesInv'
<1> DEFINE moved == [i \in Se!Id |->
                       IF series[i].group[1] = source
                         THEN [series[i] EXCEPT !.group = <<into, series[i].group[2]>>]
                         ELSE series[i]]
           past == history
<1> USE DEF SeriesInv
<1>1. /\ source # into /\ into \notin gone /\ ~Se!Taken(source)
      /\ series' = moved
      /\ gone' = gone \cup {source}
      /\ UNCHANGED <<audits, actor, pending, target, seriesLock, seriesRowLock>>
  BY DEF Se!Merge
<1>2. history' \in [Se!Groups -> Histories]
  <2>1. PICK h \in [Se!Of(into) -> Histories] :
          history' = [g \in Se!Groups |-> IF g \in Se!Of(into) THEN h[g] ELSE past[g]]
    BY DEF Se!Merge
  <2>2. past \in [Se!Groups -> Histories]
    BY DEF SeriesTypes
  <2> HIDE DEF past
  <2> QED
    BY <2>1, <2>2
<1>3. /\ series \in Seq(SeriesRow) /\ Len(series) \in Nat /\ Se!Id = 1..Len(series)
      /\ \A i \in 1..Len(series) : series[i] \in SeriesRow
  BY DEF SeriesTypes, Se!Id
<1>4. ASSUME NEW i \in 1..Len(series)
      PROVE  /\ moved[i] \in SeriesRow
             /\ moved[i].of = series[i].of /\ moved[i].cadence = series[i].cadence
             /\ moved[i].status = series[i].status
             /\ moved[i].group = IF series[i].group[1] = source THEN <<into, series[i].group[2]>>
                                                              ELSE series[i].group
  <2>1. <<into, series[i].group[2]>> \in Se!Groups
    BY <1>3 DEF SeriesRow, Se!Groups
  <2>2. moved[i] = IF series[i].group[1] = source
                     THEN [series[i] EXCEPT !.group = <<into, series[i].group[2]>>]
                     ELSE series[i]
    BY <1>3
  <2> HIDE DEF moved
  <2>3. CASE series[i].group[1] = source
    <3>1. series[i] \in SeriesRow
      BY <1>3
    <3> DEFINE other == <<into, series[i].group[2]>>
    <3>2. moved[i] = [series[i] EXCEPT !.group = other] /\ other \in Se!Groups
      BY <2>1, <2>2, <2>3
    <3> HIDE DEF other
    <3>3. /\ moved[i] \in SeriesRow
          /\ moved[i].of = series[i].of /\ moved[i].cadence = series[i].cadence
          /\ moved[i].status = series[i].status /\ moved[i].group = other
      BY <3>1, <3>2 DEF SeriesRow
    <3> QED
      BY <2>3, <3>3 DEF other
  <2>4. CASE series[i].group[1] # source
    BY <1>3, <2>2, <2>4
  <2> QED
    BY <2>3, <2>4
<1>5. moved \in Seq(SeriesRow) /\ Len(moved) = Len(series)
  <2> DEFINE n == Len(series)
             copy == [i \in 1..n |-> moved[i]]
  <2>1. moved = copy
    BY <1>3
  <2>2. \A i \in 1..n : moved[i] \in SeriesRow
    BY <1>4
  <2> HIDE DEF moved
  <2>3. n \in Nat
    BY <1>3
  <2> HIDE DEF n
  <2>4. copy \in Seq(SeriesRow) /\ Len(copy) = n
    BY <2>2, <2>3
  <2> QED
    BY <2>1, <2>4 DEF n
<1>13. /\ Len(series') = Len(series)
       /\ \A i \in 1..Len(series) :
            /\ series'[i].of = series[i].of /\ series'[i].cadence = series[i].cadence
            /\ series'[i].status = series[i].status
  BY <1>1, <1>4, <1>5
<1> HIDE DEF moved
<1>14. ASSUME NEW i \in 1..Len(series)
       PROVE  /\ series[i].group[1] = source => series'[i].group[1] = into
              /\ series[i].group[1] # source => series'[i].group = series[i].group
  <2>1. series'[i] = moved[i]
    BY <1>1
  <2>2. moved[i].group = IF series[i].group[1] = source THEN <<into, series[i].group[2]>>
                                                       ELSE series[i].group
    BY <1>4
  <2>3. CASE series[i].group[1] = source
    <3>1. series'[i].group = <<into, series[i].group[2]>>
      BY <2>1, <2>2, <2>3
    <3> QED
      BY <2>3, <3>1
  <2>4. CASE series[i].group[1] # source
    BY <2>1, <2>2, <2>4
  <2> QED
    BY <2>3, <2>4
<1>6. SeriesTypes'
  BY <1>1, <1>2, <1>5 DEF SeriesTypes
<1>7. \A g : g \in Se!Groups => g[1] \in Ids /\ g[2] \in Currencies /\ g = <<g[1], g[2]>>
  BY DEF Se!Groups
<1>8. Proposing'
  <2> SUFFICES ASSUME NEW d \in Detectors
               PROVE  /\ actor[d] \in {"found", "written"} => Insertable(pending[d])'
                      /\ actor[d] = "written" => \A g \in Se!Inserts(d) : g[1] \notin gone'
    BY <1>1 DEF Proposing, Se!Inserts
  <2>1. ASSUME Insertable(pending[d])
        PROVE  Insertable(pending[d])'
    BY <1>1, <1>13, <2>1 DEF Insertable, Alike
  <2>2. ASSUME actor[d] = "written", NEW g \in Se!Inserts(d)
        PROVE  g[1] \notin gone'
    <3>1. Insertable(pending[d]) /\ g[1] \notin gone
      BY <2>2 DEF Proposing
    <3>2. g \in Se!Groups
      BY <2>2, <3>1 DEF Se!Inserts, Insertable, SeriesRow
    <3>3. Se!Inserts(d) \cap Se!Of(source) = {}
      BY <1>1, <2>2 DEF Se!Taken
    <3>4. g[1] # source
      BY <1>7, <2>2, <3>2, <3>3 DEF Se!Of
    <3> QED
      BY <1>1, <3>1, <3>4
  <2> QED
    BY <2>1, <2>2 DEF Proposing
<1>9. Answering'
  BY <1>1, <1>13 DEF Answering
<1>10. Settled'
  BY <1>13 DEF Settled, Alike
<1>11. Owned'
  <2> SUFFICES ASSUME NEW i \in 1..Len(series)
               PROVE  /\ series'[i].group[1] \notin gone'
                      /\ series'[i].group # series'[i].of => series'[i].of[1] \in gone'
    BY <1>13 DEF Owned
  <2>1. /\ series[i].group[1] \notin gone
        /\ series[i].group # series[i].of => series[i].of[1] \in gone
    BY DEF Owned
  <2>2. CASE series[i].group[1] = source
    <3>1. series'[i].group[1] = into
      BY <1>14, <2>2
    <3>2. series[i].of[1] \in gone'
      BY <1>1, <2>1, <2>2
    <3> QED
      BY <1>1, <1>13, <3>1, <3>2
  <2>3. CASE series[i].group[1] # source
    BY <1>1, <1>13, <1>14, <2>1, <2>3
  <2> QED
    BY <2>2, <2>3
<1>12. Counted'
  BY <1>1, <1>13 DEF Counted
<1> QED
  BY <1>6, <1>8, <1>9, <1>10, <1>11, <1>12

LEMMA SeriesStep ==
  ASSUME SeriesInv, Se!Next \/ UNCHANGED seriesVars
  PROVE  SeriesInv'
<1>1. ASSUME UNCHANGED <<gone, series, audits, actor, pending, target, seriesLock, seriesRowLock>>,
             history' \in [Se!Groups -> Histories]
      PROVE  SeriesInv'
  <2>1. SeriesTypes'
    BY <1>1 DEF SeriesInv, SeriesTypes
  <2>2. Proposing' /\ Answering' /\ Settled' /\ Owned' /\ Counted'
    BY <1>1 DEF SeriesInv, Proposing, Insertable, Answering, Settled, Owned, Counted,
                Se!Inserts
  <2> QED
    BY <2>1, <2>2 DEF SeriesInv
<1>2. CASE UNCHANGED seriesVars
  BY <1>1, <1>2 DEF SeriesInv, SeriesTypes, seriesVars
<1>3. ASSUME NEW g \in Se!Groups, Se!HistoryChanges(g) PROVE SeriesInv'
  <2>1. history' \in [Se!Groups -> Histories]
    BY <1>3 DEF Se!HistoryChanges, SeriesInv, SeriesTypes
  <2> QED
    BY <1>1, <1>3, <2>1 DEF Se!HistoryChanges
<1>4. CASE Se!Next
  BY <1>3, <1>4, DetectionOpens, DetectionProposes, DetectionInserts, DetectionCommits,
     ReviewerAnswers, AnswerCommits, MerchantsMerge, SessionAborts DEF Se!Next
<1> QED
  BY <1>2, <1>4

\* No series is answered where there is nobody to answer it.
AnsweredByReviewers ==
    Reviewers = {} => \A i \in 1..Len(series) : series[i].status = "CANDIDATE"

LEMMA AnswersStep ==
  ASSUME SeriesInv, AnsweredByReviewers, Se!Next \/ UNCHANGED seriesVars
  PROVE  AnsweredByReviewers'
<1> SUFFICES ASSUME Reviewers = {}, \A i \in 1..Len(series) : series[i].status = "CANDIDATE"
             PROVE  \A i \in 1..Len(series') : series'[i].status = "CANDIDATE"
  BY DEF AnsweredByReviewers
<1>1. CASE UNCHANGED series
  BY <1>1
<1>4. ASSUME NEW source \in Ids, NEW into \in Ids, Se!Merge(source, into)
      PROVE  \A i \in 1..Len(series') : series'[i].status = "CANDIDATE"
  <2>1. /\ Len(series) \in Nat /\ Se!Id = 1..Len(series)
        /\ \A i \in 1..Len(series) : series[i] \in SeriesRow
    BY DEF SeriesInv, SeriesTypes, Se!Id
  <2> DEFINE n == Len(series)
             moved == [i \in 1..n |->
                         IF series[i].group[1] = source
                           THEN [series[i] EXCEPT !.group = <<into, series[i].group[2]>>]
                           ELSE series[i]]
  <2>2. series' = moved
    BY <1>4, <2>1 DEF Se!Merge
  <2>3. \A i \in 1..n : moved[i].status = series[i].status
    BY <2>1 DEF SeriesRow
  <2>4. n \in Nat
    BY <2>1
  <2> HIDE DEF n
  <2>5. Len(moved) = n
    BY <2>4
  <2> HIDE DEF moved
  <2> QED
    BY <2>2, <2>3, <2>5 DEF n
<1>2. ASSUME NEW d \in Detectors, Se!CommitDetect(d)
      PROVE  \A i \in 1..Len(series') : series'[i].status = "CANDIDATE"
  <2>1. Insertable(pending[d]) /\ series' = series \o pending[d]
    BY <1>2 DEF SeriesInv, Proposing, Se!CommitDetect
  <2>2. /\ series \in Seq(SeriesRow) /\ pending[d] \in Seq(SeriesRow)
        /\ \A i \in 1..Len(pending[d]) : pending[d][i].status = "CANDIDATE"
    BY <2>1 DEF SeriesInv, SeriesTypes, Insertable
  <2> HIDE DEF SeriesRow
  <2> QED
    BY <2>1, <2>2
<1>3. \/ UNCHANGED series
      \/ \E d \in Detectors : Se!CommitDetect(d)
      \/ \E source, into \in Ids : Se!Merge(source, into)
  BY DEF Se!Next, Se!BeginDetect, Se!Propose, Se!Insert, Se!Abort, Se!HistoryChanges, seriesVars
<1> QED
  BY <1>1, <1>2, <1>3, <1>4

\* The types of series follow, with the bound of the audit events.
LEMMA SeriesTyped == SeriesInv /\ AnsweredByReviewers => Se!TypeOK
<1> SUFFICES ASSUME SeriesInv, AnsweredByReviewers PROVE Se!TypeOK
  OBVIOUS
<1> USE DEF SeriesInv
<1>1. \A i \in Se!Id : /\ {series[i].group, series[i].of} \subseteq Se!Groups
                       /\ series[i].cadence \in Se!Cadences
                       /\ series[i].status \in Se!Answers \cup {"CANDIDATE"}
                       /\ series[i].next > series[i].last
  <2>1. \A i \in Se!Id : series[i] \in SeriesRow
    BY DEF SeriesTypes, Se!Id
  <2> QED
    BY <2>1 DEF SeriesRow
<1>2. audits \in [1..MaxSeries -> 0..Se!Cardinality(Reviewers)]
  <2>1. Cardinality(Reviewers) \in Nat /\ (Reviewers # {} => Cardinality(Reviewers) >= 1)
    BY SeriesAssumption, FS_CardinalityType, FS_EmptySet
  <2>2. \A i \in 1..MaxSeries : audits[i] \in 0..Cardinality(Reviewers)
    BY <2>1 DEF Counted, AnsweredByReviewers
  <2>3. audits = [i \in 1..MaxSeries |-> audits[i]]
    BY DEF SeriesTypes
  <2> QED
    BY <2>2, <2>3, SameCardinality
<1> QED
  BY <1>1, <1>2 DEF SeriesTypes, Se!TypeOK

\* A cadence is proposed and answered once and is regular, and a series changes hands
\* only with the merge of its merchant, for any detections, merges and reviewers,
\* merchants, currencies and histories.
THEOREM SeriesSound == MCSpec => []SeriesAreSound
<1>1. MCInit => SeriesInv /\ AnsweredByReviewers
  BY SeriesInit DEF MCInit, Se!Init, AnsweredByReviewers
<1>2. SeriesInv /\ AnsweredByReviewers /\ [MCNext]_allVars => (SeriesInv /\ AnsweredByReviewers)'
  BY SeriesStep, AnswersStep, SeriesMove
<1>3. ASSUME SeriesInv, AnsweredByReviewers PROVE SeriesAreSound
  <2>1. Se!CadencesAreRegular
    BY <1>3, RegularCadences DEF SeriesInv, SeriesTypes
  <2>2. Se!Id = 1..Len(series) /\ Len(series) \in Nat /\ \A i \in Se!Id : i \in 1..MaxSeries
    BY <1>3, SeriesAssumption DEF SeriesInv, SeriesTypes, Se!Id
  <2>3. Se!ProposedOnce
    BY <1>3, <2>2 DEF SeriesInv, Settled, Alike, Se!ProposedOnce
  <2>4. Se!MovedByMerges
    BY <1>3, <2>2 DEF SeriesInv, Owned, Se!MovedByMerges
  <2>5. Se!AnsweredOnce
    BY <1>3, <2>2 DEF SeriesInv, Counted, Se!AnsweredOnce
  <2>6. Se!TypeOK
    BY <1>3, SeriesTyped
  <2> QED
    BY <2>1, <2>3, <2>4, <2>5, <2>6 DEF SeriesAreSound, Se!SettledOnce
<1> QED
  BY <1>1, <1>2, <1>3, PTL DEF MCSpec

-----------------------------------------------------------------------------
(***************************************************************************)
(* Types of the whole ledger.                                               *)
(***************************************************************************)

TypesInv ==
    /\ part \in {"corrections", "replacements", "roles", "merchants", "series"}
    /\ TypeOK
    /\ LinkInv
    /\ RoleInv
    /\ Tables /\ Statements /\ MerchantTypes
    /\ SeriesInv /\ AnsweredByReviewers

\* Rows, sessions, locks and logs keep their types in every part; above all, the unique
\* constraints of merchants hold and no alias is left without its merchant, for any
\* sessions beside renames and merges.
THEOREM LedgerTyped == MCSpec => []LedgerTypeOK
<1>1. MCInit => TypesInv
  <2> SUFFICES ASSUME MCInit PROVE TypesInv
    OBVIOUS
  <2>1. AnsweredByReviewers
    BY DEF MCInit, Se!Init, AnsweredByReviewers
  <2>2. part \in {"corrections", "replacements", "roles", "merchants", "series"}
    BY PartsAssumption DEF MCInit
  <2> QED
    BY <2>1, <2>2, TypeInit, LinkInit, RoleInit, MerchantInit, MerchantTypesInit, SeriesInit
    DEF MCInit, MerchantInv, TypesInv
<1>2. TypesInv /\ [MCNext]_allVars => TypesInv'
  <2> SUFFICES ASSUME TypesInv, [MCNext]_allVars PROVE TypesInv'
    OBVIOUS
  <2>1. part' = part /\ [Next]_vars
    BY DEF MCNext, allVars
  <2>2. TypeOK'
    BY <2>1, TypeStep DEF TypesInv
  <2>3. LinkInv'
    BY LinkStep, ReplacementsMove DEF TypesInv
  <2>4. RoleInv'
    BY RoleStep, RolesMove DEF TypesInv
  <2>5. Tables' /\ Statements' /\ MerchantTypes'
    <3>1. CASE UNCHANGED merchantVars
      BY <3>1, MerchantTypesStep DEF TypesInv, merchantVars, Tables, Statements
    <3>2. CASE Me!Next
      BY <3>2, TablesStay, StatementsStay, MerchantTypesStep DEF TypesInv
    <3> QED
      BY <3>1, <3>2, MerchantsMove
  <2>6. SeriesInv' /\ AnsweredByReviewers'
    BY SeriesStep, AnswersStep, SeriesMove DEF TypesInv
  <2> QED
    BY <2>1, <2>2, <2>3, <2>4, <2>5, <2>6 DEF TypesInv
<1>3. TypesInv => LedgerTypeOK
  BY SeriesTyped DEF TypesInv, LedgerTypeOK, LinkInv, RoleInv, MerchantTypes
<1> QED
  BY <1>1, <1>2, <1>3, PTL DEF MCSpec

=============================================================================
