--------------------------- MODULE VersionedState ---------------------------
(***************************************************************************)
(* What transaction_user_state promises: for each transaction a content     *)
(* with a version.  The version is 0 until the first write and grows by one *)
(* with every change, so that it identifies the content; and a patch is     *)
(* applied to the very content it replaces.                                 *)
(***************************************************************************)
EXTENDS Integers

CONSTANTS
    Transactions, Patches, Merchants,
    Blank,           \* the content of a transaction nobody has written
    Patched(_, _),   \* what a patch makes of a content
    Renamed(_, _, _) \* a content with its second argument for its third

VARIABLE register

Bumped(t, content) == [version |-> register[t].version + 1, content |-> content]

Init == register = [t \in Transactions |-> [version |-> 0, content |-> Blank]]

\* A user's patch.
Patch(t) ==
    \E p \in Patches :
      register' = [register EXCEPT ![t] = Bumped(t, Patched(p, register[t].content))]

\* A first content, taken over from another transaction.
TakeOver(t) ==
    /\ register[t].version = 0
    /\ \E u \in Transactions \ {t} :
         register' = [register EXCEPT ![t] = Bumped(t, register[u].content)]

\* A merchant is replaced by another in every content that names it.
Rename(m, n) ==
    register' = [t \in Transactions |->
                   LET content == Renamed(register[t].content, m, n)
                   IN IF content = register[t].content THEN register[t]
                      ELSE Bumped(t, content)]

Next == \/ \E t \in Transactions : Patch(t) \/ TakeOver(t)
        \/ \E m, n \in Merchants : Rename(m, n)

Spec == Init /\ [][Next]_register
=============================================================================
