-------------------------------- MODULE Null --------------------------------
(***************************************************************************)
(* What JobQueue and ConnectionSync share: the value of a column, or of a   *)
(* variable, that has none.                                                *)
(***************************************************************************)
CONSTANT None      \* SQL null, and null or undefined of the code
=============================================================================
