------------------------------- MODULE MCCatalog -------------------------------
(***************************************************************************)
(* A behaviour is one of three scenes: one session asking for everything,    *)
(* two sessions that arrange three categories, or two sessions that merge    *)
(* merchants and create, edit, confirm and deactivate rules about them.      *)
(***************************************************************************)
EXTENDS MCClassificationCatalog

VARIABLE scene

AskedIn == [alone |-> EveryRequest, categories |-> CategoryRequests, rules |-> RuleRequests]

MCRequests == UNION {AskedIn[x] : x \in DOMAIN AskedIn}

MCInit == Init /\ scene \in DOMAIN AskedIn
               /\ (scene = "rules" => \A x \in {b, c} : ~category[x].exists)

MCNext ==
    /\ UNCHANGED scene
    /\ \E s \in IF scene = "alone" THEN {s1} ELSE Sessions :
         \/ \E req \in AskedIn[scene] : Begin(s, req)
         \/ Lock(s) \/ Check(s) \/ Write(s) \/ Rollback(s)

MCSpec == MCInit /\ [][MCNext]_<<vars, scene>>
=============================================================================
