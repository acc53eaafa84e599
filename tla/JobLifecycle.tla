---------------------------- MODULE JobLifecycle ----------------------------
(***************************************************************************)
(* What the job queue promises to those who put work into it, without      *)
(* leases, clocks or workers: a job is tried a bounded number of times, is *)
(* settled as done or dead, and comes back from the dead only when someone *)
(* grants it another try.  JobQueue implements this specification.         *)
(***************************************************************************)
EXTENDS Integers

CONSTANT Job

VARIABLES
    stage,   \* where each job stands
    tries,   \* attempts started so far
    budget   \* attempts granted so far

lifecycleVars == <<stage, tries, budget>>

Stage == {"unknown", "waiting", "trying", "done", "dead"}

Init ==
    /\ stage = [j \in Job |-> "unknown"]
    /\ tries = [j \in Job |-> 0]
    /\ budget = [j \in Job |-> 0]

Submit(j) ==
    /\ stage[j] = "unknown"
    /\ stage' = [stage EXCEPT ![j] = "waiting"]
    /\ budget' = [budget EXCEPT ![j] = budget'[j]]
    /\ budget'[j] > 0
    /\ UNCHANGED tries

Try(j) ==
    /\ stage[j] = "waiting"
    /\ tries[j] < budget[j]
    /\ stage' = [stage EXCEPT ![j] = "trying"]
    /\ tries' = [tries EXCEPT ![j] = @ + 1]
    /\ UNCHANGED budget

Succeed(j) ==
    /\ stage[j] = "trying"
    /\ stage' = [stage EXCEPT ![j] = "done"]
    /\ UNCHANGED <<tries, budget>>

\* The attempts at the jobs of Retry and Bury end without success; only jobs
\* with an attempt left wait for it.
GiveUp(Retry, Bury) ==
    /\ \A j \in Retry \cup Bury : stage[j] = "trying"
    /\ \A j \in Retry : tries[j] < budget[j]
    /\ stage' = [j \in Job |-> IF j \in Retry THEN "waiting"
                               ELSE IF j \in Bury THEN "dead" ELSE stage[j]]
    /\ UNCHANGED <<tries, budget>>

Cancel(S) ==
    /\ \A j \in S : stage[j] = "waiting"
    /\ stage' = [j \in Job |-> IF j \in S THEN "dead" ELSE stage[j]]
    /\ UNCHANGED <<tries, budget>>

\* Someone grants at least one more attempt; grants are never taken back.
Revive(j) ==
    /\ stage[j] = "dead"
    /\ stage' = [stage EXCEPT ![j] = "waiting"]
    /\ budget' = [budget EXCEPT ![j] = budget'[j]]
    /\ budget'[j] > tries[j] /\ budget'[j] >= budget[j]
    /\ UNCHANGED tries

Next ==
    \/ \E j \in Job : Submit(j) \/ Try(j) \/ Succeed(j) \/ Revive(j)
    \/ \E Retry, Bury \in SUBSET Job : GiveUp(Retry, Bury)
    \/ \E S \in SUBSET Job : Cancel(S)

Spec == Init /\ [][Next]_lifecycleVars
=============================================================================
