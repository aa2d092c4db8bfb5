---------------------------- MODULE JobLifecycle ----------------------------
(***************************************************************************)
(* The life cycle a persistent job queue promises the callers that submit  *)
(* jobs to it: a job ends once, with one outcome, and only the work of an  *)
(* executor that had claimed it can complete or fail it.  A claim may be   *)
(* given up (shutdown, crash recovery, retry), and a set of jobs at once.  *)
(***************************************************************************)
CONSTANT Job
VARIABLE phase

Ended == {"completed", "failed", "cancelled"}

Init == phase = [j \in Job |-> "none"]

\* The jobs of S, all in phase `from', move to phase `to' together.
Move(S, from, to) ==
    /\ \A j \in S : phase[j] = from
    /\ phase' = [j \in Job |-> IF j \in S THEN to ELSE phase[j]]

Submit(j)    == Move({j}, "none", "pending")
Claim(j)     == Move({j}, "pending", "running")
Finish(j)    == \E outcome \in {"completed", "failed"} : Move({j}, "running", outcome)
Release(S)   == Move(S, "running", "pending")
Withdraw(S)  == Move(S, "pending", "cancelled")
Purge(S) ==
    /\ \A j \in S : phase[j] \in Ended
    /\ phase' = [j \in Job |-> IF j \in S THEN "purged" ELSE phase[j]]

Next ==
    \/ \E j \in Job : Submit(j) \/ Claim(j) \/ Finish(j)
    \/ \E S \in SUBSET Job : Release(S) \/ Withdraw(S) \/ Purge(S)

Spec == Init /\ [][Next]_phase
=============================================================================
