---------------------------- MODULE MCLocalJobs ----------------------------
EXTENDS LocalJobs, TLC

CONSTANTS j1, j2, v1, v2, v3, api, cli

\* Two reviews of one job from the API and one from the command line.
HomeShared == [a \in {j1, j2, v1, v2} |-> api] @@ (v3 :> cli)
TargetOne == [v \in {v1, v2, v3} |-> j1]
=============================================================================
