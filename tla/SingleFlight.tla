---------------------------- MODULE SingleFlight ----------------------------
(***************************************************************************)
(* What the job substrate of `rhino web --enable-jobs` promises, whatever  *)
(* its threads do: jobs execute one at a time, none executes twice, and a  *)
(* job that has begun also ends.  JobRegistry implements this              *)
(* specification.                                                          *)
(***************************************************************************)
CONSTANTS Jobs,     \* the jobs that may ever be submitted
          NoJob     \* "no job is in flight"

VARIABLES active,     \* the job in flight, or NoJob
          finished    \* the jobs that have ended

sfVars == <<active, finished>>

Init ==
  /\ active = NoJob
  /\ finished = {}

Begin(j) ==
  /\ active = NoJob
  /\ j \notin finished
  /\ active' = j
  /\ UNCHANGED finished

End(j) ==
  /\ active = j
  /\ active' = NoJob
  /\ finished' = finished \cup {j}

Next == \E j \in Jobs : Begin(j) \/ End(j)

\* What it promises of every step, and that it does not stop short of an end.
Safety == Init /\ [][Next]_sfVars
Spec == Safety /\ WF_sfVars(\E j \in Jobs : End(j))
=============================================================================
