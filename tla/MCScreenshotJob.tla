--------------------------- MODULE MCScreenshotJob ---------------------------
(* ScreenshotJob with a bounded number of restarts, for TLC. *)
EXTENDS ScreenshotJob

CONSTANT MaxRestarts    \* bound: how often the process is stopped and started

VARIABLE restarts

mcVars == <<vars, restarts>>

MCInit == Init /\ restarts = 0

\* Numbers are only compared with those that subprocesses know: without any, all
\* choices are alike.
SomePaths == IF procs = {} THEN {CHOOSE paths \in Paths : TRUE} ELSE Paths

MCNext ==
    \/ /\ \/ \E p \in Posts, paths \in SomePaths : Take(p, paths)
          \/ \E s \in procs : ProcessStep(s)
          \/ RenderStep \/ PublishStep
          \/ \E r \in inflight : Accept(r) \/ Refuse(r)
          \/ Fails \/ Report
       /\ UNCHANGED restarts
    \/ /\ restarts < MaxRestarts
       /\ Restart
       /\ restarts' = restarts + 1

\* The bound takes nothing away from the actions that are scheduled fairly.
MCSpec == MCInit /\ [][MCNext]_mcVars /\ WF_vars(Fails) /\ WF_vars(Report)

============================================================================
