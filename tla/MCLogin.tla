------------------------------- MODULE MCLogin -------------------------------
(* Login with a bounded clock and a bounded number of starts and faults, for TLC. *)
EXTENDS Login

CONSTANTS
    MaxClock,   \* bound: the last moment
    MaxStarts,  \* bound: how often init or run is started
    MaxFaults   \* bound: failed writes and syncs, kills and power losses

VARIABLES starts, faults

mcVars == <<vars, starts, faults>>

MCInit == Init /\ starts = 0 /\ faults = 0

MCNext ==
    \/ /\ starts < MaxStarts
       /\ Start("init") \/ Start("run")
       /\ starts' = starts + 1
       /\ UNCHANGED faults
    \/ /\ faults < MaxFaults
       /\ Fault
       /\ faults' = faults + 1
       /\ UNCHANGED starts
    \/ /\ \/ \E c \in Codes \ spent : Setup(c)
          \/ \E c \in RunCallers : Call(c) \/ DropRequest(c) \/ DropLogin(c)
          \/ \E c \in Callers : CallerStep(c)
          \/ WriterStep \/ CtrlC \/ ExitInit \/ ExitRun
          \/ clock < MaxClock /\ Tick
       /\ UNCHANGED <<starts, faults>>

MCSpec == MCInit /\ [][MCNext]_mcVars

\* The bounds take nothing away from the actions that are scheduled fairly.
MCFairSpec == MCSpec /\ Fairness

============================================================================
