---------------------------- MODULE MCBlindkopie ----------------------------
(* Blindkopie with a bounded number of starts, faults and cancellations, for TLC. *)
EXTENDS Blindkopie

CONSTANTS
    MaxStarts,      \* bound: how often the process is started
    MaxFaults,      \* bound: failed writes and syncs, kills and power losses
    MaxCancels,     \* bound: how often Ctrl+C is pressed or a login fails
    MaxTroubles,    \* bound: faults and cancellations together
    Failing         \* bound: the loops whose submissions may fail

VARIABLES starts, faults, cancels

budget == <<starts, faults, cancels>>
mcVars == <<vars, budget>>

MCInit == Init /\ starts = 0 /\ faults = 0 /\ cancels = 0

MCNext ==
    \/ /\ starts < MaxStarts
       /\ Start
       /\ starts' = starts + 1
       /\ UNCHANGED <<faults, cancels>>
    \/ /\ faults < MaxFaults /\ faults + cancels < MaxTroubles
       /\ Fault
       /\ faults' = faults + 1
       /\ UNCHANGED <<starts, cancels>>
    \/ /\ cancels < MaxCancels /\ faults + cancels < MaxTroubles
       /\ CtrlC \/ LoginFails
       /\ cancels' = cancels + 1
       /\ UNCHANGED <<starts, faults>>
    \/ /\ ReplayLine \/ ReplayFails \/ StartLoops \/ Exit \/ LoopStep
       /\ \A l \in SubmitLoops \ Failing : ~(pc[l] = "submit" /\ Submitted(l, "failure"))
       /\ UNCHANGED budget

MCSpec == MCInit /\ [][MCNext]_mcVars

\* What the loops do depends on the file only through the next start, and on the
\* uncommitted changes only through their number: for one start and no faults,
\* states that agree on the rest have the same futures.
MemoryView ==
    <<budget, Len(uncommitted), logPermit, writer, cancelled, replayVars, workVars, taskVars>>

\* The bounds take nothing away from the actions that are scheduled fairly.
MCFairSpec == MCSpec /\ Fairness

============================================================================
