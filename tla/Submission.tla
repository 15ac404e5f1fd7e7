----------------------------- MODULE Submission -----------------------------
(***************************************************************************)
(* What the rest of the service relies on when a loop submits a post: the  *)
(* submissions of a loop follow each other, each ends, it ends with one of *)
(* two outcomes, and what has an outcome is not submitted again unless a   *)
(* stop of the process made it forgotten.  ScreenshotJob implements this   *)
(* specification; SubmitLoop and the loops of Blindkopie, which has an end *)
(* as one step, Submitted, implement its safety.                           *)
(***************************************************************************)
CONSTANTS
    Posts,
    NoPost

VARIABLES
    current,    \* the post in the loop's hand
    outcome     \* what is known of every post

vars == <<current, outcome>>

Init ==
    /\ current = NoPost
    /\ outcome = [p \in Posts |-> "none"]

Begin(p) ==
    /\ current = NoPost
    /\ outcome[p] = "none"
    /\ current' = p
    /\ UNCHANGED outcome

End(o) ==
    /\ current # NoPost
    /\ outcome' = [outcome EXCEPT ![current] = o]
    /\ current' = NoPost

\* The process is stopped and started: outcomes may not have reached the file.
Crash ==
    /\ current' = NoPost
    /\ \E kept \in SUBSET Posts :
           outcome' = [p \in Posts |-> IF p \in kept THEN outcome[p] ELSE "none"]

AnyEnd == \E o \in {"success", "failure"} : End(o)

Next == (\E p \in Posts : Begin(p)) \/ AnyEnd \/ Crash

Safety == Init /\ [][Next]_vars

Spec == Safety /\ WF_vars(AnyEnd)

============================================================================
