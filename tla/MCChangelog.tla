---------------------------- MODULE MCChangelog ----------------------------
(* Changelog with a bounded file and queue, for TLC. *)
EXTENDS Changelog

CONSTANT MaxLines       \* bound: lines and queued changes together

MCBatches == [1..1 -> Change] \cup [1..2 -> Change]

Bounded == Len(lines) + Len(uncommitted) <= MaxLines

MCSpec == Init /\ [][Next /\ Bounded']_vars

MCFairSpec == MCSpec /\ Fairness

\* AcceptedIsSynced for every change the bound admits.
EveryAcceptedIsSynced == \A n \in 1..MaxLines : AcceptedIsSynced(n)

============================================================================
