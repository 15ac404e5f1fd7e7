---------------------------- MODULE MCSubmitLoop ----------------------------
(* SubmitLoop with few listings and a bounded number of troubles, for TLC. *)
EXTENDS SubmitLoop

CONSTANT MaxTroubles    \* bound: how often the loop is cancelled or the process restarted

VARIABLE troubles

mcVars == <<vars, troubles>>

LeastI64 == 0 - 3

Link(i, ms) ==
    [kind |-> "t3", is_self |-> FALSE, locked |-> FALSE, post_hint |-> "link",
     created_utc |-> ms, id |-> i, url |-> TRUE, url_overridden_by_dest |-> FALSE]

Dates == {-500, 1999}

\* No such id, no such date, nor as an i64, and no discussion.
Rejects ==
    <<Link(BadId, 0), Link(1, 1000 * (MaxUtc + 1)), Link(1, 9000), [Link(2, 0) EXCEPT !.locked = TRUE]>>

\* A post, two, the same with another date, and one behind what is not taken.
SomeListings ==
    {<<Link(i, d)>> : i \in Ids, d \in Dates}
        \cup {<<Link(1, d), Link(2, e)>> : d \in Dates, e \in Dates}
        \cup {<<Link(i, 1999), Link(i, -500)>> : i \in Ids}
        \cup {Append(Rejects, Link(2, 1999))}

MCInit == Init /\ troubles = 0

\* It does not matter which of the unused references is taken.
MCNext ==
    \/ /\ \/ \E children \in SomeListings : Fetch(children)
          \/ AllocatingStep(CHOOSE ref \in Unused : TRUE)
          \/ OtherStep
       /\ UNCHANGED troubles
    \/ /\ troubles < MaxTroubles
       /\ Cancel \/ \E n \in 0..Len(log) : Restart(n)
       /\ troubles' = troubles + 1

\* The bound takes nothing away from the actions that are scheduled fairly.
MCSpec == MCInit /\ [][MCNext]_mcVars /\ Fairness

=============================================================================
