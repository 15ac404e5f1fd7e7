------------------------------- MODULE Backlog -------------------------------
(***************************************************************************)
(* What a submit loop relies on when it takes its posts from a queue: a    *)
(* post has one date, which is the same after a restart; every start       *)
(* offers it once at most; and of those that wait, the newest is taken.    *)
(* SubmitLoop implements it, with heap and set, and so does Blindkopie,    *)
(* which numbers the posts in this order and has the queue as a set.       *)
(***************************************************************************)
EXTENDS Integers

CONSTANTS Ids, Dates, NoDate

VARIABLES
    date,       \* of the posts that were found, as far as it is remembered
    offered,    \* what this start of the process knows of
    waiting     \* what was not taken yet

vars == <<date, offered, waiting>>

Init == date = [i \in Ids |-> NoDate] /\ offered = {} /\ waiting = {}

Find(i, d) ==
    /\ date[i] = NoDate
    /\ date' = [date EXCEPT ![i] = d]
    /\ offered' = offered \cup {i}
    /\ waiting' = waiting \cup {i}

IsNewest(i) ==
    \A j \in waiting \ {i} : date[j] < date[i] \/ (date[j] = date[i] /\ j < i)

Take(i) ==
    /\ i \in waiting /\ IsNewest(i)
    /\ waiting' = waiting \ {i}
    /\ UNCHANGED <<date, offered>>

Crash ==
    /\ \E kept \in SUBSET Ids : date' = [i \in Ids |-> IF i \in kept THEN date[i] ELSE NoDate]
    /\ offered' = {} /\ waiting' = {}

\* A start reads back what was found; not every loop gets it offered again.
Restore(i) ==
    /\ date[i] # NoDate /\ i \notin offered
    /\ offered' = offered \cup {i}
    /\ waiting' = waiting \/ waiting' = waiting \cup {i}
    /\ UNCHANGED date

Next ==
    \/ \E i \in Ids : Take(i) \/ Restore(i) \/ \E d \in Dates : Find(i, d)
    \/ Crash

Spec == Init /\ [][Next]_vars

=============================================================================
