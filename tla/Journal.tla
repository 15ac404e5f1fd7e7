------------------------------ MODULE Journal ------------------------------
(***************************************************************************)
(* What a reader of the program expects of changelog.bin, with no file,    *)
(* no buffer and no task in it: changes are accepted in an order, an ever  *)
(* longer prefix of them becomes durable, and whatever goes wrong only     *)
(* cuts off a suffix that was not durable yet.  Changelog.tla implements   *)
(* this specification.                                                     *)
(***************************************************************************)
EXTENDS Naturals, Sequences

CONSTANT Change

VARIABLES
    journal,    \* the accepted changes, oldest first
    durable     \* how many of them are sure to be read by the next start

vars == <<journal, durable>>

TypeOK ==
    /\ journal \in Seq(Change)
    /\ durable \in 0..Len(journal)

Init ==
    /\ journal = <<>>
    /\ durable = 0

\* A component reports changes; they follow everything accepted before.
Accept ==
    /\ journal' \in Seq(Change)
    /\ Len(journal) <= Len(journal')
    /\ SubSeq(journal', 1, Len(journal)) = journal
    /\ UNCHANGED durable

\* A longer prefix becomes durable.
Persist ==
    /\ durable' \in durable..Len(journal)
    /\ UNCHANGED journal

\* A stop, a failed write or a power loss forgets changes that are not durable.
\* What is left after it may have become durable by the same event.
Lose ==
    \E n \in durable..Len(journal) :
        /\ journal' = SubSeq(journal, 1, n)
        /\ durable' \in {durable, n}

Next == Accept \/ Persist \/ Lose

Spec == Init /\ [][Next]_vars

============================================================================
