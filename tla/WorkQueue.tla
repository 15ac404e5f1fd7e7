------------------------------ MODULE WorkQueue ------------------------------
(***************************************************************************)
(* WorkQueueInner of src/state.rs: a BinaryHeap and a HashSet of the same  *)
(* works.  The heap goes by the order of RedditPost, the set by its        *)
(* equality, and these two do not agree.                                   *)
(*                                                                         *)
(* A Work is a post and a reference to its data (an Arc); a clone has the  *)
(* same reference.                                                         *)
(***************************************************************************)
EXTENDS Listing

CONSTANTS
    Refs    \* what Arc::new returns

Works == [created : {FromI64(s) : s \in MinUtc..MaxUtc}, id : Ids, data : Refs]

\* Work::new
NewWork(post, ref) == [created |-> post.created, id |-> post.id, data |-> ref]

\* HashSet::insert, contains, remove: an equal work that is there already stays.
Contains(set, work) == \E w \in set : IsSame(w, work)
SetInsert(set, work) == IF Contains(set, work) THEN set ELSE set \cup {work}
SetRemove(set, work) == {w \in set : ~IsSame(w, work)}

\* The heap, as how many of each work it has.
EmptyQueue == [heap |-> [w \in Works |-> 0], set |-> {}]

WorkQueues == [heap : [Works -> Nat], set : SUBSET Works]

\* WorkQueueInner::insert
Insert(queue, work) ==
    IF Contains(queue.set, work) THEN queue
    ELSE [heap |-> [queue.heap EXCEPT ![work] = @ + 1], set |-> queue.set \cup {work}]

\* Mutant: the newest is the one with the greatest id.
IsTopById(queue, work) ==
    /\ queue.heap[work] > 0
    /\ \A w \in Works : queue.heap[w] > 0 => w.id <= work.id

\* ordered_queue.pop() may return the work: none is greater.
IsTop(queue, work) ==
    /\ queue.heap[work] > 0
    /\ \A w \in Works : queue.heap[w] > 0 => ~IsOlder(work, w)

\* Mutant: the work stays in the set.
RemoveFromHeap(queue, work) == [queue EXCEPT !.heap[work] = @ - 1]

\* It leaves the heap, and whatever is equal to it leaves the set.
Remove(queue, work) ==
    [heap |-> [queue.heap EXCEPT ![work] = @ - 1], set |-> SetRemove(queue.set, work)]

=============================================================================
