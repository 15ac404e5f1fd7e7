------------------------------- MODULE Listing -------------------------------
(***************************************************************************)
(* What collect_new_posts (src/reddit.rs) makes of a listing of Reddit.    *)
(* A missing field has its default; of strings it matters only whether     *)
(* they are there, and whether an id fits into a TinyStr16.                *)
(***************************************************************************)
EXTENDS Timestamp, Sequences

CONSTANTS
    Ids     \* ids that do fit, as numbers in their order

ASSUME IdsAssumption == Ids \subseteq Nat

BadId == 0 - 1

Children ==
    [kind : {"None", "t1", "t2", "t3", "t4", "t5", "t6"},
     is_self : BOOLEAN,
     locked : BOOLEAN,
     post_hint : {"None", "link", "image"},
     created_utc : Int,
     id : Ids \cup {BadId},
     url : BOOLEAN,
     url_overridden_by_dest : BOOLEAN]

\* Mutant: a date that cannot be kept is not looked for.
IsPostOfAnyDate(child) ==
    /\ child.kind = "t3"
    /\ ~child.is_self /\ ~child.locked
    /\ child.post_hint = "link"
    /\ child.url_overridden_by_dest \/ child.url
    /\ child.id \in Ids

\* The filter: an unlocked link with an url, an id and a date that can be kept.
IsPost(child) ==
    /\ child.kind = "t3"
    /\ ~child.is_self /\ ~child.locked
    /\ child.post_hint = "link"
    /\ child.url_overridden_by_dest \/ child.url
    /\ IsUtc(AsI64(child.created_utc))
    /\ child.id \in Ids

HasPosts(children) == \E i \in 1..Len(children) : IsPost(children[i])

\* RedditPost, without its url.
PostOf(child) == [created |-> FromF64(child.created_utc), id |-> child.id]

\* RedditPost's Ord: by date, then by id.
IsOlder(p, q) ==
    \/ Before(p.created, q.created)
    \/ Equal(p.created, q.created) /\ p.id < q.id

\* Eq and Hash look at the id alone.
IsSame(p, q) == p.id = q.id

=============================================================================
