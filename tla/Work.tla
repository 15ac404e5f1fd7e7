-------------------------------- MODULE Work --------------------------------
(***************************************************************************)
(* The data of src/state.rs: posts, the work done for a post (WorkInner),  *)
(* its outcomes (WorkOutcome), and the changes the log records             *)
(* (StateChange).  A post stands for the works that are equal to it: Work  *)
(* and RedditPost compare and hash by id.                                  *)
(***************************************************************************)
EXTENDS Naturals, Sequences

CONSTANTS
    Posts,      \* posts, as numbers: the later (created, id), the larger
    Archives    \* the run_submit_loop instances that are running

ASSUME PostsAssumption == Posts \subseteq Nat

\* The program runs all three.
ASSUME ArchivesAssumption == Archives \subseteq {"outline_com", "wikiwix", "google_cache"}

SubmitLoops == Archives \cup {"screenshot"}
Workers == SubmitLoops \cup {"comment"}

\* The fields of WorkInner that a loop which is running fills in, and those two
\* that comment_loop looks at or marks.  Nothing ever writes WorkInner.comment.
ResultFields == Archives \cup {"screenshot", "text"}
WorkFields == ResultFields \cup {"comment", "outline_com"}

Outcomes == {"waiting", "processing", "success", "failure"}

NewWork == [f \in WorkFields |-> "waiting"]

IsDone(outcome) == outcome \in {"success", "failure"}

ReadyToComment(work) ==
    /\ ~IsDone(work["comment"])
    /\ \A f \in ResultFields : IsDone(work[f])

\* A missing page in the Google cache is not counted.
IsFailure(work) ==
    \A f \in ResultFields \ {"google_cache"} : work[f] = "failure"

\* The fields a loop fills in, and the loop that fills in a field.
FieldsOf(l) == IF l = "screenshot" THEN {"screenshot", "text"} ELSE {l}
LoopOf(f) == IF f = "text" THEN "screenshot" ELSE f

\* Mutant: a work that is done already is taken up again.
SkipsNothingDone(l, work) == l = "comment" /\ IsFailure(work)

\* What a loop does not take up again (skip_work and its counterparts).
Skips(l, work) ==
    \/ IsDone(work["comment"])
    \/ l \in SubmitLoops /\ IsDone(work[l])
    \/ l = "comment" /\ IsFailure(work)

\* The field a loop marks when it takes a work up.
MarkedField(l) == IF l = "comment" THEN "outline_com" ELSE l

----------------------------------------------------------------------------
(* StateChange; tokens and client data are the subject of Login.tla *)

Change == [field : ResultFields \cup {"new"}, post : Posts, outcome : {"success", "failure"}]

NewPost(p) == [field |-> "new", post |-> p, outcome |-> "success"]
OutcomeOf(f, p, outcome) == [field |-> f, post |-> p, outcome |-> outcome]

\* What a loop reports of a finished submission, in one call of log_changes.
Report(l, p, outcome) ==
    IF l = "screenshot"
    THEN <<OutcomeOf("screenshot", p, outcome), OutcomeOf("text", p, outcome)>>
    ELSE <<OutcomeOf(l, p, outcome)>>

Reports ==
    {<<NewPost(p)>> : p \in Posts}
        \cup {Report(l, p, o) : l \in SubmitLoops, p \in Posts, o \in {"success", "failure"}}

============================================================================
