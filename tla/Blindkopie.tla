----------------------------- MODULE Blindkopie -----------------------------
(***************************************************************************)
(* The running service: subcommand_run of src/main.rs with the seven loops *)
(* it joins, the state they share (src/state.rs), the changelog they       *)
(* report to, and the stop and restart of the process, which reads the     *)
(* changelog back.                                                         *)
(*                                                                         *)
(* The loops are futures of one task (join!), so they interleave at their  *)
(* .await points; what lies between two of them, and what a loop does      *)
(* under a lock it does not give back before the next one, is one action.  *)
(* Ctrl+C is served by a thread of its own and may come at any time.       *)
(***************************************************************************)
EXTENDS Work

VARIABLES
    \* changelog.bin and changelog_loop, see Changelog.tla
    lines, tail, synced, uncommitted, logPermit, writer, cancelled,

    phase,      \* "down", "replay" (read_changelog) or "running"
    replayed,   \* how many lines read_changelog has applied
    restored,   \* (history) the posts it has found in the file
    seen,       \* State.seen_posts
    data,       \* Work.data of every post; NewWork for a post not seen
    queue,      \* the five WorkQueues: posts waiting for a worker
    permit,     \* the permits of their Notify
    pc,         \* where collect_loop and the workers are
    current,    \* the post a submit loop works on
    listing,    \* what is left of the posts collect_new_posts returned
    inserted    \* whether one of them was new

logOnlyVars == <<lines, tail, synced, uncommitted, logPermit, writer>>
logVars == <<logOnlyVars, cancelled>>
workVars == <<seen, data, queue, permit>>
taskVars == <<pc, current, listing, inserted>>
replayVars == <<phase, replayed, restored>>
vars == <<logVars, replayVars, workVars, taskVars>>

Log == INSTANCE Changelog WITH Batches <- Reports

Loops == Workers \cup {"collect"}

\* "first" before the first poll, "poll" waiting for the queue's lock, "submit"
\* and "enqueue" a submission and what follows it, "fetch" and "insert" the same
\* for collect_loop, "sleep" the pause, "await" the queue's Notify.
LoopStates ==
    {"first", "poll", "submit", "enqueue", "fetch", "insert", "sleep", "await", "done"}

NoPost == 0 - 1

TypeOK ==
    /\ Log!TypeOK
    /\ phase \in {"down", "replay", "running"}
    /\ writer = "off" <=> phase # "running"
    /\ replayed \in Nat
    /\ restored \subseteq Posts
    /\ seen \subseteq Posts
    /\ data \in [Posts -> [WorkFields -> Outcomes]]
    /\ queue \in [Workers -> SUBSET Posts]
    /\ permit \in [Workers -> BOOLEAN]
    /\ pc \in [Loops -> LoopStates]
    /\ current \in [SubmitLoops -> Posts \cup {NoPost}]
    /\ \A l \in SubmitLoops : pc[l] \in {"submit", "enqueue"} => current[l] \in Posts
    /\ listing \subseteq Posts
    /\ inserted \in BOOLEAN

----------------------------------------------------------------------------
(* Start, replay, stop *)

\* State::default(), and the loops before they are polled.
NoWork == [p \in Posts |-> NewWork]
NoQueues == [l \in Workers |-> {}]
NoPermits == [l \in Workers |-> FALSE]
NoCurrent == [l \in SubmitLoops |-> NoPost]
FirstStates == [l \in Loops |-> "first"]

Init ==
    /\ Log!Init
    /\ phase = "down" /\ replayed = 0 /\ restored = {}
    /\ seen = {} /\ data = NoWork /\ queue = NoQueues /\ permit = NoPermits
    /\ pc = FirstStates /\ current = NoCurrent /\ listing = {} /\ inserted = FALSE

\* The process is gone, and with it everything but the file.
Down ==
    /\ phase' = "down" /\ replayed' = 0 /\ restored' = {}
    /\ seen' = {} /\ data' = NoWork /\ queue' = NoQueues /\ permit' = NoPermits
    /\ pc' = FirstStates /\ current' = NoCurrent /\ listing' = {} /\ inserted' = FALSE

Start ==
    /\ phase = "down"
    /\ phase' = "replay"
    /\ UNCHANGED <<logVars, replayed, restored, workVars, taskVars>>

Insert(p, loops) == [l \in Workers |-> IF l \in loops THEN queue[l] \cup {p} ELSE queue[l]]

\* Mutants: the post is not remembered; one more queue is forgotten.
ApplyNewPostUnseen(p) ==
    /\ queue' = Insert(p, SubmitLoops \ {"wikiwix"})
    /\ restored' = restored \cup {p}
    /\ UNCHANGED <<seen, data>>

ApplyNewPostLessQueued(p) ==
    /\ seen' = seen \cup {p}
    /\ queue' = Insert(p, SubmitLoops \ {"wikiwix", "screenshot"})
    /\ restored' = restored \cup {p}
    /\ UNCHANGED data

\* apply_change(NewPost): the post joins three of the four submit queues.
ApplyNewPost(p) ==
    /\ seen' = seen \cup {p}
    /\ queue' = Insert(p, SubmitLoops \ {"wikiwix"})
    /\ restored' = restored \cup {p}
    /\ UNCHANGED data

\* Mutant: the outcome of the screenshot is stored as that of the text.
ApplyOutcomeElsewhere(c) ==
    /\ data' = [data EXCEPT ![c.post][IF c.field = "screenshot" THEN "text" ELSE c.field] = c.outcome]
    /\ UNCHANGED <<seen, queue, restored>>

\* apply_outcome: a post that was not announced is passed over.
ApplyOutcome(c) ==
    /\ IF c.post \in seen
       THEN /\ data' = [data EXCEPT ![c.post][c.field] = c.outcome]
            /\ queue' = IF ReadyToComment(data'[c.post])
                        THEN Insert(c.post, {"comment"})
                        ELSE queue
       ELSE UNCHANGED <<data, queue>>
    /\ UNCHANGED <<seen, restored>>

\* One turn of the loop in read_changelog.
ReplayLine ==
    /\ phase = "replay"
    /\ replayed < Len(lines)
    /\ LET change == lines[replayed + 1]
       IN  IF change.field = "new" THEN ApplyNewPost(change.post) ELSE ApplyOutcome(change)
    /\ replayed' = replayed + 1
    /\ UNCHANGED <<logVars, phase, permit, taskVars>>

\* Mutant: the error is passed over, and the process runs without its changelog.
ReplayFailsUnnoticed ==
    /\ phase = "replay"
    /\ replayed = Len(lines)
    /\ tail = "garbled"
    /\ phase' = "running"
    /\ UNCHANGED <<logVars, replayed, restored, workVars, taskVars>>

\* The last line does not parse: State::new returns the error.
ReplayFails ==
    /\ phase = "replay"
    /\ replayed = Len(lines)
    /\ tail = "garbled"
    /\ Down
    /\ UNCHANGED logVars

\* join!: the loops are polled for the first time.
StartLoops ==
    /\ phase = "replay"
    /\ replayed = Len(lines)
    /\ Log!Open
    /\ phase' = "running"
    /\ replayed' = 0
    /\ UNCHANGED <<restored, workVars, taskVars>>

\* The process ends and its memory is gone: every loop is done, or it is killed.
Exit ==
    /\ phase = "running"
    /\ writer = "done"
    /\ \A l \in Loops : pc[l] = "done"
    /\ Log!Stop
    /\ Down

Kill ==
    /\ phase # "down"
    /\ Log!Stop
    /\ Down

PowerLoss ==
    /\ phase # "down"
    /\ Log!PowerLoss
    /\ Down

\* The handler of ctrlc::set_handler.
CtrlC ==
    /\ Log!Cancel
    /\ UNCHANGED <<replayVars, workVars, taskVars>>

----------------------------------------------------------------------------
(* What the loops have in common *)

Go(l, where) == pc' = [pc EXCEPT ![l] = where]

\* A loop returns: its defer cancels the token.
Return(l) ==
    /\ Go(l, "done")
    /\ Log!Cancel
    /\ UNCHANGED <<replayVars, workVars, current, listing, inserted>>

\* Mutant: a worker does not look at the token.
AgainBlindly(l) == Go(l, IF l = "collect" THEN "fetch" ELSE "poll") /\ UNCHANGED cancelled

\* The top of a loop.  A worker looks at the token before it takes a post, and
\* nothing is awaited between the end of its pause or wait and that look.
Again(l) ==
    IF l = "collect" THEN Go(l, "fetch") /\ UNCHANGED cancelled
    ELSE IF cancelled THEN Go(l, "done") /\ cancelled' = TRUE
    ELSE Go(l, "poll") /\ UNCHANGED cancelled

\* The first poll of the loop, or sleep_with_cancellation_token: time is over.
Wake(l) ==
    /\ pc[l] \in {"first", "sleep"}
    /\ Again(l)
    /\ UNCHANGED <<replayVars, logOnlyVars, workVars, current, listing, inserted>>

\* await_with_cancellation_token: the queue's Notify has a permit.
Notified(l) ==
    /\ pc[l] = "await"
    /\ permit[l]
    /\ permit' = [permit EXCEPT ![l] = FALSE]
    /\ Again(l)
    /\ UNCHANGED <<replayVars, logOnlyVars, seen, data, queue, current, listing, inserted>>

\* Mutant: the wait is for the Notify alone.
GiveUpUnlessWaiting(l) ==
    /\ pc[l] \in {"sleep", "fetch"}
    /\ cancelled
    /\ Return(l)

\* The token is cancelled: a pause, a wait or collect_loop's request gives up.
GiveUp(l) ==
    /\ pc[l] \in {"sleep", "await", "fetch"}
    /\ cancelled
    /\ Return(l)

----------------------------------------------------------------------------
(* collect_loop *)

\* collect_new_posts returns the posts of the listing; an error counts as none.
Fetch(posts) ==
    /\ pc["collect"] = "fetch"
    /\ listing' = posts
    /\ Go("collect", IF posts = {} THEN "sleep" ELSE "insert")
    /\ UNCHANGED <<logVars, replayVars, workVars, current, inserted>>

\* ensure_logged_in fails, or is dropped before it succeeded, in the request for
\* the listing or in the upload of a screenshot: its defer cancels the token.  The
\* token it gets and reports when it succeeds is the subject of Login.tla.
LoginFails ==
    /\ pc["collect"] = "fetch" \/ pc["screenshot"] = "submit"
    /\ Log!Cancel
    /\ UNCHANGED <<replayVars, workVars, taskVars>>

Notify(loops) == [l \in Workers |-> permit[l] \/ l \in loops]

\* Mutants: only the last post of the listing counts; nobody is notified.
EndOfListingLastCounts(p, new) ==
    /\ listing' = listing \ {p}
    /\ inserted' = (listing' # {} /\ new)
    /\ IF listing' = {}
       THEN Go("collect", "sleep") /\ permit' = Notify(IF new THEN SubmitLoops ELSE {})
       ELSE UNCHANGED <<pc, permit>>

EndOfListingSilent(p, new) ==
    /\ listing' = listing \ {p}
    /\ inserted' = FALSE
    /\ IF listing' = {} THEN Go("collect", "sleep") ELSE UNCHANGED pc
    /\ UNCHANGED permit

\* After the last post of the listing the locks are dropped and, if a post was
\* new, the four submit loops are notified.
EndOfListing(p, new) ==
    /\ listing' = listing \ {p}
    /\ inserted' = (listing' # {} /\ (inserted \/ new))
    /\ IF listing' = {}
       THEN /\ Go("collect", "sleep")
            /\ permit' = Notify(IF inserted \/ new THEN SubmitLoops ELSE {})
       ELSE UNCHANGED <<pc, permit>>

InsertSeen(p) ==
    /\ pc["collect"] = "insert"
    /\ p \in listing \cap seen
    /\ EndOfListing(p, FALSE)
    /\ UNCHANGED <<logVars, replayVars, seen, data, queue, current>>

\* Mutant: posts are not looked up.
NotSeenUnchecked == listing

NotSeen == listing \ seen

\* A new post is reported first and then put into every submit queue.
InsertNew(p) ==
    /\ pc["collect"] = "insert"
    /\ p \in NotSeen
    /\ Log!LogChanges(<<NewPost(p)>>)
    /\ seen' = seen \cup {p}
    /\ data' = [data EXCEPT ![p] = NewWork]
    /\ queue' = Insert(p, SubmitLoops)
    /\ EndOfListing(p, TRUE)
    /\ UNCHANGED <<replayVars, current>>

----------------------------------------------------------------------------
(* The workers: run_submit_loop, screenshot_loop, comment_loop *)

\* collect_loop keeps the submit queues locked while it inserts a listing.
HasQueue(l) ==
    /\ pc[l] = "poll"
    /\ l \in SubmitLoops => pc["collect"] # "insert"

PollEmpty(l) ==
    /\ HasQueue(l)
    /\ queue[l] = {}
    /\ Go(l, "await")
    /\ UNCHANGED <<logVars, replayVars, workVars, current, listing, inserted>>

\* ordered_queue.pop(): the newest post leaves the heap and the set.
Pop(l, p) ==
    /\ HasQueue(l)
    /\ p \in queue[l]
    /\ \A q \in queue[l] : q <= p
    /\ queue' = [queue EXCEPT ![l] = @ \ {p}]

PollSkip(l, p) ==
    /\ Pop(l, p)
    /\ Skips(l, data[p])
    /\ Again(l)
    /\ UNCHANGED <<replayVars, logOnlyVars, seen, data, permit, current, listing, inserted>>

\* A submit loop goes on to submit the post; comment_loop has nothing to do yet
\* but to mark it, which it does in the field of Outline.com.
PollTake(l, p) ==
    /\ Pop(l, p)
    /\ ~Skips(l, data[p])
    /\ data' = [data EXCEPT ![p][MarkedField(l)] = "processing"]
    /\ IF l = "comment"
       THEN Go(l, "sleep") /\ UNCHANGED current
       ELSE Go(l, "submit") /\ current' = [current EXCEPT ![l] = p]
    /\ UNCHANGED <<logVars, replayVars, seen, permit, listing, inserted>>

\* Mutant: the first outcome is enough.
DoCommentEarly(work) == \E f \in ResultFields : IsDone(work[f])

\* do_comment
DoComment(work) == ReadyToComment(work)

\* The submission ended: with an url, or with an error, a timeout or the
\* cancellation, which are all reported as a failure.
Submitted(l, outcome) ==
    /\ pc[l] = "submit"
    /\ Log!LogChanges(Report(l, current[l], outcome))
    /\ data' = [data EXCEPT ![current[l]] =
                   [f \in WorkFields |-> IF f \in FieldsOf(l) THEN outcome ELSE @[f]]]
    /\ IF DoComment(data'[current[l]])
       THEN Go(l, "enqueue") /\ UNCHANGED current
       ELSE Go(l, "sleep") /\ current' = [current EXCEPT ![l] = NoPost]
    /\ UNCHANGED <<replayVars, seen, queue, permit, listing, inserted>>

\* Mutant: comment_loop is not told.
EnqueueSilently(l) ==
    /\ pc[l] = "enqueue"
    /\ queue' = Insert(current[l], {"comment"})
    /\ Go(l, "sleep")
    /\ current' = [current EXCEPT ![l] = NoPost]
    /\ UNCHANGED <<logVars, replayVars, seen, data, permit, listing, inserted>>

\* The last outcome puts the post into the comment queue and, unless it is there
\* already, notifies comment_loop.
Enqueue(l) ==
    /\ pc[l] = "enqueue"
    /\ queue' = Insert(current[l], {"comment"})
    /\ permit' = Notify(IF current[l] \in queue["comment"] THEN {} ELSE {"comment"})
    /\ Go(l, "sleep")
    /\ current' = [current EXCEPT ![l] = NoPost]
    /\ UNCHANGED <<logVars, replayVars, seen, data, listing, inserted>>

----------------------------------------------------------------------------
WriterStep ==
    /\ Log!WriterStep
    /\ UNCHANGED <<replayVars, workVars, taskVars>>

WriterFails ==
    /\ Log!SendFails \/ Log!SyncFails
    /\ UNCHANGED <<replayVars, workVars, taskVars>>

CollectorStep ==
    \/ \E posts \in SUBSET Posts : Fetch(posts)
    \/ \E p \in Posts : InsertSeen(p) \/ InsertNew(p)
    \/ Wake("collect")
    \/ GiveUp("collect")

SubmitterStep(l) ==
    \/ \E outcome \in {"success", "failure"} : Submitted(l, outcome)
    \/ Enqueue(l)

WorkerStep(l) ==
    \/ PollEmpty(l)
    \/ \E p \in Posts : PollSkip(l, p) \/ PollTake(l, p)
    \/ Wake(l)
    \/ Notified(l)
    \/ GiveUp(l)
    \/ l \in SubmitLoops /\ SubmitterStep(l)

LoopStep ==
    /\ phase = "running"
    /\ WriterStep \/ CollectorStep \/ \E l \in Workers : WorkerStep(l)

Fault == Kill \/ PowerLoss \/ WriterFails

Next ==
    \/ Start \/ ReplayLine \/ ReplayFails \/ StartLoops
    \/ LoopStep
    \/ CtrlC \/ LoginFails \/ Exit
    \/ Fault

Spec == Init /\ [][Next]_vars

\* What is taken for granted of the runtime: ready tasks are polled, timers and
\* requests end (every submission has a timeout), tokio's locks are first in,
\* first out, so that a worker's turn comes although collect_loop keeps taking
\* its queue, and select! begins with a branch picked at random, so that it does
\* not pass over a cancelled token for ever.  Nothing makes the process start,
\* stop or fail.
Fairness ==
    /\ WF_vars(ReplayLine \/ ReplayFails \/ StartLoops)
    /\ WF_vars(Exit)
    /\ WF_vars(phase = "running" /\ WriterStep)
    /\ SF_vars(Log!SelectCancelled /\ UNCHANGED <<replayVars, workVars, taskVars>>)
    /\ SF_vars(phase = "running" /\ CollectorStep)
    /\ SF_vars(phase = "running" /\ GiveUp("collect"))
    /\ \A l \in Workers : SF_vars(phase = "running" /\ WorkerStep(l))

FairSpec == Spec /\ Fairness

----------------------------------------------------------------------------
(* Properties *)

\* A worker waits on its Notify without a permit only when its queue is empty,
\* or when collect_loop is still going to notify it (state.rs:564-630,
\* reddit.rs:455-486, comment.rs:19-49).
NoLostWakeup ==
    \A l \in Workers :
        pc[l] = "await" /\ queue[l] # {} =>
            \/ permit[l]
            \/ l \in SubmitLoops /\ pc["collect"] = "insert" /\ inserted

\* Whatever the order in which the submissions end, and after every restart, a
\* post waits for its comment only while all its outcomes are known
\* (state.rs:162-170, 354-356, 621-626).
CommentQueueIsReady == \A p \in queue["comment"] : ReadyToComment(data[p])

\* An outcome that is still missing has somebody who will provide it: the post
\* waits in the queue of its loop, or the loop is submitting it.  There are
\* three exceptions, and no others: a post read back from the file is not put
\* into the Wikiwix queue (state.rs:280-299); the text is missing when only the
\* first line of the screenshot's report was read back (state.rs:318-329,
\* screenshot.rs:140); and comment_loop marks the outcome of Outline.com as
\* processing again (comment.rs:36).
InHand(l, p) ==
    \/ p \in queue[l]
    \/ pc[l] = "submit" /\ current[l] = p

NothingStranded ==
    phase = "running" =>
        \A p \in seen : \A f \in ResultFields :
            \/ IsDone(data[p][f])
            \/ InHand(LoopOf(f), p)
            \/ f = "wikiwix" /\ p \in restored
            \/ f = "text" /\ p \in restored /\ IsDone(data[p]["screenshot"])
            \/ f = "outline_com" /\ data[p][f] = "processing"

\* What the loops believe is what a restart would believe: a post is seen and an
\* outcome is known exactly when its change is in the file or on its way there.
\* This ends when a write failed, and when the file has a line that does not
\* parse.  The outcome of Outline.com may have been overwritten by comment_loop.
Reported == lines \o uncommitted

IsReported(change) == \E i \in 1..Len(Reported) : Reported[i] = change

MemoryIsRecoverable ==
    phase = "running" /\ writer # "done" /\ tail # "garbled" =>
        \A p \in Posts :
            /\ p \in seen <=> IsReported(NewPost(p))
            /\ \A f \in ResultFields \ {"outline_com"}, o \in {"success", "failure"} :
                   data[p][f] = o <=> IsReported(OutcomeOf(f, p, o))

\* In the file a post is announced before its outcomes, or apply_outcome would
\* pass them over, it is announced once, and each of its outcomes is there once
\* at most, except that of Outline.com.
FileIsWellFormed ==
    \A i \in 1..Len(lines) :
        /\ lines[i].field # "new" =>
               \E j \in 1..(i - 1) : lines[j] = NewPost(lines[i].post)
        /\ \A j \in 1..(i - 1) :
               lines[j].field = lines[i].field /\ lines[j].post = lines[i].post =>
                   lines[i].field = "outline_com"

\* A submission is not begun when its outcome is in the file, whatever happened
\* in between; the exception is Outline.com again.
NotSubmittedAgain ==
    [][\A l \in SubmitLoops \ {"outline_com"} :
          pc'[l] = "submit" /\ pc[l] # "submit" =>
              \A i \in 1..Len(lines) :
                  ~(lines[i].field = l /\ lines[i].post = current'[l])]_vars

\* While the process lives, an outcome that is known stays as it is, except that
\* comment_loop takes back the one of Outline.com.
OutcomesAreFinal ==
    [][phase = "running" /\ phase' = "running" =>
          \A p \in Posts : \A f \in ResultFields :
              IsDone(data[p][f]) =>
                  \/ data'[p][f] = data[p][f]
                  \/ f = "outline_com" /\ p \in queue["comment"] \ queue'["comment"]]_vars

\* A change that a restart would find in the file, synced or not.
InFile(change) == \E i \in 1..Len(lines) : lines[i] = change

\* What a loop is submitting, and what is known of its outcomes and of the posts:
\* by the process while it runs, otherwise by the file.
Hand(l) == IF pc[l] = "submit" THEN current[l] ELSE NoPost

KnownAs(l, p, outcome) ==
    IF phase = "running" THEN data[p][l] = outcome ELSE InFile(OutcomeOf(l, p, outcome))

KnownOutcomes(l) ==
    [p \in Posts |-> IF KnownAs(l, p, "success") THEN "success"
                     ELSE IF KnownAs(l, p, "failure") THEN "failure" ELSE "none"]

IsFound(p) == IF phase = "running" THEN p \in seen ELSE InFile(NewPost(p))

\* The date of a post is its place in the order of all posts.
DatesFound == [p \in Posts |-> IF IsFound(p) THEN p ELSE NoPost]

\* The other loops than that of Outline.com, whose outcome is taken back.
OwnLoops == SubmitLoops \ {"outline_com"}

Submitting(l) == INSTANCE Submission WITH current <- Hand(l), outcome <- KnownOutcomes(l)

Queueing(l) ==
    INSTANCE Backlog WITH Ids <- Posts, Dates <- Posts, NoDate <- NoPost,
                          date <- DatesFound, offered <- seen, waiting <- queue[l]

\* A loop submits as Submission says, one post after the other and none again that has
\* an outcome, across every stop and start (state.rs:274-356, state.rs:571-626).
ImplementsSubmissions ==
    /\ \A l \in OwnLoops : Submitting(l)!Init
    /\ [][\A l \in OwnLoops : [Submitting(l)!Next]_(Submitting(l)!vars)]_vars

\* A loop takes its posts from its queue as Backlog says: of those that wait the
\* newest, and each once after every start (state.rs:84-106, state.rs:271-332).
ImplementsBacklogs ==
    /\ \A l \in SubmitLoops : Queueing(l)!Init
    /\ [][\A l \in SubmitLoops : [Queueing(l)!Next]_(Queueing(l)!vars)]_vars

\* From the cancellation on a worker moves on to its end only, and takes up one more
\* post at most: one whose queue it is waiting for (state.rs:569-594, comment.rs:19-32).
StepsToEnd ==
    [done |-> 0, first |-> 1, sleep |-> 1, await |-> 1, fetch |-> 1, insert |-> 2, enqueue |-> 2,
     submit |-> 3, poll |-> 4]

WorkersWindDown ==
    [][cancelled /\ phase = "running" /\ phase' = "running" =>
          /\ cancelled'
          /\ \A l \in Workers :
                 pc'[l] = pc[l] \/ StepsToEnd[pc'[l]] < StepsToEnd[pc[l]]]_vars

\* Ctrl+C, or the end of one loop, ends them all, and with them the process.
CancelStops == cancelled ~> phase = "down"

\* All outcomes of a post that collect_loop puts into the queues become known and
\* it is offered to comment_loop, unless the service is stopped (reddit.rs:455-486,
\* state.rs:562-631).
FoundIsOffered ==
    \A p \in Posts :
        p \in seen \ restored /\ data[p] = NewWork
            ~> p \in queue["comment"] \/ cancelled \/ phase = "down"

\* comment_loop takes every post that is offered.
OfferedIsTaken ==
    \A p \in Posts :
        p \in queue["comment"] ~> p \notin queue["comment"] \/ cancelled \/ phase = "down"

============================================================================
