----------------------------- MODULE SubmitLoop -----------------------------
(***************************************************************************)
(* One of the three instances of run_submit_loop (src/state.rs), with the  *)
(* submission it runs (outline_com.rs, wikiwix.rs, google_cache.rs), its   *)
(* timeouts, the queue it is fed from and the one it feeds, both heap and  *)
(* set, and the works in them as the objects they are.  The posts come     *)
(* from listings, and after a restart from the changelog, whose faults are *)
(* the subject of Changelog.tla: here a stop costs a suffix.               *)
(*                                                                         *)
(* A unit of time is 15 seconds.                                           *)
(***************************************************************************)
EXTENDS WorkQueue

CONSTANTS
    Archives,   \* the archives looked at
    Queried,    \* the posts whose url has a query
    NoWork

ASSUME ArchivesAssumption == Archives \subseteq {"outline_com", "wikiwix", "google_cache"}
ASSUME NoWorkAssumption == NoWork \notin Works

VARIABLES
    archive,    \* the archive of this loop
    phase,      \* "replay" or "running"
    replayed,   \* how many changes have been applied
    log,        \* the changes in the file or on their way there
    listing,    \* what collect_loop still has to go through
    seen,       \* State.seen_posts
    queue,      \* the queue of this loop and that of comment_loop
    inner,      \* what a reference refers to: this archive's field of WorkInner
    work,       \* the work in this loop's hand
    stage,      \* what its submission waits for
    confirmed,  \* (history) what the archive has said yes to in this submission
    elapsed,    \* time since the submission was begun
    waited,     \* time since its request was sent
    cancelled,
    late        \* the loops that looked at the token before it was cancelled and have
                \* yet to get the lock of their queue

feedVars == <<log, listing, seen>>
replayVars == <<archive, phase, replayed>>
taskVars == <<work, stage, confirmed, elapsed, waited>>
stopVars == <<cancelled, late>>
vars == <<feedVars, replayVars, queue, inner, taskVars, stopVars>>

Queues == {"submit", "comment"}

\* The requests: the two urls for the Google cache, the two of Wikiwix, Outline.com's;
\* and "body", the wait for the rest of an answer.
Requests == {"full", "cut", "save", "read", "parse"}
Stages == Requests \cup {"body", "idle"}

\* What an url that is reported as a success names.
Urls == {"full", "cut", "revision", "short", "none"}

Outcomes == {"waiting", "processing", "success", "failure"}

\* Mutant: what has failed is tried again.
IsGood(outcome) == outcome = "success"

IsDone(outcome) == outcome \in {"success", "failure"}

\* Mutant: a request may take as long as the submission.
RequestTimeLong == 3

RequestTime == 2
SubmitTime == 3

\* StateChange, as it is written.
NewPost(w) ==
    [what |-> "new", created |-> Serialize(w.created), id |-> w.id, link |-> "none"]
Outcome(w, outcome, link) ==
    [what |-> outcome, created |-> Serialize(w.created), id |-> w.id, link |-> link]
Changes == [what : {"new", "success", "failure"}, created : MinUtc..MaxUtc, id : Ids, link : Urls]

TypeOK ==
    /\ archive \in Archives
    /\ phase \in {"replay", "running"}
    /\ replayed \in Nat
    /\ log \in Seq(Changes)
    /\ listing \in Seq(Children)
    /\ seen \subseteq Works
    /\ queue \in [Queues -> WorkQueues]
    /\ inner \in [Refs -> Outcomes]
    /\ work \in Works \cup {NoWork}
    /\ stage \in Stages
    /\ work = NoWork <=> stage = "idle"
    /\ confirmed \subseteq Requests
    /\ elapsed \in 0..SubmitTime /\ waited \in 0..RequestTime
    /\ cancelled \in BOOLEAN /\ late \subseteq Queues

Init ==
    /\ archive \in Archives
    /\ phase = "running" /\ replayed = 0
    /\ log = <<>> /\ listing = <<>> /\ seen = {}
    /\ queue = [q \in Queues |-> EmptyQueue]
    /\ inner = [r \in Refs |-> "waiting"]
    /\ work = NoWork /\ stage = "idle" /\ confirmed = {} /\ elapsed = 0 /\ waited = 0
    /\ cancelled = FALSE /\ late = {}

\* The works the program can get at, and the references nobody has.
Reachable ==
    seen \cup (UNION {queue[q].set \cup {w \in Works : queue[q].heap[w] > 0} : q \in Queues})
         \cup ({work} \ {NoWork})

Unused == Refs \ {w.data : w \in Reachable}

----------------------------------------------------------------------------
(* collect_loop *)

Fetch(children) ==
    /\ phase = "running"
    /\ listing = <<>>
    /\ HasPosts(children)
    /\ listing' = children
    /\ UNCHANGED <<log, seen, replayVars, queue, inner, taskVars, stopVars>>

PassOver ==
    /\ listing # <<>>
    /\ ~IsPost(Head(listing))
    /\ listing' = Tail(listing)
    /\ UNCHANGED <<log, seen, replayVars, queue, inner, taskVars, stopVars>>

InsertSeen ==
    /\ listing # <<>>
    /\ IsPost(Head(listing)) /\ Contains(seen, PostOf(Head(listing)))
    /\ listing' = Tail(listing)
    /\ UNCHANGED <<log, seen, replayVars, queue, inner, taskVars, stopVars>>

\* A clone for the set of posts and one for every queue: they share their data.
InsertNew(ref) ==
    /\ listing # <<>>
    /\ LET new == NewWork(PostOf(Head(listing)), ref)
       IN  /\ IsPost(Head(listing)) /\ ~Contains(seen, new)
           /\ log' = Append(log, NewPost(new))
           /\ seen' = SetInsert(seen, new)
           /\ queue' = [queue EXCEPT !["submit"] = Insert(@, new)]
    /\ inner' = [inner EXCEPT ![ref] = "waiting"]
    /\ listing' = Tail(listing)
    /\ UNCHANGED <<replayVars, taskVars, stopVars>>

----------------------------------------------------------------------------
(* The loop *)

\* The urls and requests a submission begins with.
FirstRequest ==
    CASE archive = "google_cache" -> "full"
      [] archive = "wikiwix" -> "save"
      [] archive = "outline_com" -> "parse"

\* A loop looks at the token before it waits for the lock of its queue, and not after.
TakesUp(q) ==
    /\ phase = "running"
    /\ ~cancelled \/ q \in late
    /\ late' = late \ {q}
    /\ UNCHANGED cancelled

\* The queue is not collect_loop's at the moment, and there is something in it.
Pops(w) ==
    /\ TakesUp("submit")
    /\ listing = <<>> /\ work = NoWork
    /\ IsTop(queue["submit"], w)
    /\ queue' = [queue EXCEPT !["submit"] = Remove(@, w)]

Skip(w) ==
    /\ Pops(w)
    /\ IsDone(inner[w.data])
    /\ UNCHANGED <<feedVars, replayVars, inner, taskVars>>

Begin(w) ==
    /\ Pops(w)
    /\ ~IsDone(inner[w.data])
    /\ inner' = [inner EXCEPT ![w.data] = "processing"]
    /\ work' = w
    /\ stage' = FirstRequest
    /\ confirmed' = {} /\ elapsed' = 0 /\ waited' = 0
    /\ UNCHANGED <<feedVars, replayVars>>

\* The outcome is reported and stored, and the very work goes to comment_loop if the
\* other loops have finished with it (ready), which is not modelled here.
End(outcome, link, ready) ==
    /\ log' = Append(log, Outcome(work, outcome, link))
    /\ inner' = [inner EXCEPT ![work.data] = outcome]
    /\ queue' = IF ready THEN [queue EXCEPT !["comment"] = Insert(@, work)] ELSE queue
    /\ work' = NoWork /\ stage' = "idle" /\ elapsed' = 0 /\ waited' = 0
    /\ UNCHANGED <<listing, seen, replayVars, stopVars>>

Fail(ready) == End("failure", "none", ready) /\ UNCHANGED confirmed

\* The next request of the same submission.
Request(r) ==
    /\ stage' = r
    /\ waited' = 0
    /\ UNCHANGED <<feedVars, replayVars, queue, inner, work, elapsed, stopVars>>

\* Google is asked again for the url without its query.
Failed(ready) ==
    IF stage = "full" /\ work.id \in Queried
    THEN Request("cut") /\ UNCHANGED confirmed
    ELSE Fail(ready)

\* An error, or an answer that is not the one that was hoped for.
Refused(ready) ==
    /\ stage \in Requests
    /\ Failed(ready)

\* with_timeout_and_cancellation_token of the request.
RequestTimesOut(ready) ==
    /\ stage \in Requests /\ waited = RequestTime
    /\ Failed(ready)

\* Google has the url it was asked for.
Cached(ready) ==
    /\ stage \in {"full", "cut"}
    /\ confirmed' = confirmed \cup {stage}
    /\ End("success", stage, ready)

\* Wikiwix redirects to its copy, and is asked for it.
Redirected ==
    /\ stage = "save"
    /\ confirmed' = confirmed \cup {stage}
    /\ Request("read")

\* The head of an answer, whatever its status; there is no limit to the time its
\* body takes.
Headed ==
    /\ stage \in {"read", "parse"}
    /\ Request("body")
    /\ UNCHANGED confirmed

\* Wikiwix names a revision, Outline.com a short code; or they do not.
Read(ready) ==
    /\ stage = "body"
    /\ IF archive = "wikiwix"
       THEN confirmed' = confirmed \cup {"read"} /\ End("success", "revision", ready)
       ELSE confirmed' = confirmed \cup {"parse"} /\ End("success", "short", ready)

ReadNothing(ready) ==
    /\ stage = "body"
    /\ Fail(ready)

\* Mutant: only requests are timed.
TimeOutRequests(ready) ==
    /\ stage \in Requests /\ elapsed = SubmitTime
    /\ Fail(ready)

\* with_timeout_and_cancellation_token of the submission.
TimeOut(ready) ==
    /\ work # NoWork /\ elapsed = SubmitTime
    /\ Fail(ready)

GiveUp(ready) ==
    /\ work # NoWork /\ cancelled
    /\ Fail(ready)

\* Timers are served when they are due.
Tick ==
    /\ work # NoWork
    /\ elapsed < SubmitTime
    /\ stage \in Requests => waited < RequestTime
    /\ elapsed' = elapsed + 1
    /\ waited' = IF stage \in Requests THEN waited + 1 ELSE waited
    /\ UNCHANGED <<feedVars, replayVars, queue, inner, work, stage, confirmed, stopVars>>

----------------------------------------------------------------------------
(* comment_loop, stop and restart *)

\* comment_loop passes over what failed everywhere, and marks the rest.
Offered(w) ==
    /\ TakesUp("comment")
    /\ IsTop(queue["comment"], w)
    /\ queue' = [queue EXCEPT !["comment"] = Remove(@, w)]
    /\ \/ inner' = [inner EXCEPT ![w.data] = IF archive = "outline_com" THEN "processing" ELSE @]
       \/ (inner[w.data] = "failure" \/ archive = "google_cache") /\ UNCHANGED inner
    /\ UNCHANGED <<feedVars, replayVars, taskVars>>

\* A loop that submits looks at the token again before it takes up another post.
Cancel ==
    /\ ~cancelled /\ cancelled' = TRUE
    /\ late' \in SUBSET {q \in Queues : phase = "running" /\ (q = "submit" => work = NoWork)}
    /\ UNCHANGED <<feedVars, replayVars, queue, inner, taskVars>>

\* The process is stopped and started: the first n changes are in the file.
Restart(n) ==
    /\ phase' = "replay" /\ replayed' = 0
    /\ log' = SubSeq(log, 1, n)
    /\ listing' = <<>> /\ seen' = {}
    /\ queue' = [q \in Queues |-> EmptyQueue]
    /\ inner' = [r \in Refs |-> "waiting"]
    /\ work' = NoWork /\ stage' = "idle" /\ confirmed' = {} /\ elapsed' = 0 /\ waited' = 0
    /\ cancelled' = FALSE /\ late' = {}
    /\ UNCHANGED archive

NextChange == log[replayed + 1]

Applies ==
    /\ phase = "replay" /\ replayed < Len(log)
    /\ replayed' = replayed + 1
    /\ UNCHANGED <<archive, phase, log, listing, taskVars, stopVars>>

\* apply_change(NewPost): a post that is read back is not put into Wikiwix's queue.
ApplyNewPost(ref) ==
    /\ Applies
    /\ NextChange.what = "new"
    /\ LET new == NewWork([NextChange EXCEPT !.created = FromI64(@)], ref)
       IN  /\ seen' = SetInsert(seen, new)
           /\ queue' = IF archive = "wikiwix" THEN queue
                       ELSE [queue EXCEPT !["submit"] = Insert(@, new)]
    /\ inner' = [inner EXCEPT ![ref] = "waiting"]

\* Mutant: the work that was read is queued, not the one that is known.
ApplyOutcomeOfRead(ref, ready) ==
    /\ Applies
    /\ NextChange.what # "new"
    /\ IF Contains(seen, NextChange)
       THEN /\ inner' = [inner EXCEPT ![ref] = NextChange.what]
            /\ queue' = IF ready
                        THEN [queue EXCEPT !["comment"] =
                                 Insert(@, NewWork([NextChange EXCEPT !.created = FromI64(@)], ref))]
                        ELSE queue
       ELSE UNCHANGED <<inner, queue>>
    /\ UNCHANGED seen

\* apply_outcome: the post that was read only serves to find the known work; the
\* work that is made of it is dropped, with its reference.
ApplyOutcome(ref, ready) ==
    /\ Applies
    /\ NextChange.what # "new"
    /\ IF Contains(seen, NextChange)
       THEN LET known == CHOOSE w \in seen : IsSame(w, NextChange)
            IN  /\ inner' = [inner EXCEPT ![known.data] = NextChange.what]
                /\ queue' = IF ready THEN [queue EXCEPT !["comment"] = Insert(@, known)]
                            ELSE queue
       ELSE UNCHANGED <<inner, queue>>
    /\ UNCHANGED seen

Replayed ==
    /\ phase = "replay" /\ replayed = Len(log)
    /\ phase' = "running" /\ replayed' = 0
    /\ UNCHANGED <<archive, feedVars, queue, inner, taskVars, stopVars>>

----------------------------------------------------------------------------
AllocatingStep(ref) ==
    InsertNew(ref) \/ ApplyNewPost(ref) \/ \E ready \in BOOLEAN : ApplyOutcome(ref, ready)

SubmissionStep(ready) ==
    \/ Refused(ready) \/ RequestTimesOut(ready) \/ Cached(ready) \/ Read(ready)
    \/ ReadNothing(ready) \/ TimeOut(ready) \/ GiveUp(ready)

OtherStep ==
    \/ PassOver \/ InsertSeen
    \/ \E w \in Works : Skip(w) \/ Begin(w) \/ Offered(w)
    \/ \E ready \in BOOLEAN : SubmissionStep(ready)
    \/ Redirected \/ Headed \/ Tick
    \/ Replayed

Next ==
    \/ \E children \in Seq(Children) : Fetch(children)
    \/ \E ref \in Unused : AllocatingStep(ref)
    \/ OtherStep
    \/ Cancel \/ \E n \in 0..Len(log) : Restart(n)

Spec == Init /\ [][Next]_vars

\* Timers are served.  Nothing is assumed of the archives.
Fairness == WF_vars(Tick \/ \E ready \in BOOLEAN : RequestTimesOut(ready) \/ TimeOut(ready))

----------------------------------------------------------------------------
(* Properties *)

\* Heap and set of a queue have the same works, once each, although the heap goes by
\* date and id and the set by id alone, and although a post may come back with
\* another date (reddit.rs:65-93, state.rs:96-106, state.rs:571-572).
HeapIsSet ==
    \A q \in Queues, w \in Works :
        queue[q].heap[w] = IF w \in queue[q].set THEN 1 ELSE 0

\* Wherever a work is, it has the data of its post, and no other post has: an outcome
\* is not stored where nobody looks for it (reddit.rs:462-478, state.rs:280-299,
\* state.rs:340-356, state.rs:583).
DataIsShared ==
    \A v, w \in Reachable : IsSame(v, w) <=> v.data = w.data

\* What is reported is what the archive said: the url that is published is one that
\* was found, and Google is not given up before it was asked for both urls, as long
\* as nobody cancels (google_cache.rs:38-46, wikiwix.rs:27-85, outline_com.rs:29-51).
Needed(link) ==
    CASE link \in {"full", "cut"} -> {link}
      [] link = "revision" -> {"save", "read"}
      [] link = "short" -> {"parse"}

OutcomeIsEarned ==
    [][work # NoWork /\ Len(log') = Len(log) + 1 /\ log'[Len(log')].what # "new" =>
          LET change == log'[Len(log')]
          IN  IF change.what = "success" THEN Needed(change.link) \subseteq confirmed'
              ELSE stage = "full" /\ work.id \in Queried => cancelled]_vars

\* The queue of the loop is what Backlog says: the newest post first, in an order that
\* is not changed by a restart, and each once for every start (state.rs:571,
\* timestamp.rs:90-126).
Reported(i) == {n \in 1..Len(log) : log[n].what = "new" /\ log[n].id = i}
NoDate == MinUtc - 1
DateOf(i) == IF Reported(i) = {} THEN NoDate ELSE log[CHOOSE n \in Reported(i) : TRUE].created

Queue == INSTANCE Backlog
    WITH Dates <- MinUtc..MaxUtc,
         date <- [i \in Ids |-> DateOf(i)],
         offered <- {w.id : w \in seen},
         waiting <- {w.id : w \in queue["submit"].set}

ImplementsBacklog == Queue!Spec

\* One submission follows another, and what has an outcome in the file, or on its way
\* there, is not submitted again, with whatever data the post comes back; comment_loop
\* takes back the outcomes of Outline.com (state.rs:274-356, state.rs:571-626, comment.rs:36).
EndedAs(i, outcome) == \E n \in 1..Len(log) : log[n].what = outcome /\ log[n].id = i

OutcomeOf(i) ==
    IF EndedAs(i, "success") THEN "success" ELSE IF EndedAs(i, "failure") THEN "failure" ELSE "none"

Submitting == INSTANCE Submission
    WITH Posts <- Ids, NoPost <- BadId,
         current <- IF work = NoWork THEN BadId ELSE work.id,
         outcome <- [i \in Ids |-> OutcomeOf(i)]

ImplementsSubmission ==
    /\ Submitting!Init
    /\ [][archive # "outline_com" => [Submitting!Next]_(Submitting!vars)]_vars

\* A submission ends although an archive never answers, or never finishes its answer
\* (state.rs:590-595, outline_com.rs:40, wikiwix.rs:69).
EverySubmissionEnds == work # NoWork ~> work = NoWork

=============================================================================
