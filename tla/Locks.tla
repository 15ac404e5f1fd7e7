-------------------------------- MODULE Locks --------------------------------
(***************************************************************************)
(* The locks of State and of the works, and the order in which the loops   *)
(* take them and keep them across .await.  What the locks protect is left  *)
(* to Blindkopie and Login; here a queue may or may not have a post, a     *)
(* token may or may not be usable, and Reddit need never answer.           *)
(*                                                                         *)
(* All of them are tokio locks taken for writing: whoever asks goes to the *)
(* end of the lock's line.  client_data is left out, the service only      *)
(* reads it, and so is the connector of the HTTPS client, which is not     *)
(* kept across an .await.                                                  *)
(***************************************************************************)
EXTENDS Naturals, Sequences, FiniteSets

CONSTANTS
    Posts,
    NoPost,
    Archives    \* the loops of run_submit_loop that exist; the program has all three

ASSUME PostsAssumption == NoPost \notin Posts /\ IsFiniteSet(Posts)
ASSUME ArchivesAssumption == Archives \subseteq {"outline_com", "wikiwix", "google_cache"}

Submitters == Archives \cup {"screenshot"}
Workers == Submitters \cup {"comment"}
Loops == Workers \cup {"collect", "changelog"}

\* A lock is named by its field and by what it belongs to.
Inner(queue) == <<"inner", queue>>
Data(post) == <<"data", post>>
Seen == <<"seen_posts", "state">>
Token == <<"reddit_token", "state">>
Changelog == <<"changelog", "state">>
Uncommitted == <<"uncommitted_changes", "state">>
NoLock == <<"none", "state">>

Locks == {Inner(q) : q \in {"outline_com", "wikiwix", "google_cache", "screenshot", "comment"}}
             \cup {Data(p) : p \in Posts}
             \cup {Seen, Token, Changelog, Uncommitted}

\* collect_loop has five locks when it goes through a listing.
CollectOrder == <<Seen, Inner("screenshot"), Inner("outline_com"), Inner("wikiwix"),
                  Inner("google_cache")>>

VARIABLES
    pc,         \* where a loop is: what it waits for, or does meanwhile
    work,       \* the post in a worker's hand
    taken,      \* how many of CollectOrder collect_loop has
    listing,    \* how many new posts it still has to report
    line,       \* who waits for a lock, first come first
    cancelled

vars == <<pc, work, taken, listing, line, cancelled>>

Waits == {"pop", "mark", "login", "logtoken", "report", "log", "enqueue", "lock", "announce",
          "commit", "send"}
Busy == {"idle", "submit", "renew", "fetch", "drain", "sync", "done"}

TypeOK ==
    /\ pc \in [Loops -> Waits \cup Busy]
    /\ work \in [Loops -> Posts \cup {NoPost}]
    /\ taken \in 0..Len(CollectOrder)
    /\ listing \in 0..Cardinality(Posts)
    /\ line \in [Locks -> Seq(Loops)]
    /\ cancelled \in BOOLEAN

\* The lock loop l waits for when it is at where, with post p and n locks of CollectOrder.
WantedAt(l, where, p, n) ==
    CASE where = "pop" -> Inner(l)
      [] where \in {"mark", "report"} -> Data(p)
      [] where = "login" -> Token
      [] where \in {"logtoken", "log", "announce", "send"} -> Uncommitted
      [] where = "enqueue" -> Inner("comment")
      [] where = "lock" -> CollectOrder[n + 1]
      [] where = "commit" -> Changelog
      [] OTHER -> NoLock

Wanted(l) == WantedAt(l, pc[l], work[l], taken)

\* Mutant: the data of a post stays locked until it is in the comment queue.
HeldWhileEnqueuing(l) ==
    CASE pc[l] = "mark" -> {Inner(l)}
      [] pc[l] \in {"log", "enqueue"} -> {Data(work[l])}
      [] pc[l] \in {"renew", "logtoken"} -> {Token}
      [] pc[l] \in {"lock", "announce"} -> {CollectOrder[i] : i \in 1..taken}
      [] pc[l] \in {"send", "sync"} -> {Changelog}
      [] pc[l] = "drain" -> {Changelog, Uncommitted}
      [] OTHER -> {}

\* The locks it has.
Held(l) ==
    CASE pc[l] = "mark" -> {Inner(l)}
      [] pc[l] = "log" -> {Data(work[l])}
      [] pc[l] \in {"renew", "logtoken"} -> {Token}
      [] pc[l] \in {"lock", "announce"} -> {CollectOrder[i] : i \in 1..taken}
      [] pc[l] \in {"send", "sync"} -> {Changelog}
      [] pc[l] = "drain" -> {Changelog, Uncommitted}
      [] OTHER -> {}

Init ==
    /\ pc = [l \in Loops |-> IF l = "changelog" THEN "commit" ELSE "idle"]
    /\ work = [l \in Loops |-> NoPost]
    /\ taken = 0
    /\ listing = 0
    /\ line = [k \in Locks |-> IF k = Changelog THEN <<"changelog">> ELSE <<>>]
    /\ cancelled = FALSE

\* A line without loop l, which stands in it once at most.
Without(l, loops) ==
    IF \E i \in 1..Len(loops) : loops[i] = l
    THEN LET at == CHOOSE i \in 1..Len(loops) : loops[i] = l
         IN  SubSeq(loops, 1, at - 1) \o SubSeq(loops, at + 1, Len(loops))
    ELSE loops

\* Loop l leaves the line it stands in, and joins that of the lock it needs next.
LinesAfter(l, wanted) ==
    [k \in Locks |-> IF k = wanted THEN Append(Without(l, line[k]), l) ELSE Without(l, line[k])]

\* A step of loop l: it goes on at where, with post p and n locks of CollectOrder.
Move(l, where, p, n) ==
    /\ pc' = [pc EXCEPT ![l] = where]
    /\ work' = [work EXCEPT ![l] = p]
    /\ taken' = n
    /\ line' = LinesAfter(l, WantedAt(l, where, p, n))

\* It keeps them, or is through with its post or its listing.
Go(l, where) == Move(l, where, work[l], taken)

Leave(l, where) == Move(l, where, NoPost, IF l = "collect" THEN 0 ELSE taken)

\* It is l's turn: the first in line has the lock as soon as nobody else has it.
Granted(l) ==
    LET k == Wanted(l)
    IN  /\ k \in Locks
        /\ line[k] # <<>> /\ Head(line[k]) = l
        /\ \A m \in Loops : k \notin Held(m)

----------------------------------------------------------------------------
(* Workers *)

\* Its pause is over, or it was notified.
Poll(l) ==
    /\ l \in Workers
    /\ pc[l] = "idle" /\ ~cancelled
    /\ Go(l, "pop")
    /\ UNCHANGED <<listing, cancelled>>

PopNothing(l) ==
    /\ pc[l] = "pop" /\ Granted(l)
    /\ Leave(l, "idle")
    /\ UNCHANGED <<listing, cancelled>>

\* The queue stays locked until the data of the post was looked at.
PopPost(l, p) ==
    /\ pc[l] = "pop" /\ Granted(l)
    /\ Move(l, "mark", p, taken)
    /\ UNCHANGED <<listing, cancelled>>

Skip(l) ==
    /\ pc[l] = "mark" /\ Granted(l)
    /\ Leave(l, IF cancelled THEN "done" ELSE "pop")
    /\ UNCHANGED <<listing, cancelled>>

Mark(l) ==
    /\ pc[l] = "mark" /\ Granted(l)
    /\ IF l = "comment" THEN Leave(l, "idle") ELSE Go(l, "submit")
    /\ UNCHANGED <<listing, cancelled>>

\* The submission ended, or its time: log_changes is called under the lock of the data.
Submitted(l) ==
    /\ pc[l] = "submit"
    /\ Go(l, "report")
    /\ UNCHANGED <<listing, cancelled>>

Report(l) ==
    /\ pc[l] = "report" /\ Granted(l)
    /\ Go(l, "log")
    /\ UNCHANGED <<listing, cancelled>>

\* The change is queued, and both locks are given back before the comment queue's is asked for.
Log(l, where) ==
    /\ pc[l] = "log" /\ Granted(l)
    /\ IF where = "enqueue" THEN Go(l, where) ELSE Leave(l, where)
    /\ UNCHANGED <<listing, cancelled>>

Enqueue(l) ==
    /\ pc[l] = "enqueue" /\ Granted(l)
    /\ Leave(l, "idle")
    /\ UNCHANGED <<listing, cancelled>>

----------------------------------------------------------------------------
(* The token, for collect_loop and the requests of a screenshot *)

\* A request of the screenshot's submission, or the next listing.
Request(l) ==
    /\ \/ l = "screenshot" /\ pc[l] = "submit"
       \/ l = "collect" /\ pc[l] = "idle"
    /\ Go(l, "login")
    /\ UNCHANGED <<listing, cancelled>>

AfterLogin(l) == IF l = "collect" THEN "fetch" ELSE "submit"

TokenUsable(l) ==
    /\ pc[l] = "login" /\ Granted(l)
    /\ Go(l, AfterLogin(l))
    /\ UNCHANGED <<listing, cancelled>>

\* The token is renewed while its lock is kept.
TokenExpired(l) ==
    /\ pc[l] = "login" /\ Granted(l)
    /\ Go(l, "renew")
    /\ UNCHANGED <<listing, cancelled>>

Renewed(l) ==
    /\ pc[l] = "renew"
    /\ Go(l, "logtoken")
    /\ UNCHANGED <<listing, cancelled>>

LogToken(l) ==
    /\ pc[l] = "logtoken" /\ Granted(l)
    /\ Go(l, AfterLogin(l))
    /\ UNCHANGED <<listing, cancelled>>

\* Where a loop goes on when its request is given up.
AfterGivingUp(l) == IF l = "collect" THEN IF cancelled THEN "done" ELSE "idle" ELSE "report"

RenewFails(l) ==
    /\ pc[l] = "renew"
    /\ Go(l, AfterGivingUp(l))
    /\ cancelled' = TRUE
    /\ UNCHANGED listing

\* Mutant: the time of a login is not limited.
TimeOutInLine(l) ==
    /\ l = "screenshot" /\ pc[l] = "login"
    /\ Go(l, "report")
    /\ UNCHANGED <<listing, cancelled>>

\* The submission of a screenshot ends after 60 seconds, wherever it waits; the
\* lock of the token is given back with its future, and so is its place in line.  A
\* login that is dropped like this cancels the token.
TimeOut(l) ==
    /\ l = "screenshot" /\ pc[l] \in {"login", "renew", "logtoken"}
    /\ Go(l, "report")
    /\ cancelled' = (cancelled \/ pc[l] # "login")
    /\ UNCHANGED listing

----------------------------------------------------------------------------
(* collect_loop *)

Fetched(n) ==
    /\ pc["collect"] = "fetch"
    /\ Move("collect", "lock", NoPost, 0)
    /\ listing' = n
    /\ UNCHANGED cancelled

FetchedNothing ==
    /\ pc["collect"] = "fetch"
    /\ Go("collect", "idle")
    /\ UNCHANGED <<listing, cancelled>>

\* Its next lock; with all of them it goes through the listing, and gives them
\* back when nothing in it is new.
LockNext ==
    /\ pc["collect"] = "lock" /\ Granted("collect")
    /\ IF taken + 1 < Len(CollectOrder) THEN Move("collect", "lock", NoPost, taken + 1)
       ELSE IF listing > 0 THEN Move("collect", "announce", NoPost, taken + 1)
       ELSE Leave("collect", "idle")
    /\ UNCHANGED <<listing, cancelled>>

\* A new post is reported and put into the queues.
Announce ==
    /\ pc["collect"] = "announce" /\ Granted("collect")
    /\ listing' = listing - 1
    /\ IF listing > 1 THEN Go("collect", "announce") ELSE Leave("collect", "idle")
    /\ UNCHANGED cancelled

----------------------------------------------------------------------------
(* changelog_loop, and the end of all loops *)

BeginCommit ==
    /\ pc["changelog"] = "commit" /\ Granted("changelog")
    /\ Go("changelog", "send")
    /\ UNCHANGED <<listing, cancelled>>

\* The queue of changes is locked until it is empty.
TakeChanges ==
    /\ pc["changelog"] = "send" /\ Granted("changelog")
    /\ Go("changelog", "drain")
    /\ UNCHANGED <<listing, cancelled>>

Drained ==
    /\ pc["changelog"] = "drain"
    /\ Go("changelog", "sync")
    /\ UNCHANGED <<listing, cancelled>>

Synced ==
    /\ pc["changelog"] = "sync"
    /\ Go("changelog", "idle")
    /\ UNCHANGED <<listing, cancelled>>

Notified ==
    /\ pc["changelog"] = "idle"
    /\ Go("changelog", "commit")
    /\ UNCHANGED <<listing, cancelled>>

\* Mutant: collect_loop looks at the token between two listings only.
GiveUpIdle(l) ==
    /\ cancelled
    /\ pc[l] = "idle"
    /\ Go(l, "done")
    /\ UNCHANGED <<listing, cancelled>>

\* A pause, a wait for a Notify and collect_loop's request see the token.
GiveUp(l) ==
    /\ cancelled
    /\ \/ pc[l] = "idle"
       \/ l = "collect" /\ pc[l] \in {"login", "renew", "logtoken", "fetch"}
    /\ Go(l, "done")
    /\ UNCHANGED <<listing, cancelled>>

\* Ctrl+C, or the end of a loop.
Cancel ==
    /\ cancelled' = TRUE
    /\ UNCHANGED <<pc, work, taken, listing, line>>

\* What l does as soon as it has the lock it waits for.
LockStep(l) ==
    \/ PopNothing(l) \/ (\E p \in Posts : PopPost(l, p))
    \/ Skip(l) \/ Mark(l) \/ Report(l)
    \/ Log(l, "enqueue") \/ Log(l, "idle") \/ Enqueue(l)
    \/ TokenUsable(l) \/ TokenExpired(l) \/ LogToken(l)
    \/ l = "collect" /\ (LockNext \/ Announce)
    \/ l = "changelog" /\ (BeginCommit \/ TakeChanges)

\* What the file system does in the end, and what a timer does if nothing else.
TimedStep(l) ==
    \/ l = "changelog" /\ (Drained \/ Synced)
    \/ Submitted(l) \/ TimeOut(l)

\* What may never happen: work arrives, Reddit answers.
OuterStep(l) ==
    \/ Poll(l) \/ Request(l) \/ Renewed(l) \/ RenewFails(l)
    \/ l = "collect" /\ (FetchedNothing \/ \E n \in 0..Cardinality(Posts) : Fetched(n))
    \/ l = "changelog" /\ Notified

Next == Cancel \/ \E l \in Loops : LockStep(l) \/ TimedStep(l) \/ OuterStep(l) \/ GiveUp(l)

Spec == Init /\ [][Next]_vars

\* Ready tasks are polled, files are written and timers end.  select! does not
\* pass over a cancelled token for ever: that takes strong fairness where a loop can
\* go round without it.  The timer of a screenshot runs whatever its
\* requests do.  Nothing is assumed of Reddit's answers.
Fairness ==
    /\ \A l \in Loops : WF_vars(LockStep(l) \/ TimedStep(l) \/ GiveUp(l))
    /\ WF_vars(TimedStep("screenshot"))
    /\ \A l \in {"collect", "changelog"} : SF_vars(GiveUp(l))

FairSpec == Spec /\ Fairness

----------------------------------------------------------------------------
(* Properties *)

WaitsFor(l, m) == Wanted(l) \in Held(m)

\* No loops wait for each other in a circle, nor one for itself, at whatever .await
\* they have stopped with whatever locks (reddit.rs:457-461, state.rs:571-574,
\* state.rs:595-600, state.rs:362-370, reddit.rs:101-104).
NoDeadlock ==
    \A group \in SUBSET Loops :
        group # {} => \E l \in group : \A m \in group : ~WaitsFor(l, m)

\* A loop that asks for a lock gets it, or gives it up, although locks are kept
\* during requests, writes and whole listings, and although the answer to a request
\* need not arrive (reddit.rs:101-126, reddit.rs:269-270, state.rs:361-376).
EveryWaitEnds ==
    \A l \in Loops : []<>(pc[l] \notin Waits) \/ []<><<pc'[l] # pc[l]>>_vars

\* All loops end after a cancellation: none stays in a line, which does not look at
\* the token, and none keeps a lock another one would need to end (state.rs:564-571,
\* screenshot.rs:133, comment.rs:25).
CancelledLoopsEnd == cancelled ~> \A l \in Loops : pc[l] = "done"

============================================================================
