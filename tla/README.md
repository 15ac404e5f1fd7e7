# blindkopie: specifications, model checking and proofs

blindkopie watches a subreddit, takes each link that is posted there to three
web archives, renders a screenshot of it, posts that to a subreddit of its own,
and will some day comment on the original post. It is one Rust process with seven
loops, a state they share, and a file, `changelog.bin`, from which the state is
rebuilt when the process starts. This directory models that process in TLA+,
checks it with TLC and proves part of what is checked with TLAPS.

Source references are to files below `src/src/`.

## 1. The system

| component | state | operations | talks to |
|---|---|---|---|
| changelog (`state.rs:242-401`) | `changelog` (the file), `uncommitted_changes`, `have_uncommitted_changes` | `log_changes`, `commit_changes`, `changelog_loop`, `read_changelog` | every loop reports to it; the next start reads it |
| works (`state.rs:108-204`) | `WorkInner`: six outcomes per post | `ready_to_comment`, `is_failure`, `is_done` | written by the loop that owns the outcome, and by `comment_loop` |
| queues (`state.rs:84-106`) | a heap and a set per worker, a `Notify` each | `insert`, `pop`, `notify_one`, `notified` | filled by `collect_loop`, the replay and the submit loops |
| start and replay (`state.rs:206-359`) | `seen_posts` and the queues | `State::new`, `State::init`, `apply_change`, `apply_outcome` | reads the file |
| submit loops (`state.rs:538-632`, `outline_com.rs`, `wikiwix.rs`, `google_cache.rs`) | the post in hand | take, submit with a timeout, report, hand over to `comment_loop`, pause, wait | queues, works, changelog |
| screenshot loop (`screenshot.rs`) | the same, two outcomes at once | the same; its submission uses subprocesses and the Reddit API | the same, and the login |
| comment loop (`comment.rs`) | nothing | take, mark, pause, wait; the comment is a TODO | comment queue |
| collect loop (`reddit.rs:339-490`) | a listing | fetch, report and queue what is new, notify, pause | queues, changelog, login |
| login (`reddit.rs:95-337`) | `reddit_token` behind a lock, `client_data` | `ensure_logged_in`, `api_request`, `api_request_get` | Reddit, changelog |
| `init` (`state.rs:403-536`) | `client_data` | dialogue, login, one commit | changelog, login |
| cancellation (`main.rs:69-96`, `networking.rs:140-222`) | `cancel_token` | Ctrl+C, the `defer!` of every loop and of the login, cancellable waits, `join!` | all loops |
| screenshot submission (`screenshot.rs:30-116`, `reddit.rs:507-740`) | temporary files, a websocket | render, upload, submit, read back | subprocesses, Reddit |
| HTTPS client (`networking.rs:25-138`), timestamps (`timestamp.rs`), command line | – | I/O and conversions | – |

Hard about it is that the loops interleave at every `.await`; that work moves
between a queue, a loop's hand and a flag in shared data; that what a loop did is
in the file some time later or, when the process stops, not at all; and that any
future may be dropped in the middle, by a timeout, by `try_join!` or by the
cancelled token. `PROJECT.json` lists these hazards line by line with the
properties that would show them going wrong.

What makes each part correct:

* changelog: nothing accepted is forgotten while the service lives; a crash costs
  a suffix only; what was synced stays; an orderly stop ends.
* works and queues: every missing outcome is somebody's job, or the gap is known;
  no worker sleeps on work; a post reaches `comment_loop` when, and only when, all
  its outcomes are known.
* restart: memory and file agree; nothing is submitted twice.
* cancellation: all loops end, wherever they wait.
* login: the token in memory is the one a restart would find; the one-time code is
  used by `init` only; an answer that never ends keeps nobody waiting for the token
  for ever.

## 2. The modules

    Journal            what a reader expects of the changelog           (abstract)
      ^ implemented by
    Changelog          file, queue, writer, faults                      state.rs
      ^ instantiated by
    Blindkopie         the service: loops, queues, replay, stop         state.rs, main.rs,
      extends Work     the data: outcomes, changes, reports             reddit.rs, comment.rs, ...
    Login              init and run, as far as the token goes           reddit.rs, state.rs

    Submission         what the service takes a submission for          (abstract)
      ^ implemented by
    ScreenshotJob      one screenshot submission after another          screenshot.rs, reddit.rs
    SubmitLoop, and each loop of Blindkopie, in its safety

    Backlog            in which order, and how often, posts are taken   (abstract)
      ^ implemented by each loop of Blindkopie, and by
    SubmitLoop         one submit loop with its requests and timeouts   state.rs, wikiwix.rs, ...
      extends WorkQueue    heap and set of a queue                      state.rs
        extends Listing    the filter of a listing, the order of posts  reddit.rs
          extends Timestamp    dates, and what a restart makes of them  timestamp.rs

    Locks              all locks that are kept across an .await         all loops

`Blindkopie` and `Login` both instantiate `Changelog` (`Log == INSTANCE ...`) and
share its variables, so that the file they leave behind and find again is the same
model, with the same faults. `ScreenshotJob`, `SubmitLoop` and `Locks` look closer at
what `Blindkopie` has as single steps: its `Submitted` is a submission of the first
two, its numbers of posts are the order of `Backlog`, its loops implement both for
every post and across every restart (`ImplementsSubmissions`, `ImplementsBacklogs`),
and the locks it only keeps
where they decide which step comes next are those of `Locks`. The MC modules add bounds
for TLC, the modules named Proofs hold the theorems.

**Changelog.** One action per step of `commit_changes` and of the `select!` of
`changelog_loop`: `BeginCommit` takes the two locks, `SendLine` pops one change and
writes it, `EndSend` and `Sync` follow, `SelectNotified` and `SelectCancelled` are
the branches of the `select!`. `LogChanges` is `log_changes`; it cannot happen while
the writer sends, because the queue's lock is held. `lines` are the lines the next
start reads and `tail` tells what follows them: nothing, a last line without its
newline, or bytes that do not parse. `SendFails` loses the popped change and leaves
any of the three; `PowerLoss` keeps what was synced and some of the rest.
`LinesCodec` is modelled by what it does at the end of a file: a whole line without
newline is read, a line that is cut off is handed to `from_str`, which fails.
`to_string` in `log_changes` cannot fail for a `StateChange` and has no error path.

**Work.** Posts are numbers in the order in which the heap takes them. Urls and texts
are not told apart: an outcome is waiting, processing, a success or a failure.
`Archives` says which instances of `run_submit_loop` exist; the program has all three,
TLC looks at one at a time, the proofs hold for any choice. What a missing loop would
fill in is left out of `ReadyToComment`, too. `google_cache` behaves like
`outline_com` except that `is_failure` does not look at it; its retry without the
query (`google_cache.rs:38-46`) is inside the submission.

**Blindkopie.** `pc[l]` is where a loop waits: before its first poll, for its queue's
lock, on a submission, between the last outcome and the comment queue, in its pause,
or on its `Notify`. All loops are futures of one task (`join!`), so what happens
between two `.await`s, or under a lock that is kept, is one action. `Again` is the
top of a loop, which looks at the token. `collect_loop` keeps the queues locked while
it works through a listing (`HasQueue`). `Return` is a loop's end with its `defer!`.
`LoginFails` is all the service sees of `Login`. The replay is one line per step
(`ReplayLine`), and a line that does not parse ends the start (`ReplayFails`).
Client data and tokens are left out of the lines here.

**Login.** `Acquire` takes the lock and runs the loop of `ensure_logged_in` up to
its first request; `Refreshed`, `Exchanged` and `LoginError` are what may come back;
`Report` logs the token; `DropLogin` is the future being dropped with its `defer!`
armed. `Tick` lets time pass, in units of the grace. Reddit is modelled by how it is
used: it may refuse anything, grants a refresh token for a code once, and may have
spent a code although the answer was lost. `init` runs the same login for
`read_my_name` and commits at its very end. Lines of posts and outcomes are left out.
Lifetimes are
positive: with an `expires_in` of minus a minute or less `ensure_logged_in` would ask
for token after token. A start with an empty file stands for an `init` that was broken off at once.

**ScreenshotJob.** `stage` is the `.await` at which `screenshot_loop` waits: for
`python`, for `convert`, for the title, the upload, the submission and the address.
A file's content is the set of pages written to it, so that a mixture shows. A
subprocess finds its files by their numbers when it opens them (`OpenFile`,
`ReadInput`); whose files these are then depends on who has the numbers.
`Fails` is any error, the 60 seconds and the token: it closes the files and leaves
the subprocess alone. Requests to `/api/submit` are dealt with by Reddit at any time,
also after the client has gone. `Restart` forgets outcomes that were not written and
settles the requests nobody waits for any more.

**Timestamp, Listing, WorkQueue.** The conversions and the filter, by what they do to
milliseconds and to the fields of a listing; a queue is the heap, as how many of each
work it has, and the set; `IsTop` compares as `Ord` does, `Contains` as `Eq` does.

**SubmitLoop.** One of the three instances of `run_submit_loop`, whichever `archive`
says, with the two queues it touches. A work is a post with a reference to its data;
`inner` is what the references refer to. `Request`, `Failed` and `End` are shared by
all submissions. A unit of time is 15 seconds: a request has two, a submission three;
reading the body of an answer has no limit of its own. Whether a post is ready when
its outcome is stored depends on the other loops and is left open (`ready`). A
loop looks at the token before it waits for the lock of its queue; `late` are the loops
that had done so when it was cancelled, and may take up one more post. A restart keeps
the first changes of the file and replays them.

**Locks.** `pc` says what a loop waits for or does, `Wanted` and `Held` which lock
that needs and which it has meanwhile, and `line` who stands in line for each, since
tokio's locks are first in, first out. Whether a queue has work or a token is usable
is left open. Reddit need not answer; only the screenshot's requests have a limit
around the login.

## 3. What is checked

| run | instance | what it shows |
|---|---|---|
| `changelog` | two changes, batches of one or two, four lines | `IdleMeansDurable`, the refinement of `Journal`, and under fairness that accepted changes are synced and that a cancelled writer ends |
| `service_race` | two posts, Outline.com and screenshots, one start | `NoLostWakeup`, `CommentQueueIsReady`, `OutcomesAreFinal` |
| `service_restart` | one post, two starts, and between them one fault or one cancellation | memory and file agree, the file is well formed, nothing is submitted again |
| `service_stranded` | the same with Wikiwix and a fault | `NothingStranded` with the loop whose queue the replay does not fill, and that all loops implement `Submission` |
| `service_stop` | one cancellation, fair | every loop ends, and the process with them; after the cancellation no worker takes up more than the one post it is about to look for (`WorkersWindDown`) |
| `service_progress` | one post, no faults, fair | a post that is found gets all its outcomes, reaches `comment_loop` and is taken |
| `login` | two codes, tokens that last one tick, three starts of `init` or `run`, one fault | the five invariants of Login, and that a login whose answer never ends holds up neither another caller for ever, nor a submission, nor a cancelled service (`LoginEnds`) |
| `screenshot_job` | two posts, three descriptors, one restart | pictures and texts are those of their posts but for a named exception, a success was posted, a post is posted once for each time it is taken, and the refinement of `Submission` |
| `submit_loop` | two posts with two dates each, every archive in turn, listings of two and one with everything the filter refuses, one restart or cancellation | heap and set agree, data is shared, outcomes are earned, the refinements of `Backlog` and `Submission`, and that submissions end |
| `locks` | one post, one archive beside the other loops | no circle of waiting loops, every wait ends, and all loops end after a cancellation |
| `login_expired` | as small as possible | **finding**: a token is used after it has expired |
| `login_dropped` | as small as possible | **finding**: a login that is dropped stops the service |

Exceptions are part of the properties, so that they are exactly as wide as the code
makes them. `NothingStranded` names three: a post that was read back is not in the
Wikiwix queue (`state.rs:280-299`); the text is missing when a crash cut the report
of a screenshot in two (`screenshot.rs:166`); and `comment_loop` overwrites the
outcome of Outline.com (`comment.rs:36`). The first and the second mean that the
post never becomes ready for its comment. The run has the first two of them; the third
needs the loop of Outline.com, for which the proof stands, as for every choice of
archives (`NobodyIsStranded`). For the same reason `ImplementsSubmissions` and
`ImplementsSubmission` leave Outline.com out: its outcome does not stay.

`FirstLoginStays` is what the order of `reddit.rs:240-325` comes to: a refresh token in
the changelog is always preferred to a code, so that a further `init` checks the old
login again and never exchanges its new code.

Of the type invariants TLC checks those of `Blindkopie`, `Login` (both have that of
`Changelog` as a part) and `SubmitLoop`; those of `Locks` and `ScreenshotJob` are
proved only, and so is `ImplementsBacklogs`. `PictureIsOfPost` leaves out a submission that
begins while a subprocess of an earlier one is still running: numbers of descriptors
are used again, and the late writer changes the picture of another post. Such a
subprocess is there only after a failure (`StrayMeansFailure`).

**Bounds.** *Changelog*: batches have one or two changes and the file with its queue
has room for two of these, enough for a change to be lost between two others, a torn
line to be continued and a fault on either line of a batch; the writer keeps nothing
about a change once it is written. *Service*: two posts are needed for what depends
on the number of queued posts (the order of the heap, a notification that covers
several posts, a second post arriving during a pause) and appear in `service_race`;
posts meet nowhere else, so one is enough for restarts. One archive beside
`screenshot` gives two loops that finish the same post; a third adds no new pair.
Two starts show everything one replay can find; the second run meets no further
fault. `MaxTroubles` bounds faults and cancellations together. `Failing` lets only
the screenshot loop fail in some runs, which halves the outcomes without taking a
path away, because outcomes of the other loops are never compared. `service_race` uses the view `MemoryView`: with one start
and no fault, nothing depends on the contents of the file. *Login*: two codes allow
`init` to be run again; three starts are `init`, `init` or `run`, and `run`; with a
lifetime of one tick, a grace of one and a clock up to three, a token expires and is
renewed within one run. *ScreenshotJob*: two posts let a late subprocess of one meet the
files of the other, and with as many descriptors as a submission needs the numbers
are always used again. Which numbers a submission gets is left open only while a
subprocess knows some. *SubmitLoop*: two posts with two dates in either order; `i64`
is bounded just outside the dates there are, so that truncation, saturation and a
date out of range all happen; three references, of which two are in use at most when
a third is needed. Which unused reference is taken makes no difference. *Locks*: one
post, whose data all loops share; a second archive takes the same locks in the same
order. No bound restricts an action for which fairness is assumed.

**Fairness.** Loops are polled when they are ready, and timers end, so that the steps of
a loop are weakly fair at least. Every submission has a timeout around all it does,
and so has the head of every answer. The body of an answer has none, which matters in
`collect_loop` and `init`: in `Blindkopie` that the listing arrives is an assumption
about Reddit; `Login`, `SubmitLoop`, `ScreenshotJob` and `Locks` assume nothing of the
other side, only of timers, of locks and of `select!`. In `Login` a caller may stay with
its answer, and with the token's lock, for ever, unless the minute of a submission or a
cancellation drops it. `init`, and `collect_loop` while nobody cancels it, have neither,
and `LoginEnds` promises no end of theirs. `SubmitLoop` takes timers to be prompt: time
does not pass one that is due. Strong fairness is assumed where the code provides more:
tokio's locks are first in, first out, so a worker gets its queue although
`collect_loop` keeps taking it, and so does a caller the token; and `select!` begins
with a branch picked at random, so it does not pass over a cancelled token for ever.
Nothing makes the process start, stop, fail or be cancelled. The listing may bring new
posts as often as it likes.

**Deadlock** checking is off in all runs: a process that is down need not be
started again, and the bounds end a behaviour.

Every property has a mutant: a definition of the model changed the way a slip in the
code would change it, with which the run finds the property violated. Mutants stand
in front of the definition they vary.

## 4. What is proved

For every set of posts, every choice of archives and files of any length:

* `ChangelogProofs!TypeCorrect`, `IdleIsDurable`, `JournalImplemented`. The inductive
  invariant `IInv` adds to the types that a writer at its `select!` has either a
  permit or an empty queue and a synced file (`PermitOrEmpty`, `WaitIsSynced`), and
  that a writer that is off has forgotten its queue. `IdleMeansDurable` is not inductive alone: it
  says nothing of the time between the drained queue and the wait, in which a report
  may arrive. The refinement maps the journal to the terminated lines followed by
  what is still going to be written; each step is shown to be a step of `Journal` or
  a stutter, the faults being its `Lose`.
* `ChangelogProofs!DurableIsForGood`: a line that is synced and terminated once is
  there for ever, at its place. The theorem says it as `Spec => [](D => []D)` for each
  line and place; that D outlasts every step is the action property underneath
  (`DurableStays`).
* `BlindkopieProofs!TypeCorrect`, and `ServiceUsesChangelog`: every step of the
  service is a step of its changelog or leaves it alone, so that what is proved of
  `Changelog` holds of the service. `IdleServiceIsDurable` and `ServiceKeepsJournal`
  carry the two main results over: the service, with its loops and its replay, keeps
  a `Journal`.
* `BlindkopieProofs!CancelledWorkersEnd` (`WorkersWindDown`): from a cancellation on each
  step of a worker brings it nearer to its end, by the measure `StepsToEnd`. It is
  the safety half of `CancelStops`.
* `BlindkopieProofs!CommentQueueReady`. That a post in the comment queue is ready
  depends on who may still touch its outcomes. `HandInv` says it: loops do nothing
  before they are started; nothing is worked on that was not seen; a submission keeps
  its outcome marked, so that nobody finds the post ready meanwhile; and between the
  last outcome and the comment queue a post is in one hand only and not in the queue.
* `BlindkopieProofs!WakeupsArrive`: `NoLostWakeup`, with the type invariant and
  `LoopsIdle`.
* `RecoveryProofs`: `FileStaysWellFormed` (`FileIsWellFormed`), `RestartsKeepTheMemory`
  (`MemoryIsRecoverable`), `NobodyIsStranded` (`NothingStranded`), `OutcomesStay`
  (`OutcomesAreFinal`) and `NothingSubmittedAgain` (`NotSubmittedAgain`). File and memory
  need each other: what is reported next is in order (`Ordered`) because who reports it
  knows what was reported before (`KnowsOf`), and a replay comes to know it because the
  lines are in order. A writer that failed ends this, but what is in the file stays known
  (`LinesKnown`), which is why nothing in it is submitted again. `DataInv` keeps the text
  of a post with its screenshot, except where a restart has read only the first of the
  two lines: the exception of `NothingStranded`.
* `RefinementProofs`, on top of that invariant. `LoopsSubmit` (`ImplementsSubmissions`):
  each loop but that of Outline.com implements `Submission`, if what it knows of a post is
  read from its data while the process runs and from the file while it does not; both
  agree when a replay ends. `LoopRefinesSubmission` states it for one loop as its
  specification. `LoopsTakeFromBacklog` (`ImplementsBacklogs`) does the same for `Backlog`,
  with one more invariant: whoever runs has seen every post in the file (`LinesSeen`),
  so that none is found with a second date. `DoneForGood`
  and `FoundForGood` join this with `DurableIsForGood`: once an outcome, or a post, is on
  the disk, every later run of the service knows it, and nobody submits that post to
  that archive again.
* `LocksProofs!DeadlockFree`: the locks can be numbered so that a loop has only
  smaller ones than the one it waits for: a queue before the data of a post, the data
  and the token and the five locks of `collect_loop`, in its order, before the queue of
  changes, the changelog before that queue, too. In a circle of waiting loops the one
  that waits for the greatest lock would wait for a greater one. For this,
  `CollectInv` says that only `collect_loop` goes through its order, and not past its end.
* `SubmitLoopProofs`: `TypeCorrect`, `QueuesAgree` (`HeapIsSet`), `WorksShareTheirData`
  (`DataIsShared`), `OutcomesAreEarned` (`OutcomeIsEarned`) and `BacklogImplemented`
  (`ImplementsBacklog`). Heap and set cannot agree alone: one compares
  creation and id, the other the id. `WorksInv` says why they do: there is one known post
  for each line that announced one; known posts differ in their ids and in their data,
  and every other work, in the heap, the set, the listing or the hand of the loop, is a
  clone of one of them. `EarnInv` follows a request from the archive's answer to the
  report, for `OutcomesAreEarned`. `SubmissionsImplemented` (`ImplementsSubmission`) needs
  `RecordInv`: an outcome follows the line of its post (`Announced`), there is one at most
  for each (`Once`), the data of a known post say what the changes applied so far say
  (`Remembered`), and the work in hand has no outcome (`Marked`). The first two need the
  last two when a submission ends, and give them back during the replay.
* `ScreenshotJobProofs`: `TypeCorrect`, `StraysAreFailures`, `SuccessesArePosted`,
  `PostedOnce`, `PicturesAreOfTheirPosts` and `SubmissionsFollow`. The invariant says
  what may be under way for a post: one subprocess at most (`ProcInv`) and one request
  at most (`FlightInv`), either of the submission that waits for it or of one that
  failed; hence a post that may be taken has left nothing behind. `CountInv` makes
  `PostedOncePerTake` inductive: a post that is still going to be posted, by the
  submission or by Reddit alone, has fewer pictures than it was taken. `CleanInv` does it
  for `PictureIsOfPost`: a submission that began alone has nothing of another page in
  its subprocess, its files, its picture or its request.
* `LoginProofs`: `TypeCorrect`, `LoginUsesChangelog`, `RestartsKeepTheLogin`
  (`TokenIsRecoverable`), `OnlyInitSpendsCodes` (`OnlyInitUsesCodes`) and
  `InitEndsComplete` (`InitIsComplete`). The invariant says what a start can live on
  (`Good`): every token in the file can be refreshed, and the code of client data is
  spent unless a token stands before it. What is cut off the end of a good file leaves
  it good, so it outlives kills and power losses. It is kept because only who exchanges
  a code has no refresh token (`LoginInv`) and `init` keeps its client data to itself
  until it is logged in (`InitInv`).
  `FirstLoginIsKept` (`FirstLoginStays`) needs `KeptInv` beside it: the tokens in the file
  have one refresh token, and while a process runs it is that of its memory and of its
  queue, too; so who exchanges a code, and has none, finds none in the file either.
  `LoginKeepsJournal` carries `JournalImplemented` over to both programs, and
  `LoginForGood` joins `FirstLoginIsKept` with what `DurableIsForGood` rests on: a login
  that is on the disk once is that of every later process.

Assumed are only the named assumptions on the constants: posts are numbers or not
`NoPost`, the archives are among the three, batches are not empty, there are
descriptors for the three files of a submission, ids are numbers and `NoWork` is no
work, tokens live for some time, `Grace` is a number and 0 is no code.

Only model-checked are the liveness properties, since TLAPS does not reach fairness and
ENABLED here, and the two properties whose violation section 5 reports. All other
properties of the runs are proved. Of two of the liveness properties the safety part is:
`SubmissionsFollow` for `Submits`, since the abstract submission is fair, and
`CancelledWorkersEnd` for `CancelStops`.

## 5. Findings

* `reddit.rs:231` keeps a token for a minute after its expiry instead of giving it
  up a minute before (run `login_expired`). Requests with it fail until then.
* `reddit.rs:171`: the `defer!` of `ensure_logged_in` cannot tell a failed login from
  a dropped one. When the page of a post cannot be rendered while `fetch_title` renews
  the token, `try_join!` drops the latter and the whole service stops with "Reddit
  login failed" (run `login_dropped`).

## 6. What is not modelled

The HTTPS client and the websocket as such (`networking.rs:25-138`), the command line
and logging: I/O, on which no property here depends; a request is an answer or an
error, and a websocket delivers its message or ends. `init`'s dialogue is one step,
and of the client data only the code is kept. What the requests contain, urls, titles
and the pixels of a picture are not told apart. The comment itself is still to be
written in the source. That an old post is not overtaken by newer ones for ever does
not hold and is promised nowhere: `ImplementsBacklog` only says that nothing else
overtakes it.
