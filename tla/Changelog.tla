----------------------------- MODULE Changelog -----------------------------
(***************************************************************************)
(* State.uncommitted_changes, State.have_uncommitted_changes and           *)
(* State.changelog of src/state.rs: the queue of changes every loop        *)
(* appends to with log_changes, the task changelog_loop that drains it     *)
(* with commit_changes, and the file changelog.bin, whose lines are read   *)
(* back by read_changelog when the program is started again.               *)
(*                                                                         *)
(* The file is modelled line by line.  A line is a change and its newline. *)
(* A write that is cut short leaves a damaged tail, which is one of        *)
(*   "unterminated": the last line is whole but has no newline: the next   *)
(*                   start reads it, the next write continues it;          *)
(*   "garbled":      a line that does not parse follows the lines; nothing *)
(*                   behind it is ever read, so it is not represented.     *)
(***************************************************************************)
EXTENDS Naturals, Sequences

CONSTANTS
    Change,     \* StateChange values
    Batches     \* the arguments log_changes is called with

ASSUME BatchesAssumption == Batches \subseteq Seq(Change) \ {<<>>}

VARIABLES
    lines,          \* the readable lines of changelog.bin, oldest first
    tail,           \* "clean", "unterminated" or "garbled"
    synced,         \* how many of the lines are sure to be on the disk
    uncommitted,    \* State.uncommitted_changes
    logPermit,      \* the permit of State.have_uncommitted_changes
    writer,         \* where changelog_loop is; "off" when it does not run
    cancelled       \* State.cancel_token

vars == <<lines, tail, synced, uncommitted, logPermit, writer, cancelled>>
fileVars == <<lines, tail, synced>>
memoryVars == <<uncommitted, logPermit>>

Tails == {"clean", "unterminated", "garbled"}
WriterStates == {"off", "commit", "send", "sync", "select", "done"}

\* How many lines end in a newline, and how many of these are on the disk.
Terminated == IF tail = "unterminated" THEN Len(lines) - 1 ELSE Len(lines)
DurablyTerminated == IF synced > Terminated THEN Terminated ELSE synced

TypeOK ==
    /\ lines \in Seq(Change)
    /\ tail \in Tails
    /\ tail = "unterminated" => lines # <<>>
    /\ synced \in 0..Len(lines)
    /\ uncommitted \in Seq(Change)
    /\ logPermit \in BOOLEAN
    /\ writer \in WriterStates
    /\ cancelled \in BOOLEAN

Init ==
    /\ lines = <<>>
    /\ tail = "clean"
    /\ synced = 0
    /\ uncommitted = <<>>
    /\ logPermit = FALSE
    /\ writer = "off"
    /\ cancelled = FALSE

----------------------------------------------------------------------------
(* The start, and the other tasks *)

\* State::new or State::init read every line of the file; what the writer does
\* next, at once in "run" and last in "init", is commit_changes.  A line that does
\* not parse makes read_changelog, and with it the start, fail.
Open ==
    /\ writer = "off"
    /\ tail # "garbled"
    /\ writer' = "commit"
    /\ UNCHANGED <<fileVars, memoryVars, cancelled>>

\* Mutants: changelog_loop is not told; the changes are queued at the wrong end.
LogChangesSilently(changes) ==
    /\ writer \notin {"off", "send"}
    /\ uncommitted' = uncommitted \o changes
    /\ UNCHANGED <<fileVars, logPermit, writer, cancelled>>

LogChangesInFront(changes) ==
    /\ writer \notin {"off", "send"}
    /\ uncommitted' = changes \o uncommitted
    /\ logPermit' = TRUE
    /\ UNCHANGED <<fileVars, writer, cancelled>>

\* log_changes: push the changes, then leave a permit for changelog_loop.  The
\* queue's lock is held by commit_changes while it sends ("send"), and nothing
\* is awaited between the push and notify_one.
LogChanges(changes) ==
    /\ writer \notin {"off", "send"}
    /\ uncommitted' = uncommitted \o changes
    /\ logPermit' = TRUE
    /\ UNCHANGED <<fileVars, writer, cancelled>>

\* cancel_token.cancel(): Ctrl+C, or any loop that ends.
Cancel ==
    /\ writer # "off"
    /\ cancelled' = TRUE
    /\ UNCHANGED <<fileVars, memoryVars, writer>>

----------------------------------------------------------------------------
(* changelog_loop and commit_changes *)

\* commit_changes locks changelog and uncommitted_changes.
BeginCommit ==
    /\ writer = "commit"
    /\ writer' = "send"
    /\ UNCHANGED <<fileVars, memoryVars, cancelled>>

\* Bytes behind a tail that is not clean, or less than a whole line of them, are
\* a line that does not parse; an unterminated line becomes part of it.
Garble ==
    /\ tail' = "garbled"
    /\ lines' = SubSeq(lines, 1, Terminated)
    /\ synced' = DurablyTerminated

\* What a whole line written behind the present tail makes of the file.
AppendLine(change) ==
    \/ /\ tail = "clean"
       /\ lines' = Append(lines, change)
       /\ UNCHANGED <<tail, synced>>
    \/ /\ tail # "clean"
       /\ Garble

\* pop_front and changelog.send(change).
SendLine ==
    /\ writer = "send"
    /\ uncommitted # <<>>
    /\ AppendLine(Head(uncommitted))
    /\ uncommitted' = Tail(uncommitted)
    /\ UNCHANGED <<logPermit, writer, cancelled>>

\* What a line of which only some bytes were written makes of the file: none of
\* them, some of them, or all but the newline.
AppendTorn(change) ==
    \/ UNCHANGED fileVars
    \/ Garble
    \/ /\ tail = "clean"
       /\ tail' = "unterminated"
       /\ lines' = Append(lines, change)
       /\ UNCHANGED synced

\* changelog_loop returns, with an error or not: its defer cancels the token.
Finish ==
    /\ writer' = "done"
    /\ cancelled' = TRUE

\* send fails: the change is popped already, and the loop ends with the error.
SendFails ==
    /\ writer = "send"
    /\ uncommitted # <<>>
    /\ AppendTorn(Head(uncommitted))
    /\ uncommitted' = Tail(uncommitted)
    /\ Finish
    /\ UNCHANGED logPermit

\* The queue is empty: commit_changes drops its lock and goes on to sync_data.
EndSend ==
    /\ writer = "send"
    /\ uncommitted = <<>>
    /\ writer' = "sync"
    /\ UNCHANGED <<fileVars, memoryVars, cancelled>>

\* Mutant: the file is not synced.
SyncSkipped ==
    /\ writer = "sync"
    /\ writer' = "select"
    /\ UNCHANGED <<fileVars, memoryVars, cancelled>>

Sync ==
    /\ writer = "sync"
    /\ synced' = Len(lines)
    /\ writer' = "select"
    /\ UNCHANGED <<lines, tail, memoryVars, cancelled>>

SyncFails ==
    /\ writer = "sync"
    /\ Finish
    /\ UNCHANGED <<fileVars, memoryVars>>

\* The select! of changelog_loop: either ready branch may be taken.
SelectNotified ==
    /\ writer = "select"
    /\ logPermit
    /\ logPermit' = FALSE
    /\ writer' = "commit"
    /\ UNCHANGED <<fileVars, uncommitted, cancelled>>

\* Mutant: the loop goes on after the token is cancelled.
SelectContinues ==
    /\ writer = "select"
    /\ cancelled
    /\ writer' = "commit"
    /\ UNCHANGED <<fileVars, memoryVars, cancelled>>

SelectCancelled ==
    /\ writer = "select"
    /\ cancelled
    /\ Finish
    /\ UNCHANGED <<fileVars, memoryVars>>

WriterStep ==
    \/ BeginCommit \/ SendLine \/ EndSend \/ Sync \/ SelectNotified \/ SelectCancelled

----------------------------------------------------------------------------
(* The end of the process *)

\* What was only in memory is gone.
Forget ==
    /\ uncommitted' = <<>>
    /\ logPermit' = FALSE
    /\ writer' = "off"
    /\ cancelled' = FALSE

\* The process exits or is killed: what it wrote is in the file.
Stop ==
    /\ Forget
    /\ UNCHANGED fileVars

\* The machine stops: of the lines written since sync_data a prefix survives,
\* and the first line that does not may leave a torn piece of itself.  A garbled
\* tail is taken to survive when all the lines before it do.
PowerLoss ==
    /\ Forget
    /\ \/ /\ synced' = Len(lines)
          /\ UNCHANGED <<lines, tail>>
       \/ \E n \in synced..(Len(lines) - 1) :
              \/ /\ lines' = SubSeq(lines, 1, n)
                 /\ tail' \in {"clean", "garbled"}
                 /\ synced' = n
              \/ /\ lines' = SubSeq(lines, 1, n + 1)
                 /\ tail' = "unterminated"
                 /\ synced' = n + 1

----------------------------------------------------------------------------
Next ==
    \/ Open
    \/ \E changes \in Batches : LogChanges(changes)
    \/ Cancel
    \/ WriterStep
    \/ SendFails
    \/ SyncFails
    \/ Stop
    \/ PowerLoss

Spec == Init /\ [][Next]_vars

\* The runtime keeps polling changelog_loop, and file operations finish.  select!
\* begins with a branch picked at random, so it does not pass over a cancelled
\* token for ever.
Fairness == WF_vars(WriterStep) /\ SF_vars(SelectCancelled)

FairSpec == Spec /\ Fairness

----------------------------------------------------------------------------
(* Properties *)

\* When changelog_loop waits without a permit, every accepted change is on the
\* disk: no order of log_changes, notify_one and commit_changes leaves a change
\* in memory that nobody is going to write (state.rs:257-269, 394-400).
IdleMeansDurable ==
    writer = "select" /\ ~logPermit => uncommitted = <<>> /\ synced = Len(lines)

\* What the next start reads is a prefix of what was accepted, in order, and
\* contains everything that was synced: the file and the queue together
\* implement the abstract journal.  Changes behind a damaged tail do not count
\* as accepted, because no start will ever read them.
Pending == IF writer \in {"off", "done"} \/ tail # "clean" THEN <<>> ELSE uncommitted

Journalled == SubSeq(lines, 1, Terminated) \o Pending

J == INSTANCE Journal WITH journal <- Journalled, durable <- DurablyTerminated

ImplementsJournal == J!Spec

\* As long as nothing is cancelled and the process lives, a change that was
\* accepted reaches the disk (state.rs:386-401).
AcceptedIsSynced(n) ==
    Len(lines) + Len(uncommitted) >= n
        ~> synced >= n \/ cancelled \/ writer = "off" \/ tail # "clean"

\* A cancelled token ends changelog_loop (state.rs:397).
CancelEndsWriter == cancelled ~> writer \in {"done", "off"}

============================================================================
