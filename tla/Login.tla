-------------------------------- MODULE Login --------------------------------
(***************************************************************************)
(* The login at Reddit: RedditToken, ensure_logged_in and the requests     *)
(* that need it (src/reddit.rs), and the two programs that log in,         *)
(* subcommand_init, which is given a one-time code, and subcommand_run,    *)
(* which has to live on what init left in the changelog (src/state.rs).    *)
(*                                                                         *)
(* In "run" collect_loop and screenshot_loop make requests, one at a time  *)
(* each; in "init" only read_my_name does.  The token is write-locked      *)
(* while a caller logs in.                                                 *)
(***************************************************************************)
EXTENDS Naturals, Sequences

CONSTANTS
    Codes,      \* the one-time codes Reddit redirects the user with
    Lifetimes,  \* expires_in of Reddit's answers
    Grace       \* the minute a token is used beyond its expiry

ASSUME CodesAssumption == 0 \notin Codes

ASSUME TimeAssumption == Lifetimes \subseteq Nat \ {0} /\ Grace \in Nat

VARIABLES
    lines, tail, synced, uncommitted, logPermit, writer, cancelled,

    mode,       \* "down", "init" or "run"
    token,      \* State.reddit_token
    code,       \* State.client_data.code; NoCode when it is empty
    pc,         \* where the callers are
    entered,    \* `now` of the caller that is logging in
    clock,      \* Utc::now()
    spent       \* (Reddit) the codes that were exchanged

logVars == <<lines, tail, synced, uncommitted, logPermit, writer, cancelled>>
loginVars == <<token, pc, entered>>
vars == <<logVars, loginVars, mode, code, clock, spent>>

\* A refresh token is named after the code it was granted for.
NoCode == 0
Token == [access : BOOLEAN, refresh : Codes \cup {NoCode}, expires : Nat]
NoToken == [access |-> FALSE, refresh |-> NoCode, expires |-> 0]

\* StateChange::ClientData and StateChange::RedditToken.
ClientData(c) == [kind |-> "client", code |-> c, token |-> NoToken]
RedditToken(t) == [kind |-> "token", code |-> NoCode, token |-> t]
LoginChange == [kind : {"client", "token"}, code : Codes \cup {NoCode}, token : Token]

Log == INSTANCE Changelog
         WITH Change <- LoginChange, Batches <- {<<change>> : change \in LoginChange}

RunCallers == {"collect", "screenshot"}
Callers == RunCallers \cup {"init"}

\* "wait" for the token's lock; "refresh" and "exchange", a request for a token
\* is under way; "log", the new token is reported; "request", the token is used;
\* init begins with "setup" and ends with "commit".
LoginStates == {"refresh", "exchange", "log"}
CallerStates == LoginStates \cup {"idle", "wait", "request", "setup", "commit"}

TypeOK ==
    /\ Log!TypeOK
    /\ mode \in {"down", "init", "run"}
    /\ writer = "off" <=> mode = "down"
    /\ token \in Token
    /\ code \in Codes \cup {NoCode}
    /\ pc \in [Callers -> CallerStates]
    /\ \A c \in RunCallers : pc[c] \notin {"setup", "commit"} /\ (mode # "run" => pc[c] = "idle")
    /\ mode # "init" => pc["init"] = "idle"
    /\ \A c, d \in Callers : pc[c] \in LoginStates /\ pc[d] \in LoginStates => c = d
    /\ entered \in Nat
    /\ clock \in Nat
    /\ spent \subseteq Codes

\* The file is there and empty, as an init leaves it that was broken off.
Init ==
    /\ Log!Init
    /\ mode = "down"
    /\ token = NoToken
    /\ code = NoCode
    /\ pc = [c \in Callers |-> "idle"]
    /\ entered = 0
    /\ clock = 0
    /\ spent = {}

Go(c, where) == pc' = [pc EXCEPT ![c] = where]

----------------------------------------------------------------------------
(* The start and the end of the two programs *)

\* The last value of each kind is what apply_change leaves.
LastToken(changes) ==
    LET at == {i \in 1..Len(changes) : changes[i].kind = "token"}
    IN  IF at = {} THEN NoToken
        ELSE changes[CHOOSE i \in at : \A j \in at : j <= i].token

LastCode(changes) ==
    LET at == {i \in 1..Len(changes) : changes[i].kind = "client"}
    IN  IF at = {} THEN NoCode
        ELSE changes[CHOOSE i \in at : \A j \in at : j <= i].code

\* State::new and State::init: the file is read back.
Start(m) ==
    /\ Log!Open
    /\ mode' = m
    /\ token' = LastToken(lines)
    /\ code' = LastCode(lines)
    /\ IF m = "init" THEN Go("init", "setup") ELSE UNCHANGED pc
    /\ UNCHANGED <<entered, clock, spent>>

\* The user authorises the program and enters the code; then read_my_name.
Setup(c) ==
    /\ pc["init"] = "setup"
    /\ code' = c
    /\ Log!LogChanges(<<ClientData(c)>>)
    /\ Go("init", "wait")
    /\ UNCHANGED <<token, entered, mode, clock, spent>>

Down ==
    /\ mode' = "down"
    /\ token' = NoToken
    /\ code' = NoCode
    /\ pc' = [c \in Callers |-> "idle"]
    /\ entered' = 0
    /\ UNCHANGED <<clock, spent>>

\* init returns after its commit, or with the error of its login or its request.
ExitInit ==
    /\ mode = "init"
    /\ pc["init"] = "idle" \/ writer \in {"select", "done"}
    /\ Log!Stop
    /\ Down

ExitRun ==
    /\ mode = "run"
    /\ writer = "done"
    /\ \A c \in RunCallers : pc[c] = "idle"
    /\ Log!Stop
    /\ Down

Kill ==
    /\ mode # "down"
    /\ Log!Stop
    /\ Down

PowerLoss ==
    /\ mode # "down"
    /\ Log!PowerLoss
    /\ Down

----------------------------------------------------------------------------
(* api_request, api_request_get and ensure_logged_in *)

\* A loop makes a request.
Call(c) ==
    /\ mode = "run"
    /\ pc[c] = "idle"
    /\ Go(c, "wait")
    /\ UNCHANGED <<logVars, token, entered, mode, code, clock, spent>>

Usable(t, now) == t.access /\ t.expires + Grace > now

\* Mutant: a new code comes before the old refresh token.
TurnCodeFirst(c, t, then) ==
    IF Usable(t, entered')
    THEN token' = t /\ Go(c, then)
    ELSE /\ token' = IF t.access THEN [t EXCEPT !.access = FALSE, !.expires = 0] ELSE t
         /\ Go(c, IF code # NoCode THEN "exchange" ELSE "refresh")

\* One turn of the loop in ensure_logged_in, with the token it finds, up to the
\* next .await; `then` is where the caller goes with a token it may use.
Turn(c, t, then) ==
    IF Usable(t, entered')
    THEN token' = t /\ Go(c, then)
    ELSE /\ token' = IF t.access THEN [t EXCEPT !.access = FALSE, !.expires = 0] ELSE t
         /\ Go(c, IF t.refresh = NoCode THEN "exchange" ELSE "refresh")

\* Mutant: the lock is not taken.
AcquireUnlocked(c) ==
    /\ pc[c] = "wait"
    /\ entered' = clock
    /\ Turn(c, token, "request")
    /\ UNCHANGED <<logVars, mode, code, clock, spent>>

\* The write lock; a token that is still usable is not reported again.
Acquire(c) ==
    /\ pc[c] = "wait"
    /\ \A d \in Callers : pc[d] \notin LoginStates
    /\ entered' = clock
    /\ Turn(c, token, "request")
    /\ UNCHANGED <<logVars, mode, code, clock, spent>>

\* Mutant: the new token is not reported.
RefreshedUnreported(c, life) ==
    /\ pc[c] = "refresh"
    /\ UNCHANGED entered
    /\ Turn(c, [token EXCEPT !.access = TRUE, !.expires = entered + life], "request")
    /\ UNCHANGED <<logVars, mode, code, clock, spent>>

\* SUBSEQUENT LOG IN: Reddit grants an access token for the refresh token.
Refreshed(c, life) ==
    /\ pc[c] = "refresh"
    /\ UNCHANGED entered
    /\ Turn(c, [token EXCEPT !.access = TRUE, !.expires = entered + life], "log")
    /\ UNCHANGED <<logVars, mode, code, clock, spent>>

\* Mutant: the refresh token is not kept.
ExchangedForAccess(c, life, access) ==
    /\ pc[c] = "exchange"
    /\ code \notin spent \cup {NoCode}
    /\ spent' = spent \cup {code}
    /\ UNCHANGED entered
    /\ Turn(c, [access |-> TRUE, refresh |-> NoCode, expires |-> entered + life], "log")
    /\ UNCHANGED <<logVars, mode, code, clock>>

\* 1st LOG IN: Reddit grants a refresh token for the code, once.  The answer is
\* taken without an access token, too.
Exchanged(c, life, access) ==
    /\ pc[c] = "exchange"
    /\ code \notin spent \cup {NoCode}
    /\ spent' = spent \cup {code}
    /\ UNCHANGED entered
    /\ Turn(c, [access |-> access, refresh |-> code, expires |-> entered + life], "log")
    /\ UNCHANGED <<logVars, mode, code, clock>>

\* Reddit refuses, the answer is lost or does not begin within 30 seconds, or the
\* token is cancelled before it does: ensure_logged_in returns an error, and its
\* defer cancels.  A body may take for ever: no action for an answer is fair.
LoginError(c) ==
    /\ pc[c] \in {"refresh", "exchange"}
    /\ spent' \in IF pc[c] = "exchange" /\ code # NoCode THEN {spent, spent \cup {code}} ELSE {spent}
    /\ Log!Cancel
    /\ Go(c, "idle")
    /\ UNCHANGED <<token, entered, mode, code, clock>>

\* The new token is reported and the lock given back.
Report(c) ==
    /\ pc[c] = "log"
    /\ Log!LogChanges(<<RedditToken(token)>>)
    /\ Go(c, "request")
    /\ UNCHANGED <<token, entered, mode, code, clock, spent>>

\* The request ends, with an answer or an error.
Respond(c) ==
    /\ pc[c] = "request"
    /\ \/ Go(c, "idle")
       \/ c = "init" /\ Go(c, "commit")
    /\ UNCHANGED <<logVars, token, entered, mode, code, clock, spent>>

\* Mutant: a submission has no time limit.
MayDropCancelled(c) == c = "collect" /\ cancelled

\* screenshot_loop drops a submission after a minute or when the page cannot be
\* rendered (try_join!), collect_loop drops its request when the token is cancelled.
MayDrop(c) == c = "screenshot" \/ (c = "collect" /\ cancelled)

DropRequest(c) ==
    /\ MayDrop(c)
    /\ pc[c] \in {"wait", "request"}
    /\ Go(c, "idle")
    /\ UNCHANGED <<logVars, token, entered, mode, code, clock, spent>>

\* The same in the midst of ensure_logged_in, whose defer cancels the token.  A
\* code that is on its way may be spent.
DropLogin(c) ==
    /\ MayDrop(c)
    /\ pc[c] \in LoginStates
    /\ spent' \in IF pc[c] = "exchange" /\ code # NoCode THEN {spent, spent \cup {code}} ELSE {spent}
    /\ Log!Cancel
    /\ Go(c, "idle")
    /\ UNCHANGED <<token, entered, mode, code, clock>>

----------------------------------------------------------------------------
CtrlC ==
    /\ mode = "run"
    /\ Log!Cancel
    /\ UNCHANGED <<loginVars, mode, code, clock, spent>>

\* Mutant: init commits what it has before it logs in.
CommitsEarly == mode = "run" \/ pc["init"] \in {"wait", "refresh", "exchange", "log", "commit"}

\* changelog_loop runs in run; init calls commit_changes at its end, and once.
Commits == mode = "run" \/ (pc["init"] = "commit" /\ writer # "select")

WriterStep ==
    /\ Commits
    /\ Log!WriterStep
    /\ UNCHANGED <<loginVars, mode, code, clock, spent>>

WriterFails ==
    /\ Commits
    /\ Log!SendFails \/ Log!SyncFails
    /\ UNCHANGED <<loginVars, mode, code, clock, spent>>

Tick ==
    /\ clock' = clock + 1
    /\ UNCHANGED <<logVars, loginVars, mode, code, spent>>

CallerStep(c) ==
    \/ Acquire(c)
    \/ \E life \in Lifetimes :
           Refreshed(c, life) \/ \E access \in BOOLEAN : Exchanged(c, life, access)
    \/ LoginError(c)
    \/ Report(c)
    \/ Respond(c)

Fault == Kill \/ PowerLoss \/ WriterFails

Next ==
    \/ Start("init") \/ Start("run")
    \/ \E c \in Codes \ spent : Setup(c)
    \/ \E c \in RunCallers : Call(c) \/ DropRequest(c) \/ DropLogin(c)
    \/ \E c \in Callers : CallerStep(c)
    \/ WriterStep
    \/ CtrlC \/ ExitInit \/ ExitRun
    \/ Tick
    \/ Fault

Spec == Init /\ [][Next]_vars

\* Nothing is assumed of Reddit: the 30 and 60 seconds of a request end with the head
\* of its answer, and the body is read without a limit, that of a login under the
\* token's lock.  The lock is first in, first out; a loop that has a token reports it;
\* the submission of screenshot_loop has a timer around all it does, and the select! of
\* collect_loop sees a cancelled token wherever the request is.
Fairness ==
    /\ \A c \in Callers : SF_vars(Acquire(c)) /\ WF_vars(Report(c))
    /\ \A c \in RunCallers : WF_vars(DropRequest(c) \/ DropLogin(c))

FairSpec == Spec /\ Fairness

----------------------------------------------------------------------------
(* Properties *)

Reported == lines \o uncommitted

LoggingIn == \E c \in Callers : pc[c] \in LoginStates

\* A service that is stopped and started again goes on with the login it had: the
\* refresh token in memory is always the one of the changelog, and so is the whole
\* token unless somebody is logging in or was interrupted while doing so
\* (reddit.rs:327-332, state.rs:274-276).
TokenIsRecoverable ==
    mode = "run" /\ writer # "done" /\ tail # "garbled" =>
        /\ token.refresh = LastToken(Reported).refresh
        /\ ~LoggingIn /\ ~cancelled => token = LastToken(Reported)

\* When init ends well, the file has its client data and a token that can be
\* refreshed, unless what it wrote met a damaged last line (state.rs:527-534).
InitIsComplete ==
    mode = "init" /\ writer = "select" /\ tail # "garbled" =>
        /\ synced = Len(lines)
        /\ LastCode(lines) = code
        /\ LastToken(lines) = token /\ token.refresh # NoCode

\* The service never logs in with a code: it tries to only if init was
\* interrupted, and then it has none or one that is spent (reddit.rs:283-325,
\* state.rs:527-534).
OnlyInitUsesCodes ==
    \A c \in RunCallers : pc[c] = "exchange" => code \in spent \cup {NoCode}

\* The login of the first init stays: the refresh tokens in the file are all the
\* same, whoever runs has that one, and as long as it is there nobody exchanges a code
\* for another, whatever a further init writes into the file (reddit.rs:240-325).
FirstLoginStays ==
    \A i \in 1..Len(lines) :
        lines[i].kind = "token" =>
            /\ \A j \in 1..Len(lines) :
                   lines[j].kind = "token" => lines[j].token.refresh = lines[i].token.refresh
            /\ mode # "down" => token.refresh = lines[i].token.refresh
            /\ \A c \in Callers : pc[c] # "exchange"

\* Nobody waits for the token's lock for ever, although the answer to the login of the
\* one who has it may never end; and a login that never ends holds up neither a
\* submission longer than its minute nor a service that is cancelled.  (collect_loop,
\* while nobody cancels it, and init may stay in a request for ever.)
\* reddit.rs:101-104, 270, 314, 439-442.
LoginEnds ==
    /\ \A c \in Callers : pc[c] = "wait" ~> pc[c] # "wait"
    /\ pc["screenshot"] # "idle" ~> pc["screenshot"] = "idle"
    /\ pc["collect"] # "idle" /\ cancelled ~> pc["collect"] = "idle"

\* "EXPIRED?" (reddit.rs:224): a token is not used after it has expired.
ExpiredIsNotUsed ==
    [][\A c \in Callers : pc[c] = "wait" /\ pc'[c] = "request" => token.expires > clock]_vars

\* "Reddit login failed. Cancelling execution" (reddit.rs:173): a login that
\* was not refused does not end the service.
DroppedLoginIsNotFailed ==
    [][\A c \in RunCallers :
          token.refresh # NoCode /\ DropLogin(c) => cancelled' = cancelled]_vars

============================================================================
