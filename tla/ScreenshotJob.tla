--------------------------- MODULE ScreenshotJob ---------------------------
(***************************************************************************)
(* One submission of screenshot_loop after another: the page is rendered   *)
(* by a subprocess and converted by a second one while fetch_title asks    *)
(* for its title, the picture is uploaded, submitted, and its address is   *)
(* read back (screenshot.rs:30-116, reddit.rs:507-774).                    *)
(*                                                                         *)
(* The subprocesses find the three files of their submission under         *)
(* /proc/<pid>/fd/<number>.  A submission that is given up closes its      *)
(* files but does not end its subprocess, and the next submission may be   *)
(* given the same numbers.  A page is identified by its post; what a file  *)
(* contains is the set of the pages that were written to it since it was   *)
(* last truncated.                                                         *)
(***************************************************************************)
EXTENDS Naturals, Sequences, FiniteSets

CONSTANTS
    Posts,      \* the posts in the screenshot queue
    NoPost,
    Fds         \* numbers of file descriptors that are not in use otherwise

ASSUME PostsAssumption == NoPost \notin Posts
ASSUME FdsAssumption == IsFiniteSet(Fds) /\ Cardinality(Fds) >= 3

Kinds == {"png", "index", "text"}
Closed == "closed"
NoFile == "none"

VARIABLES
    current,    \* the post that is submitted
    stage,      \* how far its submission is
    title,      \* fetch_title: not asked, asked or known
    fd,         \* the descriptors of its files
    content,    \* what its files contain
    text,       \* the text that was read for a post
    procs,      \* the subprocesses that run, wherever they come from
    inflight,   \* requests to /api/submit that Reddit has not dealt with
    sent, got,  \* its answers, on their way and received
    result,     \* the outcome that is going to be reported
    outcome,    \* the outcomes that were reported
    picture,    \* what was uploaded last
    posted,     \* how many image posts Reddit has for a post
    shown,      \* what the last of them shows
    begun,      \* history: how often a post was taken
    disturbed   \* history: posts taken while a subprocess of another one ran

fileVars == <<fd, content>>
redditVars == <<inflight, sent, posted, shown>>
history == <<begun, disturbed>>
vars == <<current, stage, title, fileVars, text, procs, redditVars, got, result, outcome,
          picture, history>>

Stages == {"idle", "python", "convert", "rendered", "uploaded", "submit", "lookup", "report"}
Answers == {"reply", "redirect"}

Process == [of : Posts, tool : {"python", "convert"}, paths : [Kinds -> Fds],
            todo : {<<"text", "png">>, <<"png">>, <<"index">>, <<>>},
            open : Kinds \cup {NoFile, "gone"}, page : SUBSET Posts]

TypeOK ==
    /\ current \in Posts \cup {NoPost}
    /\ stage \in Stages
    /\ title \in {"none", "asked", "known"}
    /\ fd \in [Kinds -> Fds \cup {Closed}]
    /\ content \in [Kinds -> SUBSET Posts]
    /\ text \in [Posts -> SUBSET Posts]
    /\ procs \subseteq Process
    /\ inflight \subseteq [of : Posts, picture : SUBSET Posts]
    /\ sent \subseteq Answers /\ got \subseteq sent
    /\ result \in {"none", "success", "failure"}
    /\ outcome \in [Posts -> {"none", "success", "failure"}]
    /\ picture \in SUBSET Posts
    /\ posted \in [Posts -> Nat]
    /\ shown \in [Posts -> SUBSET Posts]
    /\ begun \in [Posts -> Nat]
    /\ disturbed \subseteq Posts

NoFds == [k \in Kinds |-> Closed]

\* What a submission starts from.
Idle ==
    /\ current' = NoPost
    /\ stage' = "idle"
    /\ title' = "none"
    /\ fd' = NoFds
    /\ content' = [k \in Kinds |-> {}]
    /\ sent' = {} /\ got' = {}
    /\ result' = "none"
    /\ picture' = {}

Init ==
    /\ current = NoPost
    /\ stage = "idle"
    /\ title = "none"
    /\ fd = NoFds
    /\ content = [k \in Kinds |-> {}]
    /\ text = [p \in Posts |-> {}]
    /\ procs = {}
    /\ inflight = {}
    /\ sent = {} /\ got = {}
    /\ result = "none"
    /\ outcome = [p \in Posts |-> "none"]
    /\ picture = {}
    /\ posted = [p \in Posts |-> 0]
    /\ shown = [p \in Posts |-> {}]
    /\ begun = [p \in Posts |-> 0]
    /\ disturbed = {}

----------------------------------------------------------------------------
(* Subprocesses *)

Python(p, paths) == [of |-> p, tool |-> "python", paths |-> paths, todo |-> <<"text", "png">>,
                     open |-> NoFile, page |-> {p}]
Convert(p, paths) == [of |-> p, tool |-> "convert", paths |-> paths, todo |-> <<"index">>,
                      open |-> NoFile, page |-> {}]

Replace(s, t) == procs' = (procs \ {s}) \cup {t}

\* convert reads the picture, which must not be empty.
ReadInput(s) ==
    /\ s.tool = "convert" /\ s.page = {}
    /\ \E k \in Kinds :
           /\ fd[k] = s.paths["png"]
           /\ content[k] # {}
           /\ Replace(s, [s EXCEPT !.page = content[k]])
    /\ UNCHANGED <<current, stage, title, fileVars, text, redditVars, got, result, outcome,
                   picture, history>>

\* A file is opened for writing, which truncates it: whichever file has the number now.
OpenFile(s) ==
    /\ s.todo # <<>> /\ s.open = NoFile /\ s.page # {}
    /\ \E k \in Kinds :
           /\ fd[k] = s.paths[Head(s.todo)]
           /\ content' = [content EXCEPT ![k] = {}]
           /\ Replace(s, [s EXCEPT !.open = k])
    /\ UNCHANGED <<current, stage, title, fd, text, redditVars, got, result, outcome,
                   picture, history>>

\* What is written to the file of a submission that has ended is lost.
WriteFile(s) ==
    /\ s.open # NoFile
    /\ content' = [k \in Kinds |-> IF k = s.open THEN content[k] \cup s.page ELSE content[k]]
    /\ Replace(s, [s EXCEPT !.open = NoFile, !.todo = Tail(@)])
    /\ UNCHANGED <<current, stage, title, fd, text, redditVars, got, result, outcome,
                   picture, history>>

Awaited(s) == s.of = current /\ s.tool = stage

\* A subprocess nobody waits for ends, or fails, unnoticed.
StrayEnds(s) ==
    /\ ~Awaited(s)
    /\ procs' = procs \ {s}
    /\ UNCHANGED <<current, stage, title, fileVars, text, redditVars, got, result, outcome,
                   picture, history>>

Finished(s) == s.todo = <<>>

----------------------------------------------------------------------------
(* screenshot() and fetch_title() *)

Paths == {f \in [Kinds -> Fds] : \A j, k \in Kinds : f[j] = f[k] => j = k}

\* data.comment.is_done() || data.screenshot.is_done() passes a post over.
MayTake(p) == outcome[p] = "none"

\* A post is taken, three files are created, and python is started for it.
Take(p, paths) ==
    /\ stage = "idle"
    /\ MayTake(p)
    /\ current' = p
    /\ stage' = "python"
    /\ title' = "asked"
    /\ fd' = paths
    /\ content' = [k \in Kinds |-> {}]
    /\ procs' = {[s EXCEPT !.open = IF @ = NoFile THEN @ ELSE "gone"] : s \in procs}
                    \cup {Python(p, paths)}
    /\ begun' = [begun EXCEPT ![p] = @ + 1]
    /\ disturbed' = IF procs = {} THEN disturbed \ {p} ELSE disturbed \cup {p}
    /\ UNCHANGED <<text, redditVars, got, result, outcome, picture>>

\* Mutant: convert is started at once and python is not waited for.
PythonEndsUnwaited(s) ==
    /\ Awaited(s) /\ s.tool = "python" /\ s.todo # <<"text", "png">>
    /\ stage' = "convert"
    /\ procs' = procs \cup {Convert(current, s.paths)}
    /\ UNCHANGED <<current, title, fileVars, text, redditVars, got, result, outcome, picture,
                   history>>

\* python ends well: the screenshot and the text were written, and convert begins.
PythonEnds(s) ==
    /\ Awaited(s) /\ s.tool = "python" /\ Finished(s)
    /\ stage' = "convert"
    /\ procs' = (procs \ {s}) \cup {Convert(current, s.paths)}
    /\ UNCHANGED <<current, title, fileVars, text, redditVars, got, result, outcome, picture,
                   history>>

\* convert ends well: text and picture are mapped, which they are only when they
\* are not empty, the text is copied, and the files are closed.
ConvertEnds(s) ==
    /\ Awaited(s) /\ s.tool = "convert" /\ Finished(s)
    /\ content["text"] # {} /\ content["index"] # {}
    /\ text' = [text EXCEPT ![current] = content["text"]]
    /\ procs' = procs \ {s}
    /\ fd' = NoFds
    /\ stage' = "rendered"
    /\ UNCHANGED <<current, title, content, redditVars, got, result, outcome, picture, history>>

FetchTitle ==
    /\ title = "asked"
    /\ stage \in {"python", "convert", "rendered"}
    /\ title' = "known"
    /\ UNCHANGED <<current, stage, fileVars, text, procs, redditVars, got, result, outcome,
                   picture, history>>

----------------------------------------------------------------------------
(* upload_image_preview(), submit_image(), get_uploaded_image_url() *)

\* Mutant: the title alone is waited for, select! instead of try_join!.
UploadEarly ==
    /\ stage \in {"python", "convert", "rendered"} /\ title = "known"
    /\ picture' = content["index"]
    /\ stage' = "uploaded"
    /\ UNCHANGED <<current, title, fileVars, text, procs, redditVars, got, result, outcome,
                   history>>

\* Both sides of try_join! are there; the picture is read from its mapping.
Upload ==
    /\ stage = "rendered" /\ title = "known"
    /\ picture' = content["index"]
    /\ stage' = "uploaded"
    /\ UNCHANGED <<current, title, fileVars, text, procs, redditVars, got, result, outcome,
                   history>>

\* Mutant: the request is repeated while there is no answer.
SubmitImageRetried ==
    /\ stage \in {"uploaded", "submit"}
    /\ inflight' = inflight \cup {[of |-> current, picture |-> picture]}
    /\ stage' = "submit"
    /\ UNCHANGED <<current, title, fileVars, text, procs, sent, got, posted, shown, result,
                   outcome, picture, history>>

\* The websocket is open, and the picture is submitted.
SubmitImage ==
    /\ stage = "uploaded"
    /\ inflight' = inflight \cup {[of |-> current, picture |-> picture]}
    /\ stage' = "submit"
    /\ UNCHANGED <<current, title, fileVars, text, procs, sent, got, posted, shown, result,
                   outcome, picture, history>>

\* The client still waits for the answer to r.
IsAsked(r) == stage = "submit" /\ current = r.of

\* Reddit posts the picture, whether or not anybody waits for it any more: it
\* answers the request and tells the address on the websocket, in any order.
Accept(r) ==
    /\ posted' = [posted EXCEPT ![r.of] = @ + 1]
    /\ shown' = [shown EXCEPT ![r.of] = r.picture]
    /\ inflight' = inflight \ {r}
    /\ sent' = IF IsAsked(r) THEN Answers ELSE sent
    /\ UNCHANGED <<current, stage, title, fileVars, text, procs, got, result, outcome, picture,
                   history>>

\* Reddit refuses: success is false, and there is nothing to tell on the websocket.
Refuse(r) ==
    /\ inflight' = inflight \ {r}
    /\ sent' = IF IsAsked(r) THEN {"reply"} ELSE sent
    /\ UNCHANGED <<current, stage, title, fileVars, text, procs, posted, shown, got, result,
                   outcome, picture, history>>

Receive(answer) ==
    /\ stage = "submit"
    /\ answer \in sent \ got
    /\ got' = got \cup {answer}
    /\ UNCHANGED <<current, stage, title, fileVars, text, procs, redditVars, result, outcome,
                   picture, history>>

\* Mutant: the reply alone is waited for.
JoinedOnReply == "reply" \in got

\* try_join!(read_websocket, submit_image): a success of false is only logged.
Joined == got = Answers

ReadBack ==
    /\ stage = "submit" /\ Joined
    /\ stage' = "lookup"
    /\ UNCHANGED <<current, title, fileVars, text, procs, redditVars, got, result, outcome,
                   picture, history>>

GetUploadedImageUrl ==
    /\ stage = "lookup"
    /\ stage' = "report"
    /\ result' = "success"
    /\ UNCHANGED <<current, title, fileVars, text, procs, redditVars, got, outcome, picture,
                   history>>

----------------------------------------------------------------------------
(* The submission as a whole *)

\* Mutant: there is no limit for what follows the rendering.
FailsWhileRendering ==
    /\ stage \in {"python", "convert"}
    /\ stage' = "report"
    /\ result' = "failure"
    /\ fd' = NoFds
    /\ UNCHANGED <<current, title, content, text, procs, redditVars, got, outcome, picture,
                   history>>

\* An error of any of its steps, the end of its time or the cancelled token ends
\* the submission.  Its files are closed; a subprocess is left alone.
Fails ==
    /\ stage \notin {"idle", "report"}
    /\ stage' = "report"
    /\ result' = "failure"
    /\ fd' = NoFds
    /\ UNCHANGED <<current, title, content, text, procs, redditVars, got, outcome, picture,
                   history>>

\* log_changes, and the outcome in the work.
Report ==
    /\ stage = "report"
    /\ outcome' = [outcome EXCEPT ![current] = result]
    /\ Idle
    /\ UNCHANGED <<text, procs, inflight, posted, shown, history>>

\* The process is stopped and started again: paths with the old process number
\* lead nowhere, and the last outcomes may not have reached the changelog.  Reddit
\* goes on with what it got: when it deals with a request that nobody waits for any more
\* makes no difference to later submissions, which get posts of their own, so what is
\* under way is settled here.
Restart ==
    /\ Idle
    /\ procs' = {}
    /\ \E kept \in SUBSET Posts :
           outcome' = [p \in Posts |-> IF p \in kept THEN outcome[p] ELSE "none"]
    /\ \E done \in SUBSET inflight :
           /\ posted' = [p \in Posts |-> posted[p] + Cardinality({r \in done : r.of = p})]
           /\ shown' = [p \in Posts |-> IF \E r \in done : r.of = p
                                        THEN (CHOOSE r \in done : r.of = p).picture
                                        ELSE shown[p]]
    /\ inflight' = {}
    /\ UNCHANGED <<text, history>>

ProcessStep(s) == ReadInput(s) \/ OpenFile(s) \/ WriteFile(s) \/ StrayEnds(s)

RenderStep ==
    \/ \E s \in procs : PythonEnds(s) \/ ConvertEnds(s)
    \/ FetchTitle

PublishStep ==
    \/ Upload \/ SubmitImage \/ ReadBack \/ GetUploadedImageUrl
    \/ \E answer \in Answers : Receive(answer)

Next ==
    \/ \E p \in Posts, paths \in Paths : Take(p, paths)
    \/ \E s \in procs : ProcessStep(s)
    \/ RenderStep \/ PublishStep
    \/ \E r \in inflight : Accept(r) \/ Refuse(r)
    \/ Fails \/ Report
    \/ Restart

\* Only the timer of the submission and the lock for its report are relied on:
\* neither subprocesses nor Reddit need ever answer.
Spec == Init /\ [][Next]_vars /\ WF_vars(Fails) /\ WF_vars(Report)

----------------------------------------------------------------------------
(* Properties *)

\* The picture and the text of a success are those of its post, whatever the
\* subprocesses do and in whatever order they end; the exception is a submission
\* that began while a subprocess of an earlier one was still running
\* (screenshot.rs:33-87, readermode_screenshot.py:67-70).
PictureIsOfPost ==
    \A p \in Posts \ disturbed :
        outcome[p] = "success" => shown[p] = {p} /\ text[p] = {p}

\* Such a subprocess is left over by a submission that failed, never by one that
\* succeeded: while nothing fails, every picture is right (screenshot.rs:48-82).
StrayMeansFailure ==
    \A s \in procs : s.of = current \/ outcome[s.of] = "failure"

\* A success was posted, though submit_image only logs it when Reddit says it
\* may not have been (reddit.rs:686-695).
SuccessIsPosted == \A p \in Posts : outcome[p] = "success" => posted[p] > 0

\* A post gets one picture each time it is taken at most: a failure that comes
\* after the picture was posted is not repaired by posting it again
\* (screenshot.rs:109-110, screenshot.rs:179-193).
PostedOncePerTake == \A p \in Posts : posted[p] <= begun[p]

\* The submissions are what the rest of the service takes them for: they end, and
\* nothing with an outcome is submitted again (screenshot.rs:126-195).
Job == INSTANCE Submission
Submits == Job!Spec

============================================================================
