------------------------- MODULE ScreenshotJobProofs -------------------------
(***************************************************************************)
(* Theorems about ScreenshotJob, for every set of posts and of numbers.    *)
(*                                                                         *)
(* All of them rest on what can still be under way for a post: at most one *)
(* subprocess and one request, of the submission that waits for them or of *)
(* one that has failed.                                                    *)
(***************************************************************************)
EXTENDS ScreenshotJob, FiniteSetTheorems, TLAPS

\* Where a submission is.
PhaseInv ==
    /\ current = NoPost <=> stage = "idle"
    /\ current # NoPost => outcome[current] = "none"
    /\ stage = "report" => result \in {"success", "failure"}
    /\ stage \notin {"submit", "lookup", "report"} => sent = {}

HasFailed == stage = "report" /\ result = "failure"

\* A subprocess is the one the submission waits for, or left over by a failure.
ProcInv ==
    /\ \A s \in procs :
           \/ outcome[s.of] = "failure"
           \/ s.of = current /\ (s.tool = stage \/ HasFailed)
    /\ \A s, t \in procs : s.of = t.of => s = t
    /\ \A s \in procs : s.open # NoFile => s.todo # <<>>

\* So is a request: Reddit has not answered it yet.
FlightInv ==
    /\ \A r \in inflight :
           \/ outcome[r.of] = "failure"
           \/ r.of = current /\ ((stage = "submit" /\ sent = {}) \/ HasFailed)
    /\ \A r, s \in inflight : r.of = s.of => r = s

\* A post that is still going to be posted, by the submission or by Reddit alone.
IsPending(p) ==
    \/ \E r \in inflight : r.of = p
    \/ current = p /\ stage \in {"python", "convert", "rendered", "uploaded"}

Arrived ==
    \/ stage = "submit" /\ "redirect" \in sent
    \/ stage = "lookup"
    \/ stage = "report" /\ result = "success"

CountInv ==
    /\ \A p \in Posts : posted[p] <= begun[p] /\ (IsPending(p) => posted[p] < begun[p])
    /\ Arrived => posted[current] > 0
    /\ SuccessIsPosted

\* A submission that began without other subprocesses has nothing of another post.
CleanInv ==
    current # NoPost /\ current \notin disturbed /\ ~HasFailed =>
        /\ \A s \in procs : s.of = current /\ s.page \subseteq {current}
        /\ stage \in {"python", "convert", "rendered"} =>
               \A k \in Kinds : content[k] \subseteq {current}
        /\ stage = "rendered" => content["index"] = {current}
        /\ stage \notin {"python", "convert"} => text[current] = {current}
        /\ stage = "uploaded" => picture = {current}
        /\ \A r \in inflight : r.of = current => r.picture = {current}
        /\ Arrived => shown[current] = {current}

IInv ==
    /\ TypeOK /\ PhaseInv /\ ProcInv /\ FlightInv /\ CountInv /\ CleanInv
    /\ PictureIsOfPost

(***************************************************************************)
(* Types                                                                   *)
(***************************************************************************)

LEMMA InitInv == Init => IInv
  <1> SUFFICES ASSUME Init PROVE IInv
    OBVIOUS
  <1>1. TypeOK
    BY DEF Init, TypeOK, Stages, NoFds, Answers
  <1>2. PhaseInv /\ ProcInv /\ FlightInv /\ CleanInv
    BY DEF Init, PhaseInv, ProcInv, FlightInv, CleanInv
  <1>3. CountInv /\ PictureIsOfPost
    BY DEF Init, CountInv, IsPending, Arrived, SuccessIsPosted, PictureIsOfPost
  <1> QED  BY <1>1, <1>2, <1>3 DEF IInv

LEMMA Tools ==
    ASSUME NEW p \in Posts, NEW paths \in [Kinds -> Fds]
    PROVE  Python(p, paths) \in Process /\ Convert(p, paths) \in Process
  BY DEF Python, Convert, Process, NoFile

\* What a subprocess does to itself.
LEMMA ProcessType ==
    ASSUME NEW s \in Process
    PROVE  /\ \A page \in SUBSET Posts : [s EXCEPT !.page = page] \in Process
           /\ \A k \in Kinds \cup {"gone"} : [s EXCEPT !.open = k] \in Process
           /\ s.todo # <<>> => /\ [s EXCEPT !.open = NoFile, !.todo = Tail(@)] \in Process
                               /\ Head(s.todo) \in Kinds
           /\ s.of \in Posts /\ s.page \in SUBSET Posts /\ s.paths \in [Kinds -> Fds]
  <1>1. s.todo \in {<<"text", "png">>, <<"png">>, <<"index">>, <<>>}
    BY DEF Process
  <1>2. s.todo # <<>> => /\ Tail(s.todo) \in {<<"text", "png">>, <<"png">>, <<"index">>, <<>>}
                         /\ Head(s.todo) \in Kinds
    <2>1. CASE s.todo = <<"text", "png">>
      BY <2>1 DEF Kinds
    <2>2. CASE s.todo = <<"png">>
      BY <2>2 DEF Kinds
    <2>3. CASE s.todo = <<"index">>
      BY <2>3 DEF Kinds
    <2> QED  BY <1>1, <2>1, <2>2, <2>3
  <1> QED  BY <1>1, <1>2 DEF Process, NoFile

\* Subprocesses and requests for a post are one at most.
LEMMA FewFlights ==
    ASSUME IInv, NEW done \in SUBSET inflight, NEW p \in Posts
    PROVE  /\ Cardinality({r \in done : r.of = p})
                  = IF \E r \in done : r.of = p THEN 1 ELSE 0
           /\ (\E r \in done : r.of = p) => (CHOOSE r \in done : r.of = p).picture \subseteq Posts
  <1>1. CASE \E r \in done : r.of = p
    <2>1. PICK r \in done : r.of = p
      BY <1>1
    <2>2. {s \in done : s.of = p} = {r}
      BY <2>1 DEF IInv, FlightInv
    <2>3. (CHOOSE s \in done : s.of = p) \in inflight
      BY <2>1
    <2> QED  BY <1>1, <2>2, <2>3, FS_Singleton DEF IInv, TypeOK
  <1>2. CASE ~ \E r \in done : r.of = p
    <2>1. {r \in done : r.of = p} = {}
      BY <1>2
    <2> QED  BY <1>2, <2>1, FS_EmptySet
  <1> QED  BY <1>1, <1>2

LEMMA ProcessStepType ==
    ASSUME IInv, NEW s \in procs, ProcessStep(s)
    PROVE  TypeOK'
  <1>1. s \in Process /\ (s.open # NoFile => s.todo # <<>>)
        /\ \A k \in Kinds : content[k] \in SUBSET Posts
    BY DEF IInv, TypeOK, ProcInv
  <1>2. CASE ReadInput(s)
    <2>1. procs' \subseteq Process
      BY <1>1, <1>2, ProcessType DEF ReadInput, Replace, IInv, TypeOK
    <2> QED  BY <1>2, <2>1 DEF ReadInput, IInv, TypeOK, fileVars, redditVars, history
  <1>3. CASE OpenFile(s)
    <2>1. procs' \subseteq Process
      <3>1. PICK k \in Kinds : procs' = (procs \ {s}) \cup {[s EXCEPT !.open = k]}
        BY <1>3 DEF OpenFile, Replace
      <3>2. [s EXCEPT !.open = k] \in Process
        BY <1>1, ProcessType
      <3> QED  BY <3>1, <3>2 DEF IInv, TypeOK
    <2>2. content' \in [Kinds -> SUBSET Posts]
      BY <1>3 DEF OpenFile, IInv, TypeOK
    <2> QED  BY <1>3, <2>1, <2>2 DEF OpenFile, IInv, TypeOK, redditVars, history
  <1>4. CASE WriteFile(s)
    <2>1. procs' \subseteq Process
      BY <1>1, <1>4, ProcessType DEF WriteFile, Replace, IInv, TypeOK
    <2>2. content' \in [Kinds -> SUBSET Posts]
      BY <1>1, <1>4, ProcessType DEF WriteFile, IInv, TypeOK
    <2> QED  BY <1>4, <2>1, <2>2 DEF WriteFile, IInv, TypeOK, redditVars, history
  <1>5. CASE StrayEnds(s)
    BY <1>5 DEF StrayEnds, IInv, TypeOK, fileVars, redditVars, history
  <1> QED  BY <1>2, <1>3, <1>4, <1>5 DEF ProcessStep

\* A submission is at a post.
LEMMA AtPost == IInv /\ stage # "idle" => current \in Posts /\ outcome[current] = "none"
  BY DEF IInv, TypeOK, PhaseInv

LEMMA RenderType ==
    ASSUME IInv
    PROVE  /\ \A p \in Posts, paths \in Paths : Take(p, paths) => TypeOK'
           /\ RenderStep => TypeOK'
  <1>1. ASSUME NEW p \in Posts, NEW paths \in Paths, Take(p, paths) PROVE TypeOK'
    <2>1. paths \in [Kinds -> Fds]
      BY DEF Paths
    <2>2. procs' \subseteq Process
      <3>1. ASSUME NEW s \in procs
            PROVE  [s EXCEPT !.open = IF @ = NoFile THEN @ ELSE "gone"] \in Process
        <4>1. s \in Process
          BY DEF IInv, TypeOK
        <4>2. CASE s.open = NoFile
          <5>1. [s EXCEPT !.open = NoFile] = s
            BY <4>1, <4>2 DEF Process
          <5> QED  BY <4>1, <4>2, <5>1
        <4>3. CASE s.open # NoFile
          BY <4>1, <4>3, ProcessType
        <4> QED  BY <4>2, <4>3
      <3> QED  BY <1>1, <2>1, <3>1, Tools DEF Take
    <2>3. begun' \in [Posts -> Nat] /\ disturbed' \subseteq Posts
      BY <1>1 DEF Take, IInv, TypeOK
    <2>4. fd' \in [Kinds -> Fds \cup {Closed}] /\ content' \in [Kinds -> SUBSET Posts]
          /\ stage' \in Stages
      BY <1>1, <2>1 DEF Take, Stages
    <2> QED
      BY <1>1, <2>2, <2>3, <2>4 DEF Take, IInv, TypeOK, redditVars
  <1>2. ASSUME NEW s \in procs, PythonEnds(s) PROVE TypeOK'
    <2>1. s.paths \in [Kinds -> Fds] /\ current \in Posts
      BY <1>2, ProcessType, AtPost DEF PythonEnds, Awaited, IInv, TypeOK
    <2>2. procs' \subseteq Process
      BY <1>2, <2>1, Tools DEF PythonEnds, IInv, TypeOK
    <2> QED  BY <1>2, <2>2 DEF PythonEnds, IInv, TypeOK, fileVars, redditVars, history, Stages
  <1>3. ASSUME NEW s \in procs, ConvertEnds(s) PROVE TypeOK'
    <2>1. text' \in [Posts -> SUBSET Posts] /\ fd' \in [Kinds -> Fds \cup {Closed}]
      BY <1>3 DEF ConvertEnds, IInv, TypeOK, Kinds, NoFds
    <2> QED  BY <1>3, <2>1 DEF ConvertEnds, IInv, TypeOK, redditVars, history, Stages
  <1>4. ASSUME FetchTitle PROVE TypeOK'
    BY <1>4 DEF FetchTitle, IInv, TypeOK, fileVars, redditVars, history
  <1> QED  BY <1>1, <1>2, <1>3, <1>4 DEF RenderStep

LEMMA PublishType ==
    ASSUME IInv
    PROVE  /\ PublishStep => TypeOK'
           /\ \A r \in inflight : Accept(r) \/ Refuse(r) => TypeOK'
  <1>1. ASSUME Upload PROVE TypeOK'
    BY <1>1 DEF Upload, IInv, TypeOK, fileVars, redditVars, history, Stages, Kinds
  <1>2. ASSUME SubmitImage PROVE TypeOK'
    <2>1. current \in Posts
      BY <1>2, AtPost DEF SubmitImage
    <2>2. inflight' \subseteq [of : Posts, picture : SUBSET Posts]
      BY <1>2, <2>1 DEF SubmitImage, IInv, TypeOK
    <2> QED  BY <1>2, <2>2 DEF SubmitImage, IInv, TypeOK, fileVars, history, Stages
  <1>3. ASSUME ReadBack \/ GetUploadedImageUrl PROVE TypeOK'
    BY <1>3 DEF ReadBack, GetUploadedImageUrl, IInv, TypeOK, fileVars, redditVars, history, Stages
  <1>4. ASSUME NEW answer \in Answers, Receive(answer) PROVE TypeOK'
    BY <1>4 DEF Receive, IInv, TypeOK, fileVars, redditVars, history
  <1>5. ASSUME NEW r \in inflight, Accept(r) PROVE TypeOK'
    <2>1. r.of \in Posts /\ r.picture \in SUBSET Posts
      BY DEF IInv, TypeOK
    <2>2. posted' \in [Posts -> Nat] /\ shown' \in [Posts -> SUBSET Posts]
      BY <1>5, <2>1 DEF Accept, IInv, TypeOK
    <2>3. inflight' \subseteq [of : Posts, picture : SUBSET Posts]
      BY <1>5 DEF Accept, IInv, TypeOK
    <2>4. sent' \subseteq Answers /\ got' \subseteq sent'
      BY <1>5 DEF Accept, IInv, TypeOK
    <2> QED  BY <1>5, <2>2, <2>3, <2>4 DEF Accept, IInv, TypeOK, fileVars, history
  <1>6. ASSUME NEW r \in inflight, Refuse(r) PROVE TypeOK'
    <2>1. IsAsked(r) => sent = {}
      <3> SUFFICES ASSUME IsAsked(r) PROVE sent = {}
        OBVIOUS
      <3>1. outcome[r.of] # "failure" /\ ~HasFailed
        BY AtPost DEF IsAsked, HasFailed
      <3> QED  BY <3>1 DEF IInv, FlightInv
    <2>2. sent' \subseteq Answers /\ got' \subseteq sent'
      BY <1>6, <2>1 DEF Refuse, IInv, TypeOK, Answers
    <2>3. inflight' \subseteq [of : Posts, picture : SUBSET Posts]
      BY <1>6 DEF Refuse, IInv, TypeOK
    <2> QED  BY <1>6, <2>2, <2>3 DEF Refuse, IInv, TypeOK, fileVars, history
  <1> QED  BY <1>1, <1>2, <1>3, <1>4, <1>5, <1>6 DEF PublishStep

LEMMA EndType ==
    ASSUME IInv
    PROVE  Fails \/ Report \/ Restart => TypeOK'
  <1>1. ASSUME Fails PROVE TypeOK'
    BY <1>1 DEF Fails, IInv, TypeOK, redditVars, history, Stages, NoFds
  <1>2. Idle => /\ current' \in Posts \cup {NoPost} /\ stage' \in Stages
                /\ title' \in {"none", "asked", "known"}
                /\ fd' \in [Kinds -> Fds \cup {Closed}] /\ content' \in [Kinds -> SUBSET Posts]
                /\ sent' \subseteq Answers /\ got' \subseteq sent'
                /\ result' \in {"none", "success", "failure"} /\ picture' \in SUBSET Posts
    BY DEF Idle, Stages, NoFds
  <1>3. ASSUME Report PROVE TypeOK'
    <2>1. outcome' \in [Posts -> {"none", "success", "failure"}]
      BY <1>3 DEF Report, IInv, TypeOK
    <2> QED  BY <1>2, <1>3, <2>1 DEF Report, IInv, TypeOK, history
  <1>4. ASSUME Restart PROVE TypeOK'
    <2>1. outcome' \in [Posts -> {"none", "success", "failure"}]
      BY <1>4 DEF Restart, IInv, TypeOK
    <2>2. posted' \in [Posts -> Nat] /\ shown' \in [Posts -> SUBSET Posts]
      <3>1. PICK done \in SUBSET inflight :
              /\ posted' = [p \in Posts |-> posted[p] + Cardinality({r \in done : r.of = p})]
              /\ shown' = [p \in Posts |-> IF \E r \in done : r.of = p
                                           THEN (CHOOSE r \in done : r.of = p).picture
                                           ELSE shown[p]]
        BY <1>4 DEF Restart
      <3>2. \A p \in Posts : posted[p] \in Nat /\ shown[p] \in SUBSET Posts
        BY DEF IInv, TypeOK
      <3>3. ASSUME NEW p \in Posts
            PROVE  /\ posted[p] + Cardinality({r \in done : r.of = p}) \in Nat
                   /\ (IF \E r \in done : r.of = p THEN (CHOOSE r \in done : r.of = p).picture
                       ELSE shown[p]) \in SUBSET Posts
        <4>1. Cardinality({r \in done : r.of = p}) \in {0, 1}
          BY FewFlights
        <4>2. (\E r \in done : r.of = p) => (CHOOSE r \in done : r.of = p).picture \subseteq Posts
          BY FewFlights
        <4>3. posted[p] + Cardinality({r \in done : r.of = p}) \in Nat
          <5> DEFINE n == Cardinality({r \in done : r.of = p})
          <5>1. n \in {0, 1}
            BY <4>1
          <5> HIDE DEF n
          <5>2. posted[p] + n \in Nat
            BY <3>2, <5>1
          <5> QED  BY <5>2 DEF n
        <4>4. CASE \E r \in done : r.of = p
          BY <4>2, <4>3, <4>4
        <4>5. CASE ~ \E r \in done : r.of = p
          BY <3>2, <4>3, <4>5
        <4> QED  BY <4>4, <4>5
      <3> QED  BY <3>1, <3>3
    <2> QED  BY <1>2, <1>4, <2>1, <2>2 DEF Restart, IInv, TypeOK, history
  <1> QED  BY <1>1, <1>3, <1>4

LEMMA NextType == IInv /\ [Next]_vars => TypeOK'
  <1> SUFFICES ASSUME IInv, [Next]_vars PROVE TypeOK'
    OBVIOUS
  <1>1. CASE UNCHANGED vars
    BY <1>1 DEF vars, IInv, TypeOK, fileVars, redditVars, history
  <1> QED
    BY <1>1, ProcessStepType, RenderType, PublishType, EndType DEF Next

(***************************************************************************)
(* Submissions, subprocesses and requests                                  *)
(***************************************************************************)

LEMMA NextPhase == IInv /\ [Next]_vars => PhaseInv'
  <1> SUFFICES ASSUME IInv, [Next]_vars PROVE PhaseInv'
    OBVIOUS
  <1> USE DEF IInv, PhaseInv, TypeOK
  <1>1. ASSUME UNCHANGED <<current, stage, outcome, result, sent>> PROVE PhaseInv'
    BY <1>1
  <1>2. ASSUME NEW p \in Posts, NEW paths \in Paths, Take(p, paths) PROVE PhaseInv'
    BY <1>2, PostsAssumption DEF Take, MayTake, redditVars
  <1>3. ASSUME NEW s \in procs, ProcessStep(s) PROVE PhaseInv'
    BY <1>1, <1>3 DEF ProcessStep, ReadInput, OpenFile, WriteFile, StrayEnds, redditVars
  <1>4. ASSUME RenderStep PROVE PhaseInv'
    BY <1>1, <1>4
       DEF RenderStep, PythonEnds, Awaited, ConvertEnds, FetchTitle, redditVars
  <1>5. ASSUME PublishStep PROVE PhaseInv'
    BY <1>1, <1>5
       DEF PublishStep, Upload, SubmitImage, ReadBack, GetUploadedImageUrl, Receive, redditVars
  <1>6. ASSUME NEW r \in inflight, Accept(r) \/ Refuse(r) PROVE PhaseInv'
    BY <1>6 DEF Accept, Refuse, IsAsked
  <1>7. ASSUME Fails PROVE PhaseInv'
    BY <1>7 DEF Fails, redditVars
  <1>8. ASSUME Report \/ Restart PROVE PhaseInv'
    BY <1>8 DEF Report, Restart, Idle
  <1>9. CASE UNCHANGED vars
    BY <1>1, <1>9 DEF vars, redditVars
  <1> QED  BY <1>2, <1>3, <1>4, <1>5, <1>6, <1>7, <1>8, <1>9 DEF Next

\* One subprocess becomes another one of the same post.
LEMMA ReplaceProc ==
    ASSUME ProcInv, NEW s \in procs, NEW t, t.of = s.of, t.tool = s.tool,
           t.open # NoFile => t.todo # <<>>, Replace(s, t),
           UNCHANGED <<current, stage, outcome, result>>
    PROVE  ProcInv'
  <1>1. procs' = (procs \ {s}) \cup {t}
    BY DEF Replace
  <1>2. \A u \in procs' : \/ outcome'[u.of] = "failure"
                          \/ u.of = current' /\ (u.tool = stage' \/ HasFailed')
    BY <1>1 DEF ProcInv, HasFailed
  <1>3. \A u, v \in procs' : u.of = v.of => u = v
    BY <1>1 DEF ProcInv
  <1>4. \A u \in procs' : u.open # NoFile => u.todo # <<>>
    BY <1>1 DEF ProcInv
  <1> QED  BY <1>2, <1>3, <1>4 DEF ProcInv

\* Steps that start or end no subprocess.
LEMMA SameProcs ==
    ASSUME ProcInv, procs' \subseteq procs, outcome' = outcome, current' = current,
           \A s \in procs : s.of = current /\ s.tool = stage => s.tool = stage' \/ HasFailed',
           HasFailed => HasFailed'
    PROVE  ProcInv'
  BY DEF ProcInv

LEMMA ProcessStepProcs ==
    ASSUME IInv, NEW s \in procs, ProcessStep(s)
    PROVE  ProcInv'
  <1>1. s \in Process /\ ProcInv
    BY DEF IInv, TypeOK
  <1>2. CASE ReadInput(s)
    <2>1. PICK k \in Kinds : Replace(s, [s EXCEPT !.page = content[k]])
      BY <1>2 DEF ReadInput
    <2> DEFINE t == [s EXCEPT !.page = content[k]]
    <2>2. t.of = s.of /\ t.tool = s.tool /\ t.open = s.open /\ t.todo = s.todo
      BY <1>1 DEF Process
    <2>3. UNCHANGED <<current, stage, outcome, result>>
      BY <1>2 DEF ReadInput
    <2> HIDE DEF t
    <2> QED  BY <1>1, <2>1, <2>2, <2>3, ReplaceProc DEF ProcInv, t
  <1>3. CASE OpenFile(s)
    <2>1. PICK k \in Kinds : Replace(s, [s EXCEPT !.open = k])
      BY <1>3 DEF OpenFile
    <2>2. [s EXCEPT !.open = k].of = s.of /\ [s EXCEPT !.open = k].tool = s.tool
          /\ [s EXCEPT !.open = k].todo = s.todo /\ s.todo # <<>>
      BY <1>1, <1>3 DEF Process, OpenFile
    <2>3. UNCHANGED <<current, stage, outcome, result>>
      BY <1>3 DEF OpenFile
    <2> QED  BY <1>1, <2>1, <2>2, <2>3, ReplaceProc
  <1>4. CASE WriteFile(s)
    <2> DEFINE t == [s EXCEPT !.open = NoFile, !.todo = Tail(@)]
    <2>1. t.of = s.of /\ t.tool = s.tool /\ t.open = NoFile
      BY <1>1 DEF Process
    <2>2. Replace(s, t) /\ UNCHANGED <<current, stage, outcome, result>>
      BY <1>4 DEF WriteFile
    <2> HIDE DEF t
    <2> QED  BY <1>1, <2>1, <2>2, ReplaceProc
  <1>5. CASE StrayEnds(s)
    BY <1>1, <1>5, SameProcs DEF StrayEnds, HasFailed
  <1> QED  BY <1>2, <1>3, <1>4, <1>5 DEF ProcessStep

\* A post that may be taken has left nothing behind.
LEMMA Untouched ==
    ASSUME IInv, NEW p \in Posts, stage = "idle", MayTake(p)
    PROVE  /\ \A s \in procs : s.of # p
           /\ \A r \in inflight : r.of # p
           /\ current = NoPost /\ sent = {}
  BY PostsAssumption DEF IInv, PhaseInv, ProcInv, FlightInv, MayTake, HasFailed, TypeOK

LEMMA TakeProcs ==
    ASSUME IInv, NEW p \in Posts, NEW paths \in Paths, Take(p, paths)
    PROVE  ProcInv'
  <1> DEFINE gone(s) == [s EXCEPT !.open = IF @ = NoFile THEN @ ELSE "gone"]
             new == Python(p, paths)
  <1>1. /\ \A s \in procs : s.of # p
        /\ current = NoPost /\ stage = "idle"
    BY Untouched DEF Take
  <1>2. \A s \in procs : /\ gone(s).of = s.of /\ gone(s).todo = s.todo
                         /\ gone(s).open # NoFile => s.open # NoFile
    BY DEF IInv, TypeOK, Process
  <1>3. new.of = p /\ new.tool = "python" /\ new.open = NoFile
    BY DEF Python
  <1>4. /\ procs' = {gone(s) : s \in procs} \cup {new}
        /\ current' = p /\ stage' = "python" /\ outcome' = outcome
    BY DEF Take
  <1> HIDE DEF gone, new
  <1>5. \A s \in procs : outcome[s.of] = "failure"
    BY <1>1, PostsAssumption DEF IInv, TypeOK, Process, ProcInv
  <1>6. \A t \in procs' : outcome'[t.of] = "failure" \/ (t.of = current' /\ t.tool = stage')
    BY <1>2, <1>3, <1>4, <1>5
  <1>7. \A t, u \in procs' : t.of = u.of => t = u
    BY <1>1, <1>2, <1>3, <1>4 DEF IInv, ProcInv
  <1>8. \A t \in procs' : t.open # NoFile => t.todo # <<>>
    BY <1>2, <1>3, <1>4 DEF IInv, ProcInv
  <1> QED  BY <1>6, <1>7, <1>8 DEF ProcInv

LEMMA NextProcs == IInv /\ [Next]_vars => ProcInv'
  <1> SUFFICES ASSUME IInv, [Next]_vars PROVE ProcInv'
    OBVIOUS
  <1>0. ProcInv /\ PhaseInv /\ \A s \in procs : s.tool \in {"python", "convert"} /\ s.of \in Posts
    BY DEF IInv, TypeOK, Process
  <1>1. ASSUME UNCHANGED <<procs, current, stage, outcome, result>> PROVE ProcInv'
    BY <1>0, <1>1 DEF ProcInv, HasFailed
  <1>2. ASSUME NEW s \in procs, PythonEnds(s) PROVE ProcInv'
    <2> DEFINE t == Convert(current, s.paths)
    <2>1. /\ procs' = (procs \ {s}) \cup {t} /\ stage' = "convert" /\ stage = "python"
          /\ s.of = current /\ UNCHANGED <<current, outcome, result>>
      BY <1>2 DEF PythonEnds, Awaited
    <2>2. t.of = current /\ t.tool = "convert" /\ t.open = NoFile
      BY DEF Convert
    <2> HIDE DEF t
    <2>3. \A u \in procs' : \/ outcome'[u.of] = "failure"
                            \/ u.of = current' /\ (u.tool = stage' \/ HasFailed')
      BY <1>0, <2>1, <2>2 DEF ProcInv, HasFailed
    <2>4. \A u, v \in procs' : u.of = v.of => u = v
      BY <1>0, <2>1, <2>2 DEF ProcInv
    <2>5. \A u \in procs' : u.open # NoFile => u.todo # <<>>
      BY <1>0, <2>1, <2>2 DEF ProcInv
    <2> QED  BY <2>3, <2>4, <2>5 DEF ProcInv
  <1>3. ASSUME NEW s \in procs, ConvertEnds(s) PROVE ProcInv'
    <2>1. /\ procs' = procs \ {s} /\ s.of = current /\ stage = "convert"
          /\ UNCHANGED <<current, outcome>>
      BY <1>3 DEF ConvertEnds, Awaited
    <2> QED  BY <1>0, <2>1 DEF ProcInv, HasFailed
  <1>4. ASSUME FetchTitle PROVE ProcInv'
    BY <1>1, <1>4 DEF FetchTitle
  <1>5. ASSUME PublishStep PROVE ProcInv'
    BY <1>0, <1>1, <1>5, SameProcs
       DEF PublishStep, Upload, SubmitImage, ReadBack, GetUploadedImageUrl, Receive, HasFailed
  <1>6. ASSUME NEW r \in inflight, Accept(r) \/ Refuse(r) PROVE ProcInv'
    BY <1>1, <1>6 DEF Accept, Refuse
  <1>7. ASSUME Fails PROVE ProcInv'
    BY <1>0, <1>7, SameProcs DEF Fails, HasFailed
  <1>8. ASSUME Report PROVE ProcInv'
    <2>1. /\ outcome' = [outcome EXCEPT ![current] = result] /\ procs' = procs
          /\ stage = "report" /\ current \in Posts
      BY <1>8, AtPost DEF Report
    <2>2. ASSUME NEW s \in procs PROVE outcome'[s.of] = "failure"
      <3>1. s.of \in Posts /\ s.tool # "report" /\ outcome[current] = "none"
        BY <1>0, <2>1, AtPost
      <3>2. CASE outcome[s.of] = "failure"
        BY <2>1, <3>1, <3>2 DEF IInv, TypeOK
      <3>3. CASE s.of = current /\ (s.tool = stage \/ HasFailed)
        BY <2>1, <3>1, <3>3 DEF IInv, TypeOK, HasFailed
      <3> QED  BY <1>0, <3>2, <3>3 DEF ProcInv
    <2> QED  BY <1>0, <2>1, <2>2 DEF ProcInv
  <1>9. ASSUME Restart PROVE ProcInv'
    BY <1>9 DEF Restart, ProcInv
  <1>10. CASE UNCHANGED vars
    BY <1>1, <1>10 DEF vars
  <1> QED
    BY <1>2, <1>3, <1>4, <1>5, <1>6, <1>7, <1>8, <1>9, <1>10, TakeProcs, ProcessStepProcs
       DEF Next, RenderStep


\* Steps that add no request, and answer none.
LEMMA SameFlights ==
    ASSUME FlightInv, inflight' \subseteq inflight, outcome' = outcome, current' = current,
           HasFailed => HasFailed',
           \A r \in inflight' : r.of = current /\ stage = "submit" /\ sent = {} =>
               (stage' = "submit" /\ sent' = {}) \/ HasFailed'
    PROVE  FlightInv'
  BY DEF FlightInv

LEMMA NextFlight == IInv /\ [Next]_vars => FlightInv'
  <1> SUFFICES ASSUME IInv, [Next]_vars PROVE FlightInv'
    OBVIOUS
  <1>0. FlightInv /\ \A r \in inflight : r.of \in Posts
    BY DEF IInv, TypeOK
  <1>1. ASSUME UNCHANGED <<inflight, sent, current, stage, outcome, result>> PROVE FlightInv'
    BY <1>0, <1>1 DEF FlightInv, HasFailed
  <1>2. ASSUME NEW p \in Posts, NEW paths \in Paths, Take(p, paths) PROVE FlightInv'
    <2>1. \A r \in inflight : outcome[r.of] = "failure"
      BY <1>0, <1>2, Untouched, PostsAssumption DEF Take, FlightInv
    <2> QED  BY <1>0, <1>2, <2>1 DEF Take, redditVars, FlightInv
  <1>3. ASSUME NEW s \in procs, ProcessStep(s) PROVE FlightInv'
    BY <1>1, <1>3 DEF ProcessStep, ReadInput, OpenFile, WriteFile, StrayEnds, redditVars
  <1>4. ASSUME RenderStep PROVE FlightInv'
    BY <1>0, <1>4, SameFlights
       DEF RenderStep, PythonEnds, Awaited, ConvertEnds, FetchTitle, redditVars, HasFailed, IInv,
           TypeOK, Process
  <1>5. ASSUME SubmitImage PROVE FlightInv'
    <2> DEFINE new == [of |-> current, picture |-> picture]
    <2>1. /\ stage = "uploaded" /\ stage' = "submit" /\ sent = {} /\ ~HasFailed
          /\ inflight' = inflight \cup {new} /\ new.of = current
          /\ UNCHANGED <<current, outcome, sent>>
      BY <1>5 DEF SubmitImage, IInv, PhaseInv, HasFailed
    <2>2. outcome[current] = "none"
      BY <1>5, AtPost DEF SubmitImage
    <2> HIDE DEF new
    <2>3. \A r \in inflight : r.of # current /\ outcome[r.of] = "failure"
      BY <1>0, <2>1, <2>2 DEF FlightInv
    <2>4. \A r \in inflight' : \/ outcome'[r.of] = "failure"
                               \/ r.of = current' /\ stage' = "submit" /\ sent' = {}
      BY <2>1, <2>3
    <2>5. \A r, t \in inflight' : r.of = t.of => r = t
      BY <1>0, <2>1, <2>3 DEF FlightInv
    <2> QED  BY <2>4, <2>5 DEF FlightInv
  <1>6. ASSUME Upload \/ GetUploadedImageUrl PROVE FlightInv'
    BY <1>0, <1>6, SameFlights DEF Upload, GetUploadedImageUrl, redditVars, HasFailed
  <1>7. ASSUME NEW answer \in Answers, Receive(answer) PROVE FlightInv'
    BY <1>1, <1>7 DEF Receive, redditVars
  <1>8. ASSUME ReadBack PROVE FlightInv'
    <2>1. sent # {}
      BY <1>8 DEF ReadBack, Joined, Answers, IInv, TypeOK
    <2> QED  BY <1>0, <1>8, <2>1, SameFlights DEF ReadBack, redditVars, HasFailed
  <1>9. ASSUME NEW r \in inflight, Accept(r) \/ Refuse(r) PROVE FlightInv'
    <2>1. /\ inflight' = inflight \ {r} /\ UNCHANGED <<current, stage, outcome, result>>
          /\ ~IsAsked(r) => sent' = sent
      BY <1>9 DEF Accept, Refuse
    <2>2. \A t \in inflight' : t.of = current /\ stage = "submit" => ~IsAsked(r)
      BY <1>0, <2>1 DEF FlightInv, IsAsked
    <2> QED  BY <1>0, <2>1, <2>2, SameFlights DEF HasFailed
  <1>10. ASSUME Fails PROVE FlightInv'
    BY <1>0, <1>10, SameFlights DEF Fails, HasFailed, redditVars
  <1>11. ASSUME Report PROVE FlightInv'
    <2>1. /\ outcome' = [outcome EXCEPT ![current] = result] /\ inflight' = inflight
          /\ stage = "report" /\ current \in Posts
      BY <1>11, AtPost DEF Report
    <2>2. ASSUME NEW r \in inflight PROVE outcome'[r.of] = "failure"
      <3>1. r.of \in Posts /\ outcome[current] = "none"
        BY <1>0, <2>1, AtPost
      <3>2. CASE outcome[r.of] = "failure"
        BY <2>1, <3>1, <3>2 DEF IInv, TypeOK
      <3>3. CASE r.of = current /\ HasFailed
        BY <2>1, <3>1, <3>3 DEF IInv, TypeOK, HasFailed
      <3> QED  BY <1>0, <2>1, <3>2, <3>3 DEF FlightInv
    <2> QED  BY <1>0, <2>1, <2>2 DEF FlightInv
  <1>12. ASSUME Restart PROVE FlightInv'
    BY <1>12 DEF Restart, FlightInv
  <1>13. CASE UNCHANGED vars
    BY <1>1, <1>13 DEF vars, redditVars
  <1> QED
    BY <1>2, <1>3, <1>4, <1>5, <1>6, <1>7, <1>8, <1>9, <1>10, <1>11, <1>12, <1>13
       DEF Next, PublishStep


(***************************************************************************)
(* Pictures that are posted                                                *)
(***************************************************************************)

\* Steps after which no more is pending, and none of it is posted.
LEMMA SameCounts ==
    ASSUME CountInv, UNCHANGED <<posted, begun, outcome>>,
           \A p \in Posts : IsPending(p)' => IsPending(p),
           Arrived' => Arrived /\ current' = current
    PROVE  CountInv'
  <1>1. Arrived' => posted'[current'] > 0
    BY DEF CountInv
  <1>2. SuccessIsPosted'
    BY DEF CountInv, SuccessIsPosted
  <1>3. \A p \in Posts : posted'[p] <= begun'[p] /\ (IsPending(p)' => posted'[p] < begun'[p])
    BY DEF CountInv
  <1> QED  BY <1>1, <1>2, <1>3 DEF CountInv

LEMMA PublishCount ==
    ASSUME IInv, PublishStep
    PROVE  CountInv'
  <1>1. CASE Upload
    BY <1>1, SameCounts DEF Upload, IInv, IsPending, Arrived, redditVars, history
  <1>2. CASE SubmitImage
    <2>1. sent' = {} /\ stage' = "submit" /\ stage = "uploaded" /\ current' = current
          /\ inflight' = inflight \cup {[of |-> current, picture |-> picture]}
      BY <1>2 DEF SubmitImage, IInv, PhaseInv
    <2>2. \A p \in Posts : IsPending(p)' => IsPending(p)
      BY <2>1 DEF IsPending
    <2>3. ~Arrived'
      BY <2>1 DEF Arrived
    <2> QED  BY <1>2, <2>2, <2>3, SameCounts DEF SubmitImage, IInv, history
  <1>3. CASE ReadBack
    <2>1. "redirect" \in sent
      BY <1>3 DEF ReadBack, Joined, Answers, IInv, TypeOK
    <2> QED  BY <1>3, <2>1, SameCounts DEF ReadBack, IInv, IsPending, Arrived, redditVars, history
  <1>4. CASE GetUploadedImageUrl
    BY <1>4, SameCounts DEF GetUploadedImageUrl, IInv, IsPending, Arrived, redditVars, history
  <1>5. ASSUME NEW answer \in Answers, Receive(answer) PROVE CountInv'
    BY <1>5, SameCounts DEF Receive, IInv, IsPending, Arrived, redditVars, history
  <1> QED  BY <1>1, <1>2, <1>3, <1>4, <1>5 DEF PublishStep

LEMMA AcceptCount ==
    ASSUME IInv, NEW r \in inflight, Accept(r)
    PROVE  CountInv'
  <1>0. r.of \in Posts /\ posted \in [Posts -> Nat] /\ begun \in [Posts -> Nat]
    BY DEF IInv, TypeOK
  <1>1. /\ posted' = [posted EXCEPT ![r.of] = @ + 1] /\ inflight' = inflight \ {r}
        /\ sent' = IF IsAsked(r) THEN Answers ELSE sent
        /\ UNCHANGED <<current, stage, result, outcome, begun>>
    BY DEF Accept, history
  <1>2. ~IsPending(r.of)'
    <2>1. \A t \in inflight' : t.of # r.of
      BY <1>1 DEF IInv, FlightInv
    <2>2. current = r.of => stage \in {"submit", "report"}
      <3>1. CASE outcome[r.of] = "failure"
        BY <3>1, <1>0, PostsAssumption DEF IInv, PhaseInv
      <3>2. CASE (stage = "submit" /\ sent = {}) \/ HasFailed
        BY <3>2 DEF HasFailed
      <3> QED  BY <3>1, <3>2 DEF IInv, FlightInv
    <2> QED  BY <1>1, <2>1, <2>2 DEF IsPending
  <1>3. \A p \in Posts : p # r.of => posted'[p] = posted[p] /\ (IsPending(p)' => IsPending(p))
    BY <1>0, <1>1 DEF IsPending
  <1>4. posted'[r.of] = posted[r.of] + 1 /\ posted[r.of] < begun[r.of]
    BY <1>0, <1>1 DEF IInv, CountInv, IsPending
  <1>5. \A p \in Posts : posted'[p] <= begun'[p] /\ (IsPending(p)' => posted'[p] < begun'[p])
    <2> TAKE p \in Posts
    <2>1. CASE p = r.of
      BY <1>0, <1>1, <1>2, <1>4, <2>1
    <2>2. CASE p # r.of
      BY <1>1, <1>3, <2>2 DEF IInv, CountInv
    <2> QED  BY <2>1, <2>2
  <1>6. \A p \in Posts : posted[p] > 0 => posted'[p] > 0
    BY <1>0, <1>1
  <1>7. Arrived' => posted'[current'] > 0
    <2>1. CASE IsAsked(r)
      BY <1>0, <1>1, <1>4, <2>1 DEF IsAsked
    <2>2. CASE ~IsAsked(r)
      <3> SUFFICES ASSUME Arrived' PROVE posted'[current'] > 0
        OBVIOUS
      <3>1. Arrived
        BY <1>1, <2>2 DEF Arrived
      <3>2. current \in Posts
        BY <3>1, AtPost DEF Arrived
      <3> QED  BY <1>1, <1>6, <3>1, <3>2 DEF IInv, CountInv
    <2> QED  BY <2>1, <2>2
  <1>8. SuccessIsPosted'
    BY <1>1, <1>6 DEF IInv, CountInv, SuccessIsPosted
  <1> QED  BY <1>5, <1>7, <1>8 DEF CountInv

LEMMA NextCount == IInv /\ [Next]_vars => CountInv'
  <1> SUFFICES ASSUME IInv, [Next]_vars PROVE CountInv'
    OBVIOUS
  <1>0. CountInv /\ posted \in [Posts -> Nat] /\ begun \in [Posts -> Nat]
    BY DEF IInv, TypeOK
  <1>1. ASSUME NEW p \in Posts, NEW paths \in Paths, Take(p, paths) PROVE CountInv'
    <2>1. /\ stage' = "python" /\ current' = p /\ current = NoPost
          /\ begun' = [begun EXCEPT ![p] = @ + 1]
          /\ UNCHANGED <<inflight, posted, outcome>>
      BY <1>1, Untouched DEF Take, redditVars
    <2>2. \A q \in Posts : q # p => begun'[q] = begun[q] /\ (IsPending(q)' => IsPending(q))
      BY <1>0, <2>1 DEF IsPending
    <2>3. begun'[p] = begun[p] + 1
      BY <1>0, <2>1
    <2>4. \A q \in Posts : posted'[q] <= begun'[q] /\ (IsPending(q)' => posted'[q] < begun'[q])
      <3> TAKE q \in Posts
      <3>1. posted[q] \in Nat /\ begun[q] \in Nat /\ posted[q] <= begun[q] /\ posted' = posted
            /\ (IsPending(q) => posted[q] < begun[q])
        BY <1>0, <2>1 DEF CountInv
      <3>2. CASE q = p
        BY <2>3, <3>1, <3>2
      <3>3. CASE q # p
        BY <2>2, <3>1, <3>3
      <3> QED  BY <3>2, <3>3
    <2>5. ~Arrived' /\ SuccessIsPosted'
      BY <1>0, <2>1 DEF Arrived, CountInv, SuccessIsPosted
    <2> QED  BY <2>4, <2>5 DEF CountInv
  <1>2. ASSUME NEW s \in procs, ProcessStep(s) PROVE CountInv'
    <2>1. UNCHANGED <<current, stage, result, sent, inflight, posted, outcome, begun>>
      BY <1>2 DEF ProcessStep, ReadInput, OpenFile, WriteFile, StrayEnds, redditVars, history
    <2> QED  BY <1>0, <2>1, SameCounts DEF IsPending, Arrived
  <1>3. ASSUME RenderStep PROVE CountInv'
    <2>1. /\ UNCHANGED <<current, result, sent, inflight, posted, outcome, begun>>
          /\ stage \in {"python", "convert", "rendered"}
          /\ stage' \in {"python", "convert", "rendered"}
      BY <1>3 DEF RenderStep, PythonEnds, Awaited, ConvertEnds, FetchTitle, redditVars, history
    <2> QED  BY <1>0, <2>1, SameCounts DEF IsPending, Arrived
  <1>4. ASSUME NEW r \in inflight, Refuse(r) PROVE CountInv'
    BY <1>0, <1>4, SameCounts DEF Refuse, history, IsPending, Arrived
  <1>5. ASSUME Fails PROVE CountInv'
    BY <1>0, <1>5, SameCounts DEF Fails, redditVars, history, IsPending, Arrived
  <1>6. ASSUME Report PROVE CountInv'
    <2>1. /\ outcome' = [outcome EXCEPT ![current] = result] /\ stage' = "idle"
          /\ stage = "report" /\ current \in Posts /\ current' = NoPost
          /\ UNCHANGED <<inflight, posted, begun>>
      BY <1>6, AtPost DEF Report, Idle, history
    <2>2. ~Arrived' /\ \A p \in Posts : IsPending(p)' => IsPending(p)
      BY <2>1 DEF Arrived, IsPending
    <2>3. \A p \in Posts : outcome'[p] = "success" =>
                               outcome[p] = "success" \/ (p = current /\ result = "success")
      BY <2>1 DEF IInv, TypeOK
    <2>4. result = "success" => posted[current] > 0
      BY <1>0, <2>1 DEF CountInv, Arrived
    <2>5. SuccessIsPosted'
      BY <1>0, <2>1, <2>3, <2>4 DEF CountInv, SuccessIsPosted
    <2> QED  BY <1>0, <2>1, <2>2, <2>5 DEF CountInv
  <1>7. ASSUME Restart PROVE CountInv'
    <2>1. PICK done \in SUBSET inflight :
              posted' = [p \in Posts |-> posted[p] + Cardinality({r \in done : r.of = p})]
      BY <1>7 DEF Restart
    <2>2. /\ inflight' = {} /\ current' = NoPost /\ stage' = "idle" /\ begun' = begun
          /\ \A p \in Posts : outcome'[p] = "success" => outcome[p] = "success"
      BY <1>7 DEF Restart, Idle, history
    <2>3. ~Arrived' /\ \A p \in Posts : ~IsPending(p)'
      BY <2>2, PostsAssumption DEF Arrived, IsPending
    <2>4. ASSUME NEW p \in Posts PROVE posted'[p] <= begun'[p] /\ posted'[p] >= posted[p]
      <3> DEFINE n == Cardinality({r \in done : r.of = p})
      <3>1. posted'[p] = posted[p] + n
        BY <2>1
      <3>2. n = IF \E r \in done : r.of = p THEN 1 ELSE 0
        BY FewFlights
      <3> HIDE DEF n
      <3>3. posted[p] \in Nat /\ begun[p] \in Nat /\ posted[p] <= begun[p]
            /\ (IsPending(p) => posted[p] < begun[p])
        BY <1>0 DEF CountInv
      <3>4. CASE \E r \in done : r.of = p
        <4>1. IsPending(p)
          BY <3>4 DEF IsPending
        <4> QED  BY <2>2, <3>1, <3>2, <3>3, <3>4, <4>1
      <3>5. CASE ~ \E r \in done : r.of = p
        BY <2>2, <3>1, <3>2, <3>3, <3>5
      <3> QED  BY <3>4, <3>5
    <2>5. \A p \in Posts : posted'[p] \in Nat
      BY <1>0, <1>7, EndType DEF TypeOK
    <2>6. SuccessIsPosted'
      BY <1>0, <2>2, <2>4, <2>5 DEF CountInv, SuccessIsPosted
    <2> QED  BY <2>3, <2>4, <2>6 DEF CountInv
  <1>8. CASE UNCHANGED vars
    BY <1>0, <1>8, SameCounts DEF vars, redditVars, history, IsPending, Arrived
  <1> QED
    BY <1>1, <1>2, <1>3, <1>4, <1>5, <1>6, <1>7, <1>8, PublishCount, AcceptCount DEF Next


(***************************************************************************)
(* What a picture shows                                                    *)
(***************************************************************************)

IsClean == current # NoPost /\ current \notin disturbed /\ ~HasFailed

\* The parts of CleanInv, for a post p.
Rendering(p) ==
    /\ \A s \in procs : s.of = p /\ s.page \subseteq {p}
    /\ stage \in {"python", "convert", "rendered"} =>
           \A k \in Kinds : content[k] \subseteq {p}
    /\ stage = "rendered" => content["index"] = {p}
    /\ stage \notin {"python", "convert"} => text[p] = {p}

Publishing(p) ==
    /\ stage = "uploaded" => picture = {p}
    /\ \A r \in inflight : r.of = p => r.picture = {p}
    /\ Arrived => shown[p] = {p}

LEMMA CleanParts == CleanInv <=> (IsClean => Rendering(current) /\ Publishing(current))
  BY DEF CleanInv, IsClean, Rendering, Publishing

\* While nothing has failed, subprocesses are the ones that are awaited.
LEMMA CleanProcs ==
    ASSUME IInv, IsClean
    PROVE  /\ Rendering(current) /\ Publishing(current)
           /\ current \in Posts /\ stage # "idle"
           /\ \A s \in procs : s.tool = stage /\ stage \in {"python", "convert"}
           /\ \A r \in inflight : r.of = current => stage = "submit" /\ sent = {}
  <1>1. Rendering(current) /\ Publishing(current)
    BY CleanParts DEF IInv
  <1>2. current \in Posts /\ stage # "idle" /\ outcome[current] = "none"
    BY DEF IInv, TypeOK, PhaseInv, IsClean
  <1>3. \A s \in procs : s.tool = stage /\ stage \in {"python", "convert"}
    BY <1>1, <1>2 DEF IInv, ProcInv, Rendering, IsClean, TypeOK, Process
  <1>4. \A r \in inflight : r.of = current => stage = "submit" /\ sent = {}
    BY <1>2 DEF IInv, FlightInv, IsClean
  <1> QED  BY <1>1, <1>2, <1>3, <1>4

LEMMA SamePictures ==
    ASSUME PictureIsOfPost, UNCHANGED <<shown, text, outcome, disturbed>>
    PROVE  PictureIsOfPost'
  BY DEF PictureIsOfPost

LEMMA TakeClean ==
    ASSUME IInv, NEW p \in Posts, NEW paths \in Paths, Take(p, paths)
    PROVE  CleanInv' /\ PictureIsOfPost'
  <1>1. /\ current' = p /\ stage' = "python" /\ content' = [k \in Kinds |-> {}]
        /\ disturbed' = (IF procs = {} THEN disturbed \ {p} ELSE disturbed \cup {p})
        /\ outcome[p] = "none" /\ UNCHANGED <<text, outcome, shown, inflight>>
    BY DEF Take, MayTake, redditVars
  <1>2. PictureIsOfPost'
    BY <1>1 DEF PictureIsOfPost, IInv
  <1>3. ASSUME IsClean' PROVE Rendering(p)' /\ Publishing(p)'
    <2>1. procs' = {Python(p, paths)}
      BY <1>1, <1>3 DEF Take, IsClean
    <2>2. Python(p, paths).of = p /\ Python(p, paths).page = {p}
      BY DEF Python
    <2>3. Rendering(p)'
      BY <1>1, <2>1, <2>2 DEF Rendering
    <2>4. Publishing(p)'
      BY <1>1, Untouched DEF Publishing, Arrived, Take
    <2> QED  BY <2>3, <2>4
  <1>4. CleanInv'
    BY <1>1, <1>3 DEF CleanInv, IsClean, Rendering, Publishing, Arrived
  <1> QED  BY <1>2, <1>4

LEMMA ProcessStepClean ==
    ASSUME IInv, NEW s \in procs, ProcessStep(s)
    PROVE  CleanInv' /\ PictureIsOfPost'
  <1>1. UNCHANGED <<current, stage, text, redditVars, result, outcome, picture, history>>
    BY DEF ProcessStep, ReadInput, OpenFile, WriteFile, StrayEnds
  <1>2. PictureIsOfPost'
    BY <1>1, SamePictures DEF IInv, redditVars, history
  <1>3. SUFFICES ASSUME IsClean' PROVE CleanInv'
    BY <1>2, CleanParts DEF CleanInv, IsClean
  <1>4. IsClean
    BY <1>1, <1>3 DEF IsClean, HasFailed, history
  <1> DEFINE p == current
  <1>5. /\ Rendering(p) /\ Publishing(p) /\ stage \in {"python", "convert"}
        /\ s \in Process /\ s.of = p /\ s.page \subseteq {p}
        /\ content \in [Kinds -> SUBSET Posts]
        /\ \A k \in Kinds : content[k] \subseteq {p}
        /\ \A t \in procs : t.of = p /\ t.page \subseteq {p}
    <2>1. Rendering(p) /\ Publishing(p) /\ stage \in {"python", "convert"}
      BY <1>4, CleanProcs
    <2>2. s \in Process /\ content \in [Kinds -> SUBSET Posts]
      BY DEF IInv, TypeOK
    <2> QED  BY <2>1, <2>2 DEF Rendering
  <1>6. ASSUME \A t \in procs' : t.of = p /\ t.page \subseteq {p},
               \A k \in Kinds : content'[k] \subseteq {p}
        PROVE  CleanInv'
    BY <1>1, <1>5, <1>6 DEF CleanInv, Rendering, Publishing, Arrived, redditVars
  <1>7. CASE ReadInput(s)
    <2>1. PICK k \in Kinds : Replace(s, [s EXCEPT !.page = content[k]])
      BY <1>7 DEF ReadInput
    <2>2. [s EXCEPT !.page = content[k]].of = s.of
          /\ [s EXCEPT !.page = content[k]].page = content[k]
      BY <1>5 DEF Process
    <2>3. content' = content
      BY <1>7 DEF ReadInput, fileVars
    <2> QED  BY <1>5, <1>6, <2>1, <2>2, <2>3 DEF Replace
  <1>8. CASE OpenFile(s)
    <2>1. PICK k \in Kinds : /\ Replace(s, [s EXCEPT !.open = k])
                             /\ content' = [content EXCEPT ![k] = {}]
      BY <1>8 DEF OpenFile
    <2>2. [s EXCEPT !.open = k].of = s.of /\ [s EXCEPT !.open = k].page = s.page
      BY <1>5 DEF Process
    <2>3. \A j \in Kinds : content'[j] \subseteq {p}
      BY <1>5, <2>1
    <2> QED  BY <1>5, <1>6, <2>1, <2>2, <2>3 DEF Replace
  <1>9. CASE WriteFile(s)
    <2>1. /\ Replace(s, [s EXCEPT !.open = NoFile, !.todo = Tail(@)])
          /\ content' = [k \in Kinds |-> IF k = s.open THEN content[k] \cup s.page
                                                       ELSE content[k]]
      BY <1>9 DEF WriteFile
    <2>2. [s EXCEPT !.open = NoFile, !.todo = Tail(@)].of = s.of
          /\ [s EXCEPT !.open = NoFile, !.todo = Tail(@)].page = s.page
      BY <1>5 DEF Process
    <2>3. \A j \in Kinds : content'[j] \subseteq {p}
      BY <1>5, <2>1
    <2> QED  BY <1>5, <1>6, <2>1, <2>2, <2>3 DEF Replace
  <1>10. CASE StrayEnds(s)
    BY <1>5, <1>6, <1>10 DEF StrayEnds, fileVars
  <1> QED  BY <1>7, <1>8, <1>9, <1>10 DEF ProcessStep


LEMMA RenderClean ==
    ASSUME IInv, RenderStep
    PROVE  CleanInv' /\ PictureIsOfPost'
  <1>1. /\ UNCHANGED <<current, redditVars, result, outcome, picture, history>>
        /\ stage \in {"python", "convert", "rendered"}
        /\ stage' \in {"python", "convert", "rendered"}
    BY DEF RenderStep, PythonEnds, Awaited, ConvertEnds, FetchTitle
  <1>2. PictureIsOfPost'
    <2>1. \A q \in Posts : outcome[q] = "success" => text'[q] = text[q]
      <3>1. ASSUME NEW s \in procs, ConvertEnds(s), NEW q \in Posts, outcome[q] = "success"
            PROVE  text'[q] = text[q]
        BY <3>1, AtPost DEF ConvertEnds, Awaited, IInv, TypeOK
      <3> QED  BY <3>1 DEF RenderStep, PythonEnds, FetchTitle
    <2> QED  BY <1>1, <2>1 DEF PictureIsOfPost, IInv, redditVars, history
  <1>3. SUFFICES ASSUME IsClean' PROVE CleanInv'
    BY <1>2 DEF CleanInv, IsClean
  <1>4. IsClean /\ ~Arrived'
    BY <1>1, <1>3 DEF IsClean, HasFailed, history, Arrived
  <1> DEFINE p == current
  <1>5. Rendering(p) /\ Publishing(p) /\ p \in Posts
    BY <1>4, CleanProcs
  <1>6. ASSUME \A t \in procs' : t.of = p /\ t.page \subseteq {p},
               \A k \in Kinds : content'[k] \subseteq {p},
               stage' = "rendered" => content'["index"] = {p} /\ text'[p] = {p}
        PROVE  CleanInv'
    BY <1>1, <1>4, <1>5, <1>6 DEF CleanInv, Publishing, redditVars
  <1>7. ASSUME NEW s \in procs, PythonEnds(s) PROVE CleanInv'
    <2>1. /\ procs' = (procs \ {s}) \cup {Convert(current, s.paths)} /\ stage' = "convert"
          /\ content' = content
      BY <1>7 DEF PythonEnds, fileVars
    <2>2. Convert(current, s.paths).of = p /\ Convert(current, s.paths).page = {}
      BY DEF Convert
    <2> QED  BY <1>1, <1>5, <1>6, <2>1, <2>2 DEF Rendering
  <1>8. ASSUME NEW s \in procs, ConvertEnds(s) PROVE CleanInv'
    <2>1. /\ procs' = procs \ {s} /\ content' = content
          /\ content["text"] # {} /\ content["index"] # {}
          /\ text' = [text EXCEPT ![p] = content["text"]]
      BY <1>8 DEF ConvertEnds
    <2>2. \A k \in Kinds : content[k] \subseteq {p}
      BY <1>1, <1>5 DEF Rendering
    <2>3. content["text"] = {p} /\ content["index"] = {p}
      BY <2>1, <2>2 DEF Kinds
    <2>4. text'[p] = {p}
      BY <1>5, <2>1, <2>3 DEF IInv, TypeOK
    <2> QED  BY <1>1, <1>5, <1>6, <2>1, <2>2, <2>3, <2>4 DEF Rendering
  <1>9. ASSUME FetchTitle PROVE CleanInv'
    BY <1>5, <1>6, <1>9 DEF FetchTitle, fileVars, Rendering
  <1> QED  BY <1>7, <1>8, <1>9 DEF RenderStep

\* Steps between the rendering and the report.
LEMMA PublishClean ==
    ASSUME IInv, PublishStep
    PROVE  CleanInv' /\ PictureIsOfPost'
  <1>1. UNCHANGED <<current, text, procs, content, shown, outcome, history>>
    BY DEF PublishStep, Upload, SubmitImage, ReadBack, GetUploadedImageUrl, Receive, fileVars,
           redditVars
  <1>2. PictureIsOfPost'
    BY <1>1, SamePictures DEF IInv, history
  <1>3. SUFFICES ASSUME IsClean' PROVE CleanInv'
    BY <1>2 DEF CleanInv, IsClean
  <1>4. /\ stage \in {"rendered", "uploaded", "submit", "lookup"}
        /\ stage' \in {"uploaded", "submit", "lookup", "report"}
    BY DEF PublishStep, Upload, SubmitImage, ReadBack, GetUploadedImageUrl, Receive
  <1>5. IsClean
    BY <1>1, <1>3, <1>4 DEF IsClean, HasFailed, history
  <1>6. Rendering(current) /\ Publishing(current)
    BY <1>5, CleanProcs
  <1>7. ASSUME \A r \in inflight' : r.of = current => r.picture = {current},
               Arrived' => Arrived,
               stage' = "uploaded" => picture' = {current}
        PROVE  CleanInv'
    BY <1>1, <1>4, <1>6, <1>7 DEF CleanInv, Rendering, Publishing
  <1>8. CASE Upload
    BY <1>6, <1>7, <1>8 DEF Upload, redditVars, Arrived, Rendering, Publishing
  <1>9. CASE SubmitImage
    <2>1. sent' = {} /\ stage' = "submit"
      BY <1>9 DEF SubmitImage, IInv, PhaseInv
    <2> QED  BY <1>6, <1>7, <1>9, <2>1 DEF SubmitImage, Arrived, Publishing
  <1>10. CASE ReadBack
    <2>1. Arrived
      BY <1>10 DEF ReadBack, Joined, Answers, IInv, TypeOK, Arrived
    <2> QED  BY <1>6, <1>7, <1>10, <2>1 DEF ReadBack, redditVars, Publishing
  <1>11. CASE GetUploadedImageUrl
    BY <1>6, <1>7, <1>11 DEF GetUploadedImageUrl, redditVars, Arrived, Publishing
  <1>12. ASSUME NEW answer \in Answers, Receive(answer) PROVE CleanInv'
    BY <1>6, <1>7, <1>12 DEF Receive, redditVars, Arrived, Publishing
  <1> QED  BY <1>8, <1>9, <1>10, <1>11, <1>12 DEF PublishStep

\* Reddit's answer to a submission that has failed changes no picture that counts.
LEMMA AnswerClean ==
    ASSUME IInv, NEW r \in inflight, Accept(r) \/ Refuse(r)
    PROVE  CleanInv' /\ PictureIsOfPost'
  <1>1. /\ UNCHANGED <<current, stage, content, text, procs, result, outcome, picture, history>>
        /\ inflight' = inflight \ {r}
        /\ r.of \in Posts /\ shown \in [Posts -> SUBSET Posts]
        /\ sent' = sent \/ IsAsked(r)
    BY DEF Accept, Refuse, IInv, TypeOK, fileVars
  <1>2. shown' = shown \/ shown' = [shown EXCEPT ![r.of] = r.picture]
    BY DEF Accept, Refuse
  <1>3. outcome[r.of] # "success"
    BY PostsAssumption DEF IInv, TypeOK, FlightInv, PhaseInv
  <1>4. PictureIsOfPost'
    <2>1. \A q \in Posts : outcome[q] = "success" => shown'[q] = shown[q]
      BY <1>1, <1>2, <1>3
    <2> QED  BY <1>1, <2>1 DEF PictureIsOfPost, IInv, history
  <1>5. SUFFICES ASSUME IsClean' PROVE CleanInv'
    BY <1>4 DEF CleanInv, IsClean
  <1>6. IsClean
    BY <1>1, <1>5 DEF IsClean, HasFailed, history
  <1>7. Rendering(current) /\ Publishing(current) /\ current \in Posts
    BY <1>6, CleanProcs
  <1>8. Arrived' => shown'[current] = {current}
    <2>1. CASE r.of = current
      <3>1. stage = "submit" /\ sent = {} /\ IsAsked(r) /\ r.picture = {current}
        BY <1>6, <1>7, <2>1, CleanProcs DEF IsAsked, Publishing
      <3>2. Arrived' => shown' = [shown EXCEPT ![current] = {current}]
        BY <1>1, <2>1, <3>1 DEF Arrived, Accept, Refuse
      <3> QED  BY <1>1, <1>7, <3>2
    <2>2. CASE r.of # current
      <3>1. ~IsAsked(r) /\ shown'[current] = shown[current]
        BY <1>1, <1>2, <1>7, <2>2 DEF IsAsked
      <3> QED  BY <1>1, <1>7, <3>1 DEF Arrived, Publishing
    <2> QED  BY <2>1, <2>2
  <1> QED  BY <1>1, <1>7, <1>8 DEF CleanInv, Rendering, Publishing

LEMMA NextClean == IInv /\ [Next]_vars => CleanInv' /\ PictureIsOfPost'
  <1> SUFFICES ASSUME IInv, [Next]_vars PROVE CleanInv' /\ PictureIsOfPost'
    OBVIOUS
  <1>1. ASSUME Fails PROVE CleanInv' /\ PictureIsOfPost'
    BY <1>1, SamePictures DEF Fails, CleanInv, HasFailed, redditVars, history, IInv
  <1>2. ASSUME Report PROVE CleanInv' /\ PictureIsOfPost'
    <2>1. /\ outcome' = [outcome EXCEPT ![current] = result] /\ current' = NoPost
          /\ stage = "report" /\ current \in Posts /\ UNCHANGED <<shown, text, disturbed>>
      BY <1>2, AtPost DEF Report, Idle, history
    <2>2. result = "success" /\ current \notin disturbed =>
              shown[current] = {current} /\ text[current] = {current}
      BY <2>1, PostsAssumption, CleanProcs
         DEF IsClean, HasFailed, Rendering, Publishing, Arrived
    <2>3. \A q \in Posts : outcome'[q] = "success" =>
                               outcome[q] = "success" \/ (q = current /\ result = "success")
      BY <2>1 DEF IInv, TypeOK
    <2>4. PictureIsOfPost'
      BY <2>1, <2>2, <2>3 DEF PictureIsOfPost, IInv
    <2> QED  BY <2>1, <2>4 DEF CleanInv
  <1>3. ASSUME Restart PROVE CleanInv' /\ PictureIsOfPost'
    <2>1. PICK done \in SUBSET inflight :
              shown' = [p \in Posts |-> IF \E r \in done : r.of = p
                                        THEN (CHOOSE r \in done : r.of = p).picture
                                        ELSE shown[p]]
      BY <1>3 DEF Restart
    <2>2. /\ current' = NoPost /\ UNCHANGED <<text, disturbed>>
          /\ \A p \in Posts : outcome'[p] = "success" => outcome[p] = "success"
      BY <1>3 DEF Restart, Idle, history
    <2>3. \A r \in done : outcome[r.of] # "success"
      BY PostsAssumption DEF IInv, TypeOK, FlightInv, PhaseInv
    <2>4. \A p \in Posts : outcome[p] = "success" => shown'[p] = shown[p]
      BY <2>1, <2>3
    <2>5. PictureIsOfPost'
      BY <2>2, <2>4 DEF PictureIsOfPost, IInv
    <2> QED  BY <2>2, <2>5 DEF CleanInv
  <1>4. CASE UNCHANGED vars
    BY <1>4 DEF vars, fileVars, redditVars, history, IInv, CleanInv, PictureIsOfPost, HasFailed,
                Arrived
  <1> QED
    BY <1>1, <1>2, <1>3, <1>4, TakeClean, ProcessStepClean, RenderClean, PublishClean, AnswerClean
       DEF Next


(***************************************************************************)
(* The theorems                                                            *)
(***************************************************************************)

LEMMA NextInv == IInv /\ [Next]_vars => IInv'
  BY NextType, NextPhase, NextProcs, NextFlight, NextCount, NextClean DEF IInv

LEMMA Invariance == Spec => []IInv
  BY InitInv, NextInv, PTL DEF Spec

\* Every variable keeps its type, those of subprocesses and requests that nobody
\* waits for any more included (screenshot.rs:30-116).
THEOREM TypeCorrect == Spec => []TypeOK
  <1>1. IInv => TypeOK
    BY DEF IInv
  <1> QED  BY <1>1, Invariance, PTL

\* A subprocess that runs while nobody waits for it is left over by a submission
\* whose failure was reported (screenshot.rs:48-82).
THEOREM StraysAreFailures == Spec => []StrayMeansFailure
  <1>1. IInv => StrayMeansFailure
    BY DEF IInv, ProcInv, StrayMeansFailure
  <1> QED  BY <1>1, Invariance, PTL

\* The picture of a success was posted, whatever Reddit's answer said and however
\* often the process was restarted (reddit.rs:686-695).
THEOREM SuccessesArePosted == Spec => []SuccessIsPosted
  <1>1. IInv => SuccessIsPosted
    BY DEF IInv, CountInv
  <1> QED  BY <1>1, Invariance, PTL

\* A post is given one picture at most each time it is taken, also when Reddit
\* deals with a request only after its submission was given up (screenshot.rs:109-110).
THEOREM PostedOnce == Spec => []PostedOncePerTake
  <1>1. IInv => PostedOncePerTake
    BY DEF IInv, CountInv, PostedOncePerTake
  <1> QED  BY <1>1, Invariance, PTL

\* The picture and the text of a success are those of its post, unless a stray
\* subprocess was running when the submission began (screenshot.rs:33-87).
THEOREM PicturesAreOfTheirPosts == Spec => []PictureIsOfPost
  <1>1. IInv => PictureIsOfPost
    BY DEF IInv
  <1> QED  BY <1>1, Invariance, PTL

\* Every step of a submission is one of the abstract specification's or none of
\* its business (screenshot.rs:126-195).
LEMMA StepImplements == IInv /\ [Next]_vars => [Job!Next]_(Job!vars)
  <1> SUFFICES ASSUME IInv, [Next]_vars PROVE [Job!Next]_(Job!vars)
    OBVIOUS
  <1>1. ASSUME UNCHANGED <<current, outcome>> PROVE [Job!Next]_(Job!vars)
    BY <1>1 DEF Job!vars
  <1>2. ASSUME NEW p \in Posts, NEW paths \in Paths, Take(p, paths) PROVE Job!Next
    <2>1. current = NoPost /\ outcome[p] = "none" /\ current' = p /\ outcome' = outcome
      BY <1>2, Untouched DEF Take, MayTake
    <2> QED  BY <2>1 DEF Job!Next, Job!Begin
  <1>3. ASSUME Report PROVE Job!Next
    <2>1. /\ current # NoPost /\ current' = NoPost /\ result \in {"success", "failure"}
          /\ outcome' = [outcome EXCEPT ![current] = result]
      BY <1>3 DEF Report, Idle, IInv, PhaseInv
    <2> QED  BY <2>1 DEF Job!Next, Job!AnyEnd, Job!End
  <1>4. ASSUME Restart PROVE Job!Next
    BY <1>4 DEF Restart, Idle, Job!Next, Job!Crash
  <1>5. ASSUME NEW s \in procs, ProcessStep(s) PROVE [Job!Next]_(Job!vars)
    BY <1>1, <1>5 DEF ProcessStep, ReadInput, OpenFile, WriteFile, StrayEnds
  <1>6. ASSUME RenderStep PROVE [Job!Next]_(Job!vars)
    BY <1>1, <1>6 DEF RenderStep, PythonEnds, ConvertEnds, FetchTitle
  <1>7. ASSUME PublishStep PROVE [Job!Next]_(Job!vars)
    BY <1>1, <1>7
       DEF PublishStep, Upload, SubmitImage, ReadBack, GetUploadedImageUrl, Receive
  <1>8. ASSUME NEW r \in inflight, Accept(r) \/ Refuse(r) PROVE [Job!Next]_(Job!vars)
    BY <1>1, <1>8 DEF Accept, Refuse
  <1>9. ASSUME Fails PROVE [Job!Next]_(Job!vars)
    BY <1>1, <1>9 DEF Fails
  <1>10. CASE UNCHANGED vars
    BY <1>1, <1>10 DEF vars
  <1> QED
    BY <1>2, <1>3, <1>4, <1>5, <1>6, <1>7, <1>8, <1>9, <1>10 DEF Next

\* A submission, with all its subprocesses and requests, is a step of the loop as
\* the rest of the service takes it: nothing with an outcome is taken again, and
\* it is the post in hand that gets one (screenshot.rs:126-195).
THEOREM SubmissionsFollow == Spec => Job!Safety
  <1>1. Init => Job!Init
    BY DEF Init, Job!Init
  <1> QED  BY <1>1, StepImplements, Invariance, PTL DEF Spec, Job!Safety

============================================================================
