-------------------------- MODULE RefinementProofs --------------------------
(***************************************************************************)
(* The loops of Blindkopie.tla do what Submission.tla and Backlog.tla say, *)
(* across every stop, fault and restart, and what is once on the disk is   *)
(* there, and is not submitted again, for ever.                            *)
(***************************************************************************)
EXTENDS RecoveryProofs

----------------------------------------------------------------------------
(* Submission *)

\* A step that Submission does not see.
LEMMA SubmissionStutters ==
    ASSUME NEW l, Hand(l)' = Hand(l),
           \A p \in Posts, o \in {"success", "failure"} : KnownAs(l, p, o)' = KnownAs(l, p, o)
    PROVE  UNCHANGED Submitting(l)!vars
  <1>1. KnownOutcomes(l)' = KnownOutcomes(l)
    BY DEF KnownOutcomes
  <1> QED  BY <1>1 DEF Submitting!vars

\* No post is known to have succeeded and to have failed.
LEMMA KnownOnce ==
    ASSUME RecoveryInv, NEW l \in OwnLoops, NEW p \in Posts,
           KnownAs(l, p, "success"), KnownAs(l, p, "failure")
    PROVE  FALSE
  <1>1. phase # "running"
    BY DEF KnownAs
  <1>2. PICK i \in 1..Len(lines) : lines[i] = OutcomeOf(l, p, "success")
    BY <1>1 DEF KnownAs, InFile
  <1>3. PICK j \in 1..Len(lines) : lines[j] = OutcomeOf(l, p, "failure")
    BY <1>1 DEF KnownAs, InFile
  <1>4. i # j /\ i \in Nat /\ j \in Nat /\ l # "outline_com"
    BY <1>2, <1>3, ChangesDiffer DEF OwnLoops
  <1>5. i \in 1..(j - 1) \/ j \in 1..(i - 1)
    BY <1>4
  <1> QED  BY <1>2, <1>3, <1>4, <1>5, ChangesDiffer DEF RecoveryInv, FileInv, Ordered

\* What the file says is known, whether the process runs or not.
LEMMA FileIsKnown ==
    ASSUME TypeOK, RecoveryInv, NEW l \in OwnLoops, NEW p \in Posts,
           NEW o \in {"success", "failure"}, InFile(OutcomeOf(l, p, o))
    PROVE  KnownAs(l, p, o)
  <1>1. PICK i \in 1..Len(lines) : lines[i] = OutcomeOf(l, p, o)
    BY DEF InFile
  <1>2. /\ lines[i].field = l /\ lines[i].post = p /\ lines[i].outcome = o
        /\ l \notin {"new", "outline_com"}
    BY <1>1, ChangesDiffer, Names, FieldNames DEF OwnLoops
  <1> QED  BY <1>1, <1>2 DEF RecoveryInv, LinesKnown, KnownAs, InFile

\* What is in the file after a stop was in it before.
LEMMA CutFile == ASSUME TypeOK', IsCut, NEW c, InFile(c)' PROVE InFile(c)
  <1>1. Len(lines') \in Nat
    BY DEF TypeOK, Log!TypeOK
  <1>2. PICK i \in 1..Len(lines') : lines'[i] = c
    BY DEF InFile
  <1>3. lines'[i] = lines[i] /\ Len(lines') <= Len(lines)
    BY DEF IsCut
  <1>4. i \in 1..Len(lines)
    BY <1>1, <1>3
  <1> QED  BY <1>2, <1>3, <1>4 DEF InFile

LEMMA StopsCut == ASSUME TypeOK, Stops PROVE Down /\ IsCut
  BY StopFile DEF Stops, ReplayFails, Exit, Kill, PowerLoss, logVars, logOnlyVars, IsCut

\* A stop is a crash: what did not reach the file is forgotten.
LEMMA StopCrashes ==
    ASSUME TypeOK, TypeOK', RecoveryInv, Stops, NEW l \in OwnLoops
    PROVE  Submitting(l)!Crash
  <1> DEFINE inFile(p, o) == InFile(OutcomeOf(l, p, o))'
             kept == {p \in Posts : inFile(p, "success") \/ inFile(p, "failure")}
  <1>1. Down /\ IsCut
    BY StopsCut
  <1>2. Hand(l)' = NoPost
    BY <1>1 DEF Down, FirstStates, Hand, OwnLoops, SubmitLoops, Loops, Workers
  <1>3. \A p \in Posts, o \in {"success", "failure"} : KnownAs(l, p, o)' <=> inFile(p, o)
    BY <1>1 DEF Down, KnownAs
  <1>4. \A p \in Posts, o \in {"success", "failure"} : inFile(p, o) => KnownAs(l, p, o)
    BY <1>1, CutFile, FileIsKnown
  <1>5. ASSUME NEW p \in Posts
        PROVE  KnownOutcomes(l)'[p] = IF p \in kept THEN KnownOutcomes(l)[p] ELSE "none"
    BY <1>3, <1>4, KnownOnce DEF KnownOutcomes
  <1>6. KnownOutcomes(l)' = [p \in Posts |-> IF p \in kept THEN KnownOutcomes(l)[p] ELSE "none"]
    BY <1>5 DEF KnownOutcomes
  <1>7. kept \in SUBSET Posts
    OBVIOUS
  <1> HIDE DEF kept
  <1> QED  BY <1>2, <1>6, <1>7 DEF Submitting!Crash

\* The first poll of the loops finds in memory what is in the file.
LEMMA StartLoopsKnow ==
    ASSUME TypeOK, RecoveryInv, StartLoops
    PROVE  /\ UNCHANGED lines /\ phase = "replay" /\ phase' = "running"
           /\ seen' = seen /\ data' = data /\ Knows(lines)
  <1>1. /\ UNCHANGED <<lines, seen, data>>
        /\ phase = "replay" /\ phase' = "running" /\ replayed = Len(lines)
    BY DEF StartLoops, Log!Open, Log!fileVars, workVars
  <1>2. lines \in Seq(Change)
    BY SeqTypes
  <1>3. SubSeq(lines, 1, Len(lines)) = lines
    BY <1>2, SubSeqFull
  <1> QED  BY <1>1, <1>3 DEF RecoveryInv, ReplayInv

\* A post is taken up that has no outcome yet.
LEMMA TakeBegins ==
    ASSUME TypeOK, phase = "running", NEW l \in OwnLoops, NEW p \in Posts, PollTake(l, p)
    PROVE  Submitting(l)!Begin(p)
  <1>1. l \in SubmitLoops /\ l # "comment" /\ l \in WorkFields /\ l \in Loops
    BY Names DEF OwnLoops
  <1>2. /\ pc[l] = "poll" /\ pc' = [pc EXCEPT ![l] = "submit"]
        /\ current' = [current EXCEPT ![l] = p]
        /\ data' = [data EXCEPT ![p][l] = "processing"] /\ ~IsDone(data[p][l])
        /\ phase' = phase
    BY <1>1 DEF PollTake, Pop, HasQueue, Skips, MarkedField, Go, replayVars
  <1>3. Hand(l) = NoPost /\ Hand(l)' = p
    BY <1>1, <1>2 DEF Hand, TypeOK
  <1>4. KnownOutcomes(l)[p] = "none"
    BY <1>2 DEF KnownOutcomes, KnownAs, IsDone
  <1>5. ASSUME NEW q \in Posts, NEW o \in {"success", "failure"}
        PROVE  KnownAs(l, q, o)' = KnownAs(l, q, o)
    <2>1. q # p => data'[q] = data[q]
      BY <1>2 DEF TypeOK
    <2>2. data'[p][l] = "processing"
      BY <1>1, <1>2 DEF TypeOK
    <2> QED  BY <1>2, <2>1, <2>2 DEF KnownAs, IsDone
  <1>6. KnownOutcomes(l)' = KnownOutcomes(l)
    BY <1>5 DEF KnownOutcomes
  <1> QED  BY <1>3, <1>4, <1>6 DEF Submitting!Begin

\* A submission that ends has the outcome it is reported with.
LEMMA SubmittedIsEnd ==
    ASSUME TypeOK, RecoveryInv, HandInv, phase = "running", NEW l \in OwnLoops,
           NEW o \in {"success", "failure"}, Submitted(l, o)
    PROVE  Submitting(l)!End(o)
  <1> DEFINE p == current[l]
  <1>1. l \in SubmitLoops /\ l \in Loops /\ l \in FieldsOf(l) /\ l \in WorkFields
    BY Names, FieldNames DEF OwnLoops
  <1>2. Ends(l, p, o) /\ pc[l] = "submit"
    BY <1>1, SubmittedEnds
  <1>3. \E where \in {"enqueue", "sleep"} : pc' = [pc EXCEPT ![l] = where]
    BY DEF Submitted, Go
  <1>4. Hand(l) = p /\ Hand(l)' = NoPost /\ p \in Posts
    BY <1>1, <1>2, <1>3 DEF Hand, TypeOK, Ends
  <1>5. p # NoPost
    BY <1>4, PostsAssumption DEF NoPost
  <1> HIDE DEF p
  <1>6. KnownOutcomes(l)'[p] = o
    BY <1>1, <1>2, <1>4 DEF Ends, KnownOutcomes, KnownAs
  <1>7. ASSUME NEW q \in Posts, q # p PROVE KnownOutcomes(l)'[q] = KnownOutcomes(l)[q]
    BY <1>2, <1>7 DEF Ends, KnownOutcomes, KnownAs
  <1>8. KnownOutcomes(l)' = [KnownOutcomes(l) EXCEPT ![p] = o]
    BY <1>4, <1>6, <1>7 DEF KnownOutcomes
  <1> QED  BY <1>4, <1>5, <1>8 DEF Submitting!End

\* What another loop takes up, or ends, is not this loop's.
LEMMA OthersTake ==
    ASSUME TypeOK, NEW l \in OwnLoops, NEW m \in Workers, m # l, NEW p \in Posts, PollTake(m, p)
    PROVE  UNCHANGED Submitting(l)!vars
  <1>1. /\ l \in Loops /\ m \in Loops /\ l \in WorkFields /\ MarkedField(m) # l
    BY Names DEF OwnLoops, MarkedField
  <1>2. /\ data' = [data EXCEPT ![p][MarkedField(m)] = "processing"] /\ phase' = phase
        /\ \E where \in {"submit", "sleep"} : pc' = [pc EXCEPT ![m] = where]
        /\ current' = current \/ current' = [current EXCEPT ![m] = p]
        /\ lines' = lines
    BY DEF PollTake, Go, replayVars, logVars, logOnlyVars
  <1>3. Hand(l)' = Hand(l)
    <2>1. pc'[l] = pc[l]
      BY <1>1, <1>2 DEF TypeOK
    <2>2. current'[l] = current[l]
      BY <1>2 DEF TypeOK, OwnLoops
    <2> QED  BY <2>1, <2>2 DEF Hand
  <1>4. ASSUME NEW q \in Posts, NEW o \in {"success", "failure"}
        PROVE  KnownAs(l, q, o)' = KnownAs(l, q, o)
    <2>1. data'[q][l] = data[q][l]
      BY <1>1, <1>2 DEF TypeOK
    <2> QED  BY <1>2, <2>1 DEF KnownAs, InFile
  <1> QED  BY <1>3, <1>4, SubmissionStutters

LEMMA OthersEnd ==
    ASSUME TypeOK, RecoveryInv, HandInv, phase = "running", NEW l \in OwnLoops,
           NEW m \in SubmitLoops, m # l, NEW o \in {"success", "failure"}, Submitted(m, o)
    PROVE  UNCHANGED Submitting(l)!vars
  <1>1. l \in SubmitLoops /\ l \in WorkFields /\ l \notin FieldsOf(m)
    BY Names, FieldNames DEF OwnLoops, FieldsOf
  <1>2. /\ Ends(m, current[m], o)
        /\ pc'[l] = pc[l] /\ current'[l] = current[l]
    BY <1>1, SubmittedEnds
  <1>3. Hand(l)' = Hand(l)
    BY <1>2 DEF Hand
  <1>4. \A q \in Posts, r \in {"success", "failure"} : KnownAs(l, q, r)' = KnownAs(l, q, r)
    BY <1>1, <1>2 DEF Ends, KnownAs
  <1> QED  BY <1>3, <1>4, SubmissionStutters

\* What the start, the writer and collect_loop do is nothing to a submission.
LEMMA StartStutters ==
    ASSUME TypeOK, RecoveryInv, NEW l \in OwnLoops, Start \/ ReplayLine \/ StartLoops
    PROVE  UNCHANGED Submitting(l)!vars
  <1>1. UNCHANGED <<lines, pc, current>> /\ phase # "running"
    BY DEF Start, ReplayLine, StartLoops, Log!Open, Log!fileVars, logVars, logOnlyVars, taskVars
  <1>2. Hand(l)' = Hand(l)
    BY <1>1 DEF Hand
  <1>3. CASE StartLoops
    <2>1. Knows(lines) /\ phase' = "running" /\ data' = data
      BY <1>3, StartLoopsKnow
    <2>2. l \in ResultFields \ {"outline_com"}
      BY Names DEF OwnLoops
    <2>3. \A q \in Posts, o \in {"success", "failure"} : KnownAs(l, q, o)' = KnownAs(l, q, o)
      BY <1>1, <2>1, <2>2 DEF Knows, KnowsOf, Has, KnownAs, InFile
    <2> QED  BY <1>2, <2>3, SubmissionStutters
  <1>4. CASE Start \/ ReplayLine
    <2>1. phase' # "running"
      BY <1>1, <1>4 DEF Start, ReplayLine
    <2>2. \A q \in Posts, o \in {"success", "failure"} : KnownAs(l, q, o)' = KnownAs(l, q, o)
      BY <1>1, <2>1 DEF KnownAs, InFile
    <2> QED  BY <1>2, <2>2, SubmissionStutters
  <1> QED  BY <1>3, <1>4

LEMMA WriterRuns ==
    ASSUME TypeOK, WriterStep \/ WriterFails
    PROVE  phase = "running" /\ UNCHANGED <<replayVars, workVars, taskVars>>
  <1>1. writer # "off"
    BY DEF WriterStep, WriterFails, Log!WriterStep, Log!BeginCommit, Log!SendLine, Log!EndSend,
           Log!Sync, Log!SelectNotified, Log!SelectCancelled, Log!SendFails, Log!SyncFails
  <1> QED  BY <1>1 DEF TypeOK, WriterStep, WriterFails

LEMMA RestStutters ==
    ASSUME TypeOK, RecoveryInv, NEW l \in OwnLoops,
           \/ Quiet \/ WriterStep \/ WriterFails
           \/ phase = "running" /\ \E p \in Posts : InsertNew(p) \/ \E m \in Workers : PollSkip(m, p)
    PROVE  UNCHANGED Submitting(l)!vars
  <1>1. l \in SubmitLoops /\ l \in Loops /\ l # "collect"
    BY Names DEF OwnLoops
  <1>2. CASE Quiet
    <2>1. Hand(l)' = Hand(l)
      BY <1>1, <1>2 DEF Quiet, Hand
    <2>2. \A q \in Posts, o \in {"success", "failure"} : KnownAs(l, q, o)' = KnownAs(l, q, o)
      BY <1>2 DEF Quiet, KnownAs, InFile
    <2> QED  BY <2>1, <2>2, SubmissionStutters
  <1>3. ASSUME phase = "running", phase' = phase, data' = data, current'[l] = current[l],
               pc'[l] = "submit" <=> pc[l] = "submit"
        PROVE  UNCHANGED Submitting(l)!vars
    <2>1. Hand(l)' = Hand(l)
      BY <1>3 DEF Hand
    <2>2. \A q \in Posts, o \in {"success", "failure"} : KnownAs(l, q, o)' = KnownAs(l, q, o)
      BY <1>3 DEF KnownAs
    <2> QED  BY <2>1, <2>2, SubmissionStutters
  <1>4. CASE WriterStep \/ WriterFails
    BY <1>3, <1>4, WriterRuns DEF replayVars, workVars, taskVars
  <1>5. ASSUME phase = "running", NEW p \in Posts, InsertNew(p) PROVE UNCHANGED Submitting(l)!vars
    <2>1. data' = data /\ phase' = phase /\ current' = current
      BY <1>5 DEF InsertNew, NotSeen, RecoveryInv, DataInv, TypeOK, replayVars
    <2>2. pc'[l] = pc[l]
      BY <1>1, <1>5 DEF InsertNew, EndOfListing, Go, TypeOK
    <2> QED  BY <1>3, <1>5, <2>1, <2>2
  <1>6. ASSUME phase = "running", NEW p \in Posts, NEW m \in Workers, PollSkip(m, p)
        PROVE  UNCHANGED Submitting(l)!vars
    <2>1. data' = data /\ phase' = phase /\ current' = current /\ pc[m] = "poll"
      BY <1>6 DEF PollSkip, Pop, HasQueue, replayVars
    <2>2. \E where \in {"fetch", "done", "poll"} : pc' = [pc EXCEPT ![m] = where]
      BY <1>6 DEF PollSkip, Again, Go
    <2>3. pc'[l] = "submit" <=> pc[l] = "submit"
      BY <1>1, <2>1, <2>2 DEF TypeOK
    <2> QED  BY <1>3, <1>6, <2>1, <2>3
  <1> QED  BY <1>2, <1>4, <1>5, <1>6


LEMMA SubmissionStep ==
    ASSUME TypeOK, TypeOK', RecoveryInv, HandInv, [Next]_vars, NEW l \in OwnLoops
    PROVE  [Submitting(l)!Next]_(Submitting(l)!vars)
  <1>1. CASE Stops
    BY <1>1, StopCrashes DEF Submitting!Next
  <1>2. ASSUME phase = "running", NEW m \in Workers, NEW p \in Posts, PollTake(m, p)
        PROVE  [Submitting(l)!Next]_(Submitting(l)!vars)
    BY <1>2, TakeBegins, OthersTake DEF Submitting!Next
  <1>3. ASSUME phase = "running", NEW m \in SubmitLoops, NEW o \in {"success", "failure"},
               Submitted(m, o)
        PROVE  [Submitting(l)!Next]_(Submitting(l)!vars)
    BY <1>3, SubmittedIsEnd, OthersEnd DEF Submitting!Next, Submitting!AnyEnd
  <1>4. CASE Start \/ ReplayLine \/ StartLoops
    BY <1>4, StartStutters
  <1>5. CASE \/ Quiet \/ WriterStep \/ WriterFails
             \/ phase = "running" /\ \E p \in Posts : InsertNew(p) \/ \E m \in Workers : PollSkip(m, p)
    BY <1>5, RestStutters
  <1> QED  BY <1>1, <1>2, <1>3, <1>4, <1>5, Steps

LEMMA SubmissionInit == ASSUME Init, NEW l \in OwnLoops PROVE Submitting(l)!Init
  <1>1. pc[l] = "first" /\ phase = "down" /\ lines = <<>>
    BY Names DEF Init, Log!Init, FirstStates, OwnLoops
  <1>2. \A p \in Posts, o \in {"success", "failure"} : ~KnownAs(l, p, o)
    BY <1>1 DEF KnownAs, InFile
  <1> QED  BY <1>1, <1>2 DEF Submitting!Init, Hand, KnownOutcomes

\* The loops of Wikiwix, the Google cache and the screenshot do what Submission says:
\* one submission at a time, each with one outcome, and none of what has an outcome
\* unless a stop made it forgotten (state.rs:564-631).
THEOREM LoopsSubmit == Spec => ImplementsSubmissions
  <1>1. Init => \A l \in OwnLoops : Submitting(l)!Init
    BY SubmissionInit
  <1>2. TypeOK /\ TypeOK' /\ RecoveryInv /\ HandInv /\ [Next]_vars =>
            [\A l \in OwnLoops : [Submitting(l)!Next]_(Submitting(l)!vars)]_vars
    BY SubmissionStep
  <1> QED
    BY <1>1, <1>2, RecoveryInductive, TypeCorrect, HandsInductive, PTL
    DEF Spec, ImplementsSubmissions

\* So does each of them for itself, as a refinement of the specification.
THEOREM LoopRefinesSubmission == ASSUME NEW l \in OwnLoops PROVE Spec => Submitting(l)!Safety
  <1>1. Init => Submitting(l)!Init
    BY SubmissionInit
  <1>2. TypeOK /\ TypeOK' /\ RecoveryInv /\ HandInv /\ [Next]_vars =>
            [Submitting(l)!Next]_(Submitting(l)!vars)
    BY SubmissionStep
  <1> QED
    BY <1>1, <1>2, RecoveryInductive, TypeCorrect, HandsInductive, PTL
    DEF Spec, Submitting!Safety


----------------------------------------------------------------------------
(* Backlog *)

\* The posts announced in the file are seen even when the writer has given up.
LinesSeen == phase = "running" => \A p \in Posts : InFile(NewPost(p)) => p \in seen

LEMMA WriterSeen ==
    ASSUME TypeOK, TypeOK', RecoveryInv, LinesSeen, WriterStep \/ WriterFails
    PROVE  LinesSeen'
  <1>1. phase = "running" /\ seen' = seen
    BY WriterRuns DEF workVars
  <1>2. IsCut \/ IsSent
    BY WriterFile DEF WriterStep, WriterFails
  <1>3. CASE IsCut
    BY <1>1, <1>3, CutFile DEF LinesSeen
  <1>4. CASE IsSent
    <2>1. lines \in Seq(Change) /\ uncommitted \in Seq(Change) /\ lines' \in Seq(Change)
      BY SeqTypes DEF TypeOK, Log!TypeOK
    <2>2. Tail(uncommitted) \in Seq(Change) /\ Reported = lines' \o Tail(uncommitted)
      BY <1>4, <2>1, ConcatHead DEF IsSent, Reported
    <2>3. \A i \in 1..Len(lines') : i \in 1..Len(Reported) /\ lines'[i] = Reported[i]
      BY <2>1, <2>2, ConcatProperties, LenProperties
    <2>4. Knows(Reported)
      BY <1>1, <1>4 DEF IsSent, RecoveryInv, FileInv, Live
    <2> QED  BY <1>1, <2>3, <2>4 DEF Knows, KnowsOf, Has, InFile, LinesSeen
  <1> QED  BY <1>2, <1>3, <1>4

LEMMA SeenStep ==
    ASSUME TypeOK, TypeOK', RecoveryInv, HandInv, LinesSeen, [Next]_vars
    PROVE  LinesSeen'
  <1>1. ASSUME phase = "running", seen \subseteq seen', lines' = lines PROVE LinesSeen'
    BY <1>1 DEF LinesSeen, InFile
  <1>2. CASE Quiet
    BY <1>2 DEF Quiet, LinesSeen, InFile
  <1>3. CASE Start \/ ReplayLine \/ Stops
    BY <1>3 DEF Start, ReplayLine, Stops, ReplayFails, Exit, Kill, PowerLoss, Down, LinesSeen
  <1>4. CASE StartLoops
    BY <1>4, StartLoopsKnow DEF Knows, KnowsOf, Has, InFile, LinesSeen
  <1>5. CASE WriterStep \/ WriterFails
    BY <1>5, WriterSeen
  <1>6. ASSUME phase = "running", NEW p \in Posts, InsertNew(p) PROVE LinesSeen'
    BY <1>1, <1>6 DEF InsertNew, Log!LogChanges, Log!fileVars
  <1>7. ASSUME phase = "running", NEW m \in Workers, NEW p \in Posts,
               PollSkip(m, p) \/ PollTake(m, p)
        PROVE  LinesSeen'
    BY <1>1, <1>7 DEF PollSkip, PollTake, logVars, logOnlyVars
  <1>8. ASSUME phase = "running", NEW m \in SubmitLoops, NEW o \in {"success", "failure"},
               Submitted(m, o)
        PROVE  LinesSeen'
    BY <1>1, <1>8, SubmittedEnds DEF Ends
  <1> QED  BY <1>2, <1>3, <1>4, <1>5, <1>6, <1>7, <1>8, Steps

LEMMA SeenInductive == Spec => []LinesSeen
  <1>1. Init => LinesSeen
    BY DEF Init, LinesSeen
  <1>2. TypeOK /\ TypeOK' /\ RecoveryInv /\ HandInv /\ LinesSeen /\ [Next]_vars => LinesSeen'
    BY SeenStep
  <1> QED  BY <1>1, <1>2, RecoveryInductive, TypeCorrect, HandsInductive, PTL DEF Spec

\* A step that Backlog does not see.
LEMMA BacklogStutters ==
    ASSUME NEW l, seen' = seen, queue'[l] = queue[l], \A p \in Posts : IsFound(p)' <=> IsFound(p)
    PROVE  UNCHANGED Queueing(l)!vars
  <1>1. DatesFound' = DatesFound
    BY DEF DatesFound
  <1> QED  BY <1>1 DEF Queueing!vars

\* The steps that change the queue of a submit loop.
LEMMA QueueSteps ==
    ASSUME TypeOK, [Next]_vars
    PROVE  \/ \A l \in SubmitLoops : queue'[l] = queue[l]
           \/ Stops \/ ReplayLine
           \/ /\ phase = "running"
              /\ \/ \E p \in Posts : InsertNew(p)
                 \/ \E m \in Workers, p \in Posts : PollSkip(m, p) \/ PollTake(m, p)
  <1> USE DEF workVars
  <1>1. CASE UNCHANGED vars
    BY <1>1 DEF vars
  <1>2. CASE Start \/ StartLoops \/ CtrlC \/ LoginFails
    BY <1>2 DEF Start, StartLoops, CtrlC, LoginFails
  <1>3. CASE WriterStep \/ WriterFails
    BY <1>3 DEF WriterStep, WriterFails
  <1>4. CASE phase = "running" /\ CollectorStep
    BY <1>4 DEF CollectorStep, Fetch, InsertSeen, Wake, GiveUp, Return
  <1>5. ASSUME phase = "running", NEW m \in Workers, WorkerStep(m)
        PROVE  \/ \A l \in SubmitLoops : queue'[l] = queue[l]
               \/ \E p \in Posts : PollSkip(m, p) \/ PollTake(m, p)
    <2>1. ASSUME m \in SubmitLoops, Enqueue(m) PROVE \A l \in SubmitLoops : queue'[l] = queue[l]
      BY <2>1, Names DEF Enqueue, Insert
    <2>2. CASE PollEmpty(m) \/ Wake(m) \/ Notified(m) \/ GiveUp(m)
      BY <2>2 DEF PollEmpty, Wake, Notified, GiveUp, Return
    <2>3. ASSUME NEW o \in {"success", "failure"}, Submitted(m, o) PROVE queue' = queue
      BY <2>3 DEF Submitted
    <2> QED  BY <1>5, <2>1, <2>2, <2>3 DEF WorkerStep, SubmitterStep
  <1> QED  BY <1>1, <1>2, <1>3, <1>4, <1>5 DEF Next, LoopStep, Fault, Stops


\* A post that was not seen is found with its own date.
LEMMA InsertFinds ==
    ASSUME TypeOK, phase = "running", NEW l \in SubmitLoops, NEW p \in Posts, InsertNew(p)
    PROVE  Queueing(l)!Find(p, p)
  <1>1. /\ phase' = phase /\ p \notin seen /\ seen' = seen \cup {p}
        /\ queue' = Insert(p, SubmitLoops)
    BY DEF InsertNew, NotSeen, replayVars
  <1>2. queue'[l] = queue[l] \cup {p}
    BY <1>1, Names DEF Insert
  <1>3. DatesFound[p] = NoPost
    BY <1>1 DEF DatesFound, IsFound
  <1>4. DatesFound' = [DatesFound EXCEPT ![p] = p]
    BY <1>1 DEF DatesFound, IsFound
  <1> QED  BY <1>1, <1>2, <1>3, <1>4 DEF Queueing!Find

\* The newest of the waiting posts is taken.
LEMMA PopTakes ==
    ASSUME TypeOK, HandInv, phase = "running", NEW l \in SubmitLoops, NEW p \in Posts,
           PollSkip(l, p) \/ PollTake(l, p)
    PROVE  Queueing(l)!Take(p)
  <1>1. /\ phase' = phase /\ seen' = seen
        /\ p \in queue[l] /\ \A q \in queue[l] : q <= p
        /\ queue' = [queue EXCEPT ![l] = @ \ {p}]
    BY DEF PollSkip, PollTake, Pop, replayVars
  <1>2. queue'[l] = queue[l] \ {p} /\ queue[l] \subseteq seen /\ seen \subseteq Posts
    BY <1>1, Names DEF TypeOK, HandInv, Known
  <1>3. DatesFound' = DatesFound
    BY <1>1 DEF DatesFound, IsFound
  <1>4. Queueing(l)!IsNewest(p)
    <2>1. \A q \in queue[l] : DatesFound[q] = q /\ q \in Nat
      BY <1>2, PostsAssumption DEF DatesFound, IsFound
    <2>2. p \in Nat
      BY PostsAssumption
    <2> QED  BY <1>1, <2>1, <2>2 DEF Queueing!IsNewest
  <1> QED  BY <1>1, <1>2, <1>3, <1>4 DEF Queueing!Take

LEMMA OthersPop ==
    ASSUME TypeOK, phase = "running", NEW l \in SubmitLoops, NEW m \in Workers, m # l,
           NEW p \in Posts, PollSkip(m, p) \/ PollTake(m, p)
    PROVE  UNCHANGED Queueing(l)!vars
  <1>1. /\ phase' = phase /\ seen' = seen
        /\ queue' = [queue EXCEPT ![m] = @ \ {p}]
    BY DEF PollSkip, PollTake, Pop, replayVars
  <1>2. queue'[l] = queue[l]
    BY <1>1, Names DEF TypeOK
  <1> QED  BY <1>1, <1>2, BacklogStutters DEF IsFound

\* A post is announced once, so the replay offers it once; its outcomes are not
\* offered to a submit loop.
LEMMA ReplayRestores ==
    ASSUME TypeOK, RecoveryInv, ReplayLine, NEW l \in SubmitLoops
    PROVE  [Queueing(l)!Next]_(Queueing(l)!vars)
  <1> DEFINE c == lines[replayed + 1]
  <1>1. /\ phase = "replay" /\ phase' = "replay" /\ lines' = lines
        /\ replayed \in Nat /\ replayed < Len(lines) /\ lines \in Seq(Change)
    BY SeqTypes DEF ReplayLine, logVars, logOnlyVars, TypeOK
  <1>2. c \in Change /\ replayed + 1 \in 1..Len(lines)
    BY <1>1
  <1>3. DatesFound' = DatesFound
    BY <1>1 DEF DatesFound, IsFound, InFile
  <1>4. CASE c.field # "new"
    <2>1. ApplyOutcome(c)
      BY <1>4 DEF ReplayLine
    <2>2. queue'[l] = queue[l] /\ seen' = seen
      BY <2>1, Names DEF ApplyOutcome, Insert
    <2> QED  BY <1>3, <2>2 DEF Queueing!vars
  <1>5. CASE c.field = "new"
    <2> DEFINE p == c.post
    <2>1. c = NewPost(p) /\ p \in Posts
      BY <1>2, <1>5, ChangeParts DEF RecoveryInv, FileInv, Ordered
    <2>2. DatesFound[p] # NoPost
      <3>1. IsFound(p)
        BY <1>1, <1>2, <2>1 DEF IsFound, InFile
      <3> QED  BY <2>1, <3>1, PostsAssumption DEF DatesFound, NoPost
    <2>3. p \notin seen
      <3> DEFINE read == SubSeq(lines, 1, replayed)
      <3>1. Len(read) = replayed /\ \A i \in 1..replayed : read[i] = lines[i]
        BY <1>1
      <3>2. \A i \in 1..replayed : ~(lines[i].field = c.field /\ lines[i].post = p)
        <4>1. \A i \in 1..replayed : i \in 1..((replayed + 1) - 1)
          BY <1>1
        <4> QED  BY <1>2, <1>5, <4>1 DEF RecoveryInv, FileInv, Ordered
      <3>3. ~Has(read, NewPost(p))
        <4>1. NewPost(p).field = c.field /\ NewPost(p).post = p
          BY <1>5 DEF NewPost
        <4> QED  BY <3>1, <3>2, <4>1 DEF Has
      <3> QED  BY <1>1, <2>1, <3>3 DEF RecoveryInv, ReplayInv, Knows, KnowsOf
    <2>4. ApplyNewPost(p)
      BY <1>5 DEF ReplayLine
    <2>5. seen' = seen \cup {p} /\ (queue'[l] = queue[l] \/ queue'[l] = queue[l] \cup {p})
      BY <2>4, Names DEF ApplyNewPost, Insert
    <2>6. Queueing(l)!Restore(p)
      BY <1>3, <2>2, <2>3, <2>5 DEF Queueing!Restore
    <2> QED  BY <2>1, <2>6 DEF Queueing!Next
  <1> QED  BY <1>4, <1>5

\* A stop forgets the posts that are not in the file, and what was offered.
LEMMA StopForgets ==
    ASSUME TypeOK, TypeOK', LinesSeen, Stops, NEW l \in SubmitLoops
    PROVE  Queueing(l)!Crash
  <1> DEFINE inFile(p) == InFile(NewPost(p))'
             kept == {p \in Posts : inFile(p)}
  <1>1. Down /\ IsCut
    BY StopsCut
  <1>2. seen' = {} /\ queue'[l] = {}
    BY <1>1, Names DEF Down, NoQueues
  <1>3. \A p \in Posts : IsFound(p)' <=> inFile(p)
    BY <1>1 DEF Down, IsFound
  <1>4. \A p \in Posts : inFile(p) => IsFound(p)
    BY <1>1, CutFile DEF LinesSeen, IsFound
  <1>5. DatesFound' = [p \in Posts |-> IF p \in kept THEN DatesFound[p] ELSE NoPost]
    BY <1>3, <1>4 DEF DatesFound
  <1>6. kept \in SUBSET Posts
    OBVIOUS
  <1> HIDE DEF kept
  <1> QED  BY <1>2, <1>5, <1>6 DEF Queueing!Crash

\* The other steps do not find, take or forget a post.
LEMMA BacklogRest ==
    ASSUME TypeOK, RecoveryInv, HandInv, NEW l \in SubmitLoops, queue'[l] = queue[l],
           \/ Quiet \/ Start \/ StartLoops \/ WriterStep \/ WriterFails
           \/ phase = "running" /\ \E m \in SubmitLoops, o \in {"success", "failure"} : Submitted(m, o)
    PROVE  UNCHANGED Queueing(l)!vars
  <1>1. CASE Quiet
    BY <1>1, BacklogStutters DEF Quiet, IsFound, InFile
  <1>2. CASE Start
    <2>1. UNCHANGED <<lines, seen>> /\ phase = "down" /\ phase' = "replay"
      BY <1>2 DEF Start, logVars, logOnlyVars, workVars
    <2> QED  BY <2>1, BacklogStutters DEF IsFound, InFile
  <1>3. CASE StartLoops
    <2>1. \A p \in Posts : IsFound(p)' <=> IsFound(p)
      BY <1>3, StartLoopsKnow DEF IsFound, InFile, Knows, KnowsOf, Has
    <2> QED  BY <1>3, <2>1, StartLoopsKnow, BacklogStutters
  <1>4. CASE WriterStep \/ WriterFails
    BY <1>4, WriterRuns, BacklogStutters DEF replayVars, workVars, IsFound
  <1>5. ASSUME phase = "running", NEW m \in SubmitLoops, NEW o \in {"success", "failure"},
               Submitted(m, o)
        PROVE  UNCHANGED Queueing(l)!vars
    <2>1. phase' = phase /\ seen' = seen
      BY <1>5 DEF Submitted, replayVars
    <2> QED  BY <1>5, <2>1, BacklogStutters DEF IsFound
  <1> QED  BY <1>1, <1>2, <1>3, <1>4, <1>5

LEMMA BacklogStep ==
    ASSUME TypeOK, TypeOK', RecoveryInv, HandInv, LinesSeen, [Next]_vars, NEW l \in SubmitLoops
    PROVE  [Queueing(l)!Next]_(Queueing(l)!vars)
  <1>1. ASSUME phase = "running", NEW p \in Posts, InsertNew(p)
        PROVE  [Queueing(l)!Next]_(Queueing(l)!vars)
    BY <1>1, InsertFinds DEF Queueing!Next
  <1>2. ASSUME phase = "running", NEW m \in Workers, NEW p \in Posts,
               PollSkip(m, p) \/ PollTake(m, p)
        PROVE  [Queueing(l)!Next]_(Queueing(l)!vars)
    BY <1>2, PopTakes, OthersPop DEF Queueing!Next
  <1>3. CASE Stops
    BY <1>3, StopForgets DEF Queueing!Next
  <1>4. CASE ReplayLine
    BY <1>4, ReplayRestores
  <1>5. ASSUME queue'[l] = queue[l],
               \/ Quiet \/ Start \/ StartLoops \/ WriterStep \/ WriterFails
               \/ phase = "running" /\ \E m \in SubmitLoops, o \in {"success", "failure"} : Submitted(m, o)
        PROVE  [Queueing(l)!Next]_(Queueing(l)!vars)
    BY <1>5, BacklogRest
  <1> QED  BY <1>1, <1>2, <1>3, <1>4, <1>5, Steps, QueueSteps

LEMMA BacklogInit == ASSUME Init, NEW l \in SubmitLoops PROVE Queueing(l)!Init
  <1>1. phase = "down" /\ lines = <<>> /\ seen = {} /\ queue[l] = {}
    BY Names DEF Init, Log!Init, NoQueues
  <1> QED  BY <1>1 DEF Queueing!Init, DatesFound, IsFound, InFile

\* A submit loop takes its posts from its queue as Backlog says: a start offers each
\* post once at most, with the date it had before the stop, and the newest goes first
\* (reddit.rs:455-486, state.rs:276-299, 578-590).
THEOREM LoopsTakeFromBacklog == Spec => ImplementsBacklogs
  <1>1. Init => \A l \in SubmitLoops : Queueing(l)!Init
    BY BacklogInit
  <1>2. TypeOK /\ TypeOK' /\ RecoveryInv /\ HandInv /\ LinesSeen /\ [Next]_vars =>
            [\A l \in SubmitLoops : [Queueing(l)!Next]_(Queueing(l)!vars)]_vars
    BY BacklogStep
  <1> QED
    BY <1>1, <1>2, RecoveryInductive, SeenInductive, TypeCorrect, HandsInductive, PTL
    DEF Spec, ImplementsBacklogs


----------------------------------------------------------------------------
(* What is on the disk *)

\* A change is synced, and so is the end of its line.
OnDisk(change) == \E i \in 1..Log!DurablyTerminated : lines[i] = change

LEMMA DiskStep ==
    ASSUME TypeOK, TypeOK', [Next]_vars, NEW c, OnDisk(c)
    PROVE  OnDisk(c)'
  <1>1. LogProofs!TypeOK /\ LogProofs!TypeOK'
    BY SameType DEF TypeOK
  <1>2. [LogProofs!Next]_(LogProofs!vars)
    BY LogStep, SameStep
  <1>3. LogProofs!DurableStays
    BY <1>1, <1>2, ReportsAreBatches, LogProofs!DurableStep
  <1>4. LogProofs!DurablyTerminated = Log!DurablyTerminated
        /\ LogProofs!DurablyTerminated' = Log!DurablyTerminated'
    BY DEF LogProofs!DurablyTerminated, Log!DurablyTerminated, LogProofs!Terminated, Log!Terminated
  <1> QED  BY <1>3, <1>4 DEF OnDisk, LogProofs!DurableStays

LEMMA DiskIsFile == ASSUME TypeOK, NEW c, OnDisk(c) PROVE InFile(c)
  <1>1. Log!DurablyTerminated \in 0..Len(lines)
    BY DEF TypeOK, Log!TypeOK, Log!DurablyTerminated, Log!Terminated
  <1>2. 1..Log!DurablyTerminated \subseteq 1..Len(lines)
    BY <1>1 DEF TypeOK, Log!TypeOK
  <1> QED  BY <1>2 DEF OnDisk, InFile

\* A loop has no post in hand whose outcome is in the file.
LEMMA HandIsOpen ==
    ASSUME TypeOK, RecoveryInv, HandInv, NEW l \in OwnLoops, NEW p \in Posts,
           NEW o \in {"success", "failure"}, InFile(OutcomeOf(l, p, o))
    PROVE  ~(pc[l] = "submit" /\ current[l] = p)
  <1>1. KnownAs(l, p, o)
    BY FileIsKnown
  <1>2. CASE phase = "running"
    BY <1>1, <1>2 DEF KnownAs, HandInv, SubmitMarked, OwnLoops
  <1>3. CASE phase # "running"
    BY <1>3, Names DEF HandInv, LoopsIdle, FirstStates, OwnLoops
  <1> QED  BY <1>2, <1>3

\* Once the outcome of a submission is on the disk, every process that has read the
\* file knows it, and the post is never again in the hand of that loop, whatever is
\* killed, cut off or restarted (state.rs:274-375, 386-401, 580-585).
THEOREM DoneForGood ==
    ASSUME NEW l \in OwnLoops, NEW p \in Posts, NEW o \in {"success", "failure"}
    PROVE  Spec => [](OnDisk(OutcomeOf(l, p, o))
                          => [](KnownAs(l, p, o) /\ ~(pc[l] = "submit" /\ current[l] = p)))
  <1> DEFINE Done == OnDisk(OutcomeOf(l, p, o))
             Settled == KnownAs(l, p, o) /\ ~(pc[l] = "submit" /\ current[l] = p)
  <1>1. TypeOK /\ TypeOK' /\ Done /\ [Next]_vars => Done'
    BY DiskStep
  <1>2. TypeOK /\ RecoveryInv /\ HandInv /\ Done => Settled
    BY DiskIsFile, HandIsOpen, FileIsKnown
  <1> HIDE DEF Done, Settled
  <1>3. Spec => [](Done => []Settled)
    BY <1>1, <1>2, TypeCorrect, RecoveryInductive, HandsInductive, PTL DEF Spec
  <1> QED  BY <1>3 DEF Done, Settled

\* Once the announcement of a post is on the disk, every process that runs has seen it,
\* so that it is not found a second time (state.rs:276-299, reddit.rs:468-474).
THEOREM FoundForGood ==
    ASSUME NEW p \in Posts
    PROVE  Spec => [](OnDisk(NewPost(p)) => [](phase = "running" => p \in seen))
  <1> DEFINE Announced == OnDisk(NewPost(p))
             Seen == phase = "running" => p \in seen
  <1>1. TypeOK /\ TypeOK' /\ Announced /\ [Next]_vars => Announced'
    BY DiskStep
  <1>2. TypeOK /\ LinesSeen /\ Announced => Seen
    BY DiskIsFile DEF LinesSeen
  <1> HIDE DEF Announced, Seen
  <1>3. Spec => [](Announced => []Seen)
    BY <1>1, <1>2, TypeCorrect, SeenInductive, PTL DEF Spec
  <1> QED  BY <1>3 DEF Announced, Seen

============================================================================
