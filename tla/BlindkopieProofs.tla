-------------------------- MODULE BlindkopieProofs --------------------------
(***************************************************************************)
(* Theorems about Blindkopie.tla, for every set of posts and every choice  *)
(* of the submit loops that run.                                           *)
(***************************************************************************)
EXTENDS Blindkopie, SequenceTheorems, TLAPS

LogProofs == INSTANCE ChangelogProofs WITH Batches <- Reports

----------------------------------------------------------------------------
(* The changelog within the service *)

\* What the loops report is what Changelog.tla assumes of its batches.
LEMMA ReportsAreBatches == Reports \subseteq Seq(Change) \ {<<>>}
  <1>1. ASSUME NEW p \in Posts PROVE <<NewPost(p)>> \in Seq(Change) \ {<<>>}
    BY DEF NewPost, Change
  <1>2. ASSUME NEW l \in SubmitLoops, NEW p \in Posts, NEW o \in {"success", "failure"}
        PROVE  Report(l, p, o) \in Seq(Change) \ {<<>>}
    <2>1. CASE l = "screenshot"
      BY <2>1 DEF Report, OutcomeOf, Change, ResultFields
    <2>2. CASE l # "screenshot"
      BY <2>2 DEF Report, OutcomeOf, Change, ResultFields, SubmitLoops
    <2> QED  BY <2>1, <2>2
  <1>3. ASSUME NEW r \in Reports PROVE r \in Seq(Change) \ {<<>>}
    <2>1. CASE \E p \in Posts : r = <<NewPost(p)>>
      BY <2>1, <1>1
    <2>2. CASE \E l \in SubmitLoops, p \in Posts, o \in {"success", "failure"} :
                   r = Report(l, p, o)
      BY <2>2, <1>2
    <2> QED  BY <2>1, <2>2 DEF Reports
  <1> QED  BY <1>3

\* The two instances of Changelog.tla, the service's and that of the proofs, are
\* the same specification.
LEMMA SameType ==
    /\ LogProofs!TypeOK <=> Log!TypeOK
    /\ LogProofs!TypeOK' <=> Log!TypeOK'
  BY DEF LogProofs!TypeOK, Log!TypeOK, LogProofs!Tails, Log!Tails,
         LogProofs!WriterStates, Log!WriterStates

LEMMA SameStep == [LogProofs!Next]_(LogProofs!vars) <=> [Log!Next]_(Log!vars)
  BY DEF LogProofs!Next, Log!Next, LogProofs!vars, Log!vars,
         LogProofs!fileVars, Log!fileVars, LogProofs!memoryVars, Log!memoryVars,
         LogProofs!Open, Log!Open, LogProofs!LogChanges, Log!LogChanges,
         LogProofs!Cancel, Log!Cancel, LogProofs!WriterStep, Log!WriterStep,
         LogProofs!BeginCommit, Log!BeginCommit, LogProofs!SendLine, Log!SendLine,
         LogProofs!AppendLine, Log!AppendLine, LogProofs!Garble, Log!Garble,
         LogProofs!Terminated, Log!Terminated,
         LogProofs!DurablyTerminated, Log!DurablyTerminated,
         LogProofs!EndSend, Log!EndSend, LogProofs!Sync, Log!Sync,
         LogProofs!SelectNotified, Log!SelectNotified,
         LogProofs!SelectCancelled, Log!SelectCancelled, LogProofs!Finish, Log!Finish,
         LogProofs!SendFails, Log!SendFails, LogProofs!AppendTorn, Log!AppendTorn,
         LogProofs!SyncFails, Log!SyncFails, LogProofs!Stop, Log!Stop,
         LogProofs!Forget, Log!Forget, LogProofs!PowerLoss, Log!PowerLoss

LEMMA LogTypeStep == Log!TypeOK /\ [Log!Next]_(Log!vars) => Log!TypeOK'
  BY ReportsAreBatches, SameType, SameStep, LogProofs!TypeStep

\* A step of the service is a step of its changelog, or leaves it alone.
LEMMA LogStep == ASSUME TypeOK, [Next]_vars PROVE [Log!Next]_(Log!vars)
  <1> USE DEF Log!Next, Log!vars, logVars, logOnlyVars
  <1>1. CASE Start \/ ReplayLine \/ ReplayFails
    BY <1>1 DEF Start, ReplayLine, ReplayFails
  <1>2. CASE StartLoops \/ Exit \/ CtrlC \/ LoginFails
    BY <1>2 DEF StartLoops, Exit, CtrlC, LoginFails
  <1>3. CASE Fault
    BY <1>3 DEF Fault, Kill, PowerLoss, WriterFails
  <1>4. CASE LoopStep
    <2>1. CASE WriterStep
      BY <2>1 DEF WriterStep
    <2>2. ASSUME NEW l \in Loops, Wake(l) \/ GiveUp(l) PROVE [Log!Next]_(Log!vars)
      BY <2>2 DEF Wake, GiveUp, Return, Again, Log!Cancel
    <2>3. ASSUME NEW p \in Posts, InsertSeen(p) \/ InsertNew(p) PROVE [Log!Next]_(Log!vars)
      <3>1. <<NewPost(p)>> \in Reports
        BY DEF Reports
      <3> QED  BY <2>3, <3>1 DEF InsertSeen, InsertNew
    <2>4. ASSUME NEW posts \in SUBSET Posts, Fetch(posts) PROVE [Log!Next]_(Log!vars)
      BY <2>4 DEF Fetch
    <2>5. ASSUME NEW l \in Workers, PollEmpty(l) \/ Notified(l) PROVE [Log!Next]_(Log!vars)
      BY <2>5 DEF PollEmpty, Notified, Again, Loops, Workers
    <2>6. ASSUME NEW l \in Workers, NEW p \in Posts, PollSkip(l, p) \/ PollTake(l, p)
          PROVE  [Log!Next]_(Log!vars)
      BY <2>6 DEF PollSkip, PollTake, Again
    <2>7. ASSUME NEW l \in SubmitLoops, SubmitterStep(l) PROVE [Log!Next]_(Log!vars)
      <3>1. CASE Enqueue(l)
        BY <3>1 DEF Enqueue
      <3>2. ASSUME NEW o \in {"success", "failure"}, Submitted(l, o)
            PROVE  [Log!Next]_(Log!vars)
        <4>1. Report(l, current[l], o) \in Reports
          BY <3>2 DEF Submitted, TypeOK, Reports
        <4> QED  BY <3>2, <4>1 DEF Submitted
      <3> QED  BY <2>7, <3>1, <3>2 DEF SubmitterStep
    <2>8. CASE CollectorStep
      BY <2>8, <2>2, <2>3, <2>4 DEF CollectorStep, Loops
    <2>9. ASSUME NEW l \in Workers, WorkerStep(l) PROVE [Log!Next]_(Log!vars)
      BY <2>9, <2>2, <2>5, <2>6, <2>7 DEF WorkerStep, Loops
    <2> QED  BY <1>4, <2>1, <2>8, <2>9 DEF LoopStep
  <1>5. CASE UNCHANGED vars
    BY <1>5 DEF vars
  <1> QED  BY <1>1, <1>2, <1>3, <1>4, <1>5 DEF Next

----------------------------------------------------------------------------
(* Types *)

\* Which steps start and stop the writer.
LEMMA PhaseStep ==
    ASSUME TypeOK, [Next]_vars
    PROVE  /\ phase' \in {"down", "replay", "running"}
           /\ writer' = "off" <=> phase' # "running"
  <1> USE DEF TypeOK, replayVars
  <1>1. CASE Start
    BY <1>1 DEF Start, logVars, logOnlyVars
  <1>2. CASE ReplayLine
    BY <1>2 DEF ReplayLine, logVars, logOnlyVars
  <1>3. CASE ReplayFails
    BY <1>3 DEF ReplayFails, Down, logVars, logOnlyVars
  <1>4. CASE StartLoops
    BY <1>4 DEF StartLoops, Log!Open
  <1>5. CASE Exit \/ Kill \/ PowerLoss
    BY <1>5 DEF Exit, Kill, PowerLoss, Down, Log!Stop, Log!PowerLoss, Log!Forget
  <1>6. CASE CtrlC \/ LoginFails
    BY <1>6 DEF CtrlC, LoginFails, Log!Cancel, Log!memoryVars
  <1>7. CASE WriterFails
    BY <1>7 DEF WriterFails, Log!SendFails, Log!SyncFails, Log!Finish
  <1>8. CASE LoopStep
    <2>1. CASE WriterStep
      BY <2>1 DEF WriterStep, Log!WriterStep, Log!BeginCommit, Log!SendLine, Log!EndSend,
                  Log!Sync, Log!SelectNotified, Log!SelectCancelled, Log!Finish
    <2>2. ASSUME NEW l \in Loops, Wake(l) \/ GiveUp(l) PROVE phase' = phase /\ writer' = writer
      BY <2>2 DEF Wake, GiveUp, Return, Log!Cancel, Log!memoryVars, logOnlyVars
    <2>3. ASSUME NEW p \in Posts, InsertSeen(p) \/ InsertNew(p)
          PROVE  phase' = phase /\ writer' = writer
      BY <2>3 DEF InsertSeen, InsertNew, Log!LogChanges, logVars, logOnlyVars
    <2>4. ASSUME NEW posts \in SUBSET Posts, Fetch(posts) PROVE phase' = phase /\ writer' = writer
      BY <2>4 DEF Fetch, logVars, logOnlyVars
    <2>5. ASSUME NEW l \in Workers, PollEmpty(l) \/ Notified(l)
          PROVE  phase' = phase /\ writer' = writer
      BY <2>5 DEF PollEmpty, Notified, logVars, logOnlyVars
    <2>6. ASSUME NEW l \in Workers, NEW p \in Posts, PollSkip(l, p) \/ PollTake(l, p)
          PROVE  phase' = phase /\ writer' = writer
      BY <2>6 DEF PollSkip, PollTake, logVars, logOnlyVars
    <2>7. ASSUME NEW l \in SubmitLoops, SubmitterStep(l) PROVE phase' = phase /\ writer' = writer
      BY <2>7 DEF SubmitterStep, Submitted, Enqueue, Log!LogChanges, logVars, logOnlyVars
    <2>8. CASE CollectorStep
      BY <2>8, <2>2, <2>3, <2>4 DEF CollectorStep, Loops
    <2>9. ASSUME NEW l \in Workers, WorkerStep(l) PROVE phase' = phase /\ writer' = writer
      BY <2>9, <2>2, <2>5, <2>6, <2>7 DEF WorkerStep, Loops
    <2> QED  BY <1>8, <2>1, <2>8, <2>9 DEF LoopStep
  <1>9. CASE UNCHANGED vars
    BY <1>9 DEF vars, logVars, logOnlyVars
  <1> QED  BY <1>1, <1>2, <1>3, <1>4, <1>5, <1>6, <1>7, <1>8, <1>9 DEF Next, Fault

\* The part of the type invariant that is about the memory of the process.
MemoryType ==
    /\ replayed \in Nat
    /\ restored \subseteq Posts
    /\ seen \subseteq Posts
    /\ data \in [Posts -> [WorkFields -> Outcomes]]
    /\ queue \in [Workers -> SUBSET Posts]
    /\ permit \in [Workers -> BOOLEAN]
    /\ pc \in [Loops -> LoopStates]
    /\ current \in [SubmitLoops -> Posts \cup {NoPost}]
    /\ \A l \in SubmitLoops : pc[l] \in {"submit", "enqueue"} => current[l] \in Posts
    /\ listing \subseteq Posts
    /\ inserted \in BOOLEAN

\* A process that is down has the memory it begins with.
LEMMA DownType == Down => MemoryType'
  <1> SUFFICES ASSUME Down PROVE MemoryType'
    OBVIOUS
  <1> USE DEF Down
  <1>1. data' \in [Posts -> [WorkFields -> Outcomes]]
    BY DEF NoWork, NewWork, Outcomes
  <1>2. queue' \in [Workers -> SUBSET Posts] /\ permit' \in [Workers -> BOOLEAN]
    BY DEF NoQueues, NoPermits
  <1>3. pc' \in [Loops -> LoopStates] /\ \A l \in SubmitLoops : pc'[l] = "first"
    BY DEF FirstStates, LoopStates, Loops, Workers
  <1>4. current' \in [SubmitLoops -> Posts \cup {NoPost}]
    BY DEF NoCurrent
  <1> QED  BY <1>1, <1>2, <1>3, <1>4 DEF MemoryType

\* The helpers return what their variables hold.
LEMMA InsertType ==
    ASSUME MemoryType, NEW p \in Posts, NEW loops
    PROVE  Insert(p, loops) \in [Workers -> SUBSET Posts]
  BY DEF MemoryType, Insert

LEMMA NotifyType ==
    ASSUME MemoryType, NEW loops
    PROVE  Notify(loops) \in [Workers -> BOOLEAN]
  BY DEF MemoryType, Notify

\* A loop goes on without a post in hand.
LEMMA GoType ==
    ASSUME MemoryType, NEW l \in Loops, NEW where \in LoopStates \ {"submit", "enqueue"},
           Go(l, where)
    PROVE  /\ pc' \in [Loops -> LoopStates]
           /\ \A m \in SubmitLoops : pc'[m] \in {"submit", "enqueue"} => current[m] \in Posts
  BY DEF MemoryType, Go, Loops, Workers

LEMMA AgainType ==
    ASSUME MemoryType, NEW l \in Loops, Again(l)
    PROVE  /\ pc' \in [Loops -> LoopStates]
           /\ \A m \in SubmitLoops : pc'[m] \in {"submit", "enqueue"} => current[m] \in Posts
  <1>1. \E where \in {"fetch", "done", "poll"} : Go(l, where)
    BY DEF Again
  <1>2. {"fetch", "done", "poll"} \subseteq LoopStates \ {"submit", "enqueue"}
    BY DEF LoopStates
  <1> QED  BY <1>1, <1>2, GoType

\* The replay of a line.
LEMMA ReplayType == ASSUME TypeOK, MemoryType, ReplayLine PROVE MemoryType'
  <1> DEFINE c == lines[replayed + 1]
  <1>1. c \in Change
    BY ElementOfSeq DEF ReplayLine, TypeOK, Log!TypeOK, MemoryType
  <1>2. c.post \in Posts /\ c.outcome \in Outcomes /\ c.field \in ResultFields \cup {"new"}
    BY <1>1 DEF Change, Outcomes
  <1> HIDE DEF c
  <1>3. CASE c.field = "new"
    <2>1. ApplyNewPost(c.post)
      BY <1>3 DEF ReplayLine, c
    <2> QED  BY <1>2, <2>1, InsertType DEF ReplayLine, ApplyNewPost, MemoryType, taskVars
  <1>4. CASE c.field # "new"
    <2>1. ApplyOutcome(c)
      BY <1>4 DEF ReplayLine, c
    <2>2. c.field \in WorkFields
      BY <1>2, <1>4 DEF WorkFields
    <2>3. data' \in [Posts -> [WorkFields -> Outcomes]]
      BY <1>2, <2>1, <2>2 DEF ApplyOutcome, MemoryType
    <2>4. queue' \in [Workers -> SUBSET Posts]
      BY <1>2, <2>1, InsertType DEF ApplyOutcome, MemoryType
    <2> QED  BY <2>1, <2>3, <2>4 DEF ReplayLine, ApplyOutcome, MemoryType, taskVars
  <1> QED  BY <1>3, <1>4

\* The steps of collect_loop that handle a listing.
LEMMA EndOfListingType ==
    ASSUME MemoryType, NEW p \in Posts, NEW new \in BOOLEAN, EndOfListing(p, new)
    PROVE  /\ listing' \subseteq Posts /\ inserted' \in BOOLEAN
           /\ permit' \in [Workers -> BOOLEAN]
           /\ pc' \in [Loops -> LoopStates]
           /\ \A m \in SubmitLoops : pc'[m] \in {"submit", "enqueue"} => current[m] \in Posts
  <1>1. listing' \subseteq Posts /\ inserted' \in BOOLEAN
    BY DEF EndOfListing, MemoryType
  <1>2. permit' \in [Workers -> BOOLEAN]
    BY NotifyType DEF EndOfListing, MemoryType
  <1>3. CASE listing' = {}
    <2>1. Go("collect", "sleep") /\ "collect" \in Loops
          /\ "sleep" \in LoopStates \ {"submit", "enqueue"}
      BY <1>3 DEF EndOfListing, Loops, LoopStates
    <2> QED  BY <1>1, <1>2, <2>1, GoType
  <1>4. CASE listing' # {}
    BY <1>1, <1>2, <1>4 DEF EndOfListing, MemoryType
  <1> QED  BY <1>3, <1>4

LEMMA InsertStepType ==
    ASSUME MemoryType, NEW p \in Posts, InsertSeen(p) \/ InsertNew(p)
    PROVE  MemoryType'
  <1>1. CASE InsertSeen(p)
    BY <1>1, EndOfListingType DEF InsertSeen, MemoryType, replayVars
  <1>2. CASE InsertNew(p)
    <2>1. EndOfListing(p, TRUE) /\ seen' \subseteq Posts /\ UNCHANGED <<replayVars, current>>
      BY <1>2 DEF InsertNew, MemoryType
    <2>2. data' \in [Posts -> [WorkFields -> Outcomes]]
      BY <1>2 DEF InsertNew, MemoryType, NewWork, Outcomes
    <2>3. queue' \in [Workers -> SUBSET Posts]
      BY <1>2, InsertType DEF InsertNew
    <2> QED  BY <2>1, <2>2, <2>3, EndOfListingType DEF MemoryType, replayVars
  <1> QED  BY <1>1, <1>2

\* The steps of the workers.
LEMMA WorkerType ==
    ASSUME MemoryType, NEW l \in Workers, WorkerStep(l)
    PROVE  MemoryType'
  <1>0. l \in Loops /\ {"sleep", "await", "done"} \subseteq LoopStates \ {"submit", "enqueue"}
    BY DEF Loops, LoopStates
  <1>1. CASE PollEmpty(l)
    BY <1>0, <1>1, GoType DEF PollEmpty, MemoryType, replayVars, workVars
  <1>2. CASE Wake(l)
    BY <1>0, <1>2, AgainType DEF Wake, MemoryType, replayVars, workVars
  <1>3. CASE Notified(l)
    BY <1>0, <1>3, AgainType DEF Notified, MemoryType, replayVars
  <1>4. CASE GiveUp(l)
    BY <1>0, <1>4, GoType DEF GiveUp, Return, MemoryType, replayVars, workVars
  <1>5. ASSUME NEW p \in Posts, PollSkip(l, p) PROVE MemoryType'
    BY <1>0, <1>5, AgainType DEF PollSkip, Pop, MemoryType, replayVars
  <1>6. ASSUME NEW p \in Posts, PollTake(l, p) PROVE MemoryType'
    <2>1. queue' \in [Workers -> SUBSET Posts]
      BY <1>6 DEF PollTake, Pop, MemoryType
    <2>2. data' \in [Posts -> [WorkFields -> Outcomes]]
      BY <1>6 DEF PollTake, MemoryType, Outcomes
    <2>3. CASE l = "comment"
      BY <1>0, <1>6, <2>1, <2>2, <2>3, GoType DEF PollTake, MemoryType, replayVars
    <2>4. CASE l # "comment"
      <3>1. l \in SubmitLoops /\ Go(l, "submit") /\ current' = [current EXCEPT ![l] = p]
        BY <1>6, <2>4 DEF PollTake, Workers
      <3>2. /\ pc' \in [Loops -> LoopStates]
            /\ current' \in [SubmitLoops -> Posts \cup {NoPost}]
            /\ \A m \in SubmitLoops : pc'[m] \in {"submit", "enqueue"} => current'[m] \in Posts
        BY <1>0, <3>1 DEF Go, MemoryType, LoopStates
      <3> QED  BY <1>6, <2>1, <2>2, <3>2 DEF PollTake, MemoryType, replayVars
    <2> QED  BY <2>3, <2>4
  <1>7. ASSUME l \in SubmitLoops, Enqueue(l) PROVE MemoryType'
    <2>1. current[l] \in Posts
      BY <1>7 DEF Enqueue, MemoryType
    <2>2. queue' \in [Workers -> SUBSET Posts] /\ permit' \in [Workers -> BOOLEAN]
      BY <1>7, <2>1, InsertType, NotifyType DEF Enqueue
    <2>3. current' \in [SubmitLoops -> Posts \cup {NoPost}]
      BY <1>7 DEF Enqueue, MemoryType
    <2>4. /\ pc' \in [Loops -> LoopStates]
          /\ \A m \in SubmitLoops : pc'[m] \in {"submit", "enqueue"} => current'[m] \in Posts
      BY <1>0, <1>7 DEF Enqueue, Go, MemoryType
    <2> QED  BY <1>7, <2>2, <2>3, <2>4 DEF Enqueue, MemoryType, replayVars
  <1>8. ASSUME l \in SubmitLoops, NEW o \in {"success", "failure"}, Submitted(l, o)
        PROVE  MemoryType'
    <2>1. current[l] \in Posts /\ o \in Outcomes
      BY <1>8 DEF Submitted, MemoryType, Outcomes
    <2>2. data' \in [Posts -> [WorkFields -> Outcomes]]
      BY <1>8, <2>1 DEF Submitted, MemoryType
    <2>3. current' \in [SubmitLoops -> Posts \cup {NoPost}]
      BY <1>8 DEF Submitted, MemoryType
    <2>4. CASE DoComment(data'[current[l]])
      <3>1. /\ pc' \in [Loops -> LoopStates]
            /\ \A m \in SubmitLoops : pc'[m] \in {"submit", "enqueue"} => current'[m] \in Posts
        <4>1. pc' = [pc EXCEPT ![l] = "enqueue"] /\ current' = current
          BY <1>8, <2>4 DEF Submitted, Go
        <4> QED  BY <1>0, <1>8, <2>1, <4>1 DEF MemoryType, LoopStates, Loops, Workers
      <3> QED  BY <1>8, <2>2, <2>3, <3>1 DEF Submitted, MemoryType, replayVars
    <2>5. CASE ~DoComment(data'[current[l]])
      <3>1. /\ pc' \in [Loops -> LoopStates]
            /\ \A m \in SubmitLoops : pc'[m] \in {"submit", "enqueue"} => current'[m] \in Posts
        <4>1. /\ pc' = [pc EXCEPT ![l] = "sleep"]
              /\ current' = [current EXCEPT ![l] = NoPost]
          BY <1>8, <2>5 DEF Submitted, Go
        <4> QED  BY <1>0, <1>8, <2>1, <4>1 DEF MemoryType, LoopStates, Loops, Workers
      <3> QED  BY <1>8, <2>2, <2>3, <3>1 DEF Submitted, MemoryType, replayVars
    <2> QED  BY <2>4, <2>5
  <1> QED
    BY <1>1, <1>2, <1>3, <1>4, <1>5, <1>6, <1>7, <1>8 DEF WorkerStep, SubmitterStep

LEMMA MemoryStep == ASSUME TypeOK, MemoryType, [Next]_vars PROVE MemoryType'
  <1>1. CASE Start \/ StartLoops \/ CtrlC \/ LoginFails
    BY <1>1 DEF Start, StartLoops, CtrlC, LoginFails, MemoryType, replayVars, workVars, taskVars
  <1>2. CASE ReplayLine
    BY <1>2, ReplayType
  <1>3. CASE ReplayFails \/ Exit \/ Kill \/ PowerLoss
    BY <1>3, DownType DEF ReplayFails, Exit, Kill, PowerLoss
  <1>4. CASE WriterFails \/ WriterStep
    BY <1>4 DEF WriterFails, WriterStep, MemoryType, replayVars, workVars, taskVars
  <1>5. CASE CollectorStep
    <2>1. "collect" \in Loops /\ {"sleep", "insert", "done"} \subseteq LoopStates \ {"submit", "enqueue"}
      BY DEF Loops, LoopStates
    <2>2. ASSUME NEW posts \in SUBSET Posts, Fetch(posts) PROVE MemoryType'
      BY <2>1, <2>2, GoType DEF Fetch, MemoryType, replayVars, workVars
    <2>3. CASE Wake("collect")
      BY <2>1, <2>3, AgainType DEF Wake, MemoryType, replayVars, workVars
    <2>4. CASE GiveUp("collect")
      BY <2>1, <2>4, GoType DEF GiveUp, Return, MemoryType, replayVars, workVars
    <2> QED  BY <1>5, <2>2, <2>3, <2>4, InsertStepType DEF CollectorStep
  <1>6. CASE UNCHANGED vars
    BY <1>6 DEF vars, MemoryType, replayVars, workVars, taskVars
  <1> QED  BY <1>1, <1>2, <1>3, <1>4, <1>5, <1>6, WorkerType DEF Next, LoopStep, Fault

LEMMA TypeStep == TypeOK /\ [Next]_vars => TypeOK'
  <1> SUFFICES ASSUME TypeOK, [Next]_vars PROVE TypeOK'
    OBVIOUS
  <1>1. Log!TypeOK'
    BY LogStep, LogTypeStep DEF TypeOK
  <1>2. MemoryType
    BY DEF TypeOK, MemoryType
  <1>3. MemoryType'
    BY <1>2, MemoryStep
  <1> QED  BY <1>1, <1>3, PhaseStep DEF TypeOK, MemoryType

LEMMA InitType == Init => TypeOK
  <1> SUFFICES ASSUME Init PROVE TypeOK
    OBVIOUS
  <1>1. Log!TypeOK
    <2>1. LogProofs!Init
      BY DEF Init, Log!Init, LogProofs!Init
    <2> QED  BY <2>1, ReportsAreBatches, SameType, LogProofs!InitInv DEF LogProofs!IInv
  <1>2. MemoryType
    <2>1. data \in [Posts -> [WorkFields -> Outcomes]]
      BY DEF Init, NoWork, NewWork, Outcomes
    <2>2. queue \in [Workers -> SUBSET Posts] /\ permit \in [Workers -> BOOLEAN]
      BY DEF Init, NoQueues, NoPermits
    <2>3. pc \in [Loops -> LoopStates] /\ \A l \in SubmitLoops : pc[l] = "first"
      BY DEF Init, FirstStates, LoopStates, Loops, Workers
    <2>4. current \in [SubmitLoops -> Posts \cup {NoPost}]
      BY DEF Init, NoCurrent
    <2> QED  BY <2>1, <2>2, <2>3, <2>4 DEF Init, MemoryType
  <1> QED  BY <1>1, <1>2 DEF Init, Log!Init, TypeOK, MemoryType

\* Type correctness of the service, from its start to its end and beyond.
THEOREM TypeCorrect == Spec => []TypeOK
  BY InitType, TypeStep, PTL DEF Spec

\* The service does with its changelog what Changelog.tla says, so that what is
\* proved there holds here (src/state.rs:257-269, 361-401).
THEOREM ServiceUsesChangelog == Spec => Log!Spec
  <1>1. Init => Log!Init
    BY DEF Init
  <1>2. TypeOK /\ [Next]_vars => [Log!Next]_(Log!vars)
    BY LogStep
  <1> QED  BY <1>1, <1>2, TypeCorrect, PTL DEF Spec, Log!Spec

----------------------------------------------------------------------------
(* The loops and the queues *)

\* The loops do not run before they are started.
LoopsIdle == phase # "running" => pc = FirstStates

\* Nothing is worked on that was not seen.
Known ==
    /\ \A l \in Workers : queue[l] \subseteq seen
    /\ \A l \in SubmitLoops : pc[l] \in {"submit", "enqueue"} => current[l] \in seen

\* A submission marks its post, so that no other loop finds it ready meanwhile.
SubmitMarked ==
    \A l \in SubmitLoops : pc[l] = "submit" => data[current[l]][l] = "processing"

\* Between the last outcome and the comment queue the post is in one hand only.
EnqueueReady ==
    \A l \in SubmitLoops :
        pc[l] = "enqueue" =>
            ReadyToComment(data[current[l]]) /\ current[l] \notin queue["comment"]

EnqueueAlone ==
    \A l, m \in SubmitLoops :
        pc[l] = "enqueue" /\ pc[m] = "enqueue" /\ current[l] = current[m] => l = m

HandInv ==
    /\ LoopsIdle
    /\ Known
    /\ SubmitMarked
    /\ EnqueueReady
    /\ EnqueueAlone
    /\ CommentQueueIsReady

\* The names of loops and fields.
LEMMA Names ==
    /\ "comment" \notin SubmitLoops /\ "comment" \notin ResultFields
    /\ "collect" \notin Workers /\ "comment" \in Workers
    /\ SubmitLoops \subseteq Workers /\ SubmitLoops \subseteq ResultFields
    /\ Workers \subseteq Loops /\ "collect" \in Loops
    /\ ResultFields \subseteq WorkFields /\ "comment" \in WorkFields
  BY ArchivesAssumption DEF SubmitLoops, Workers, Loops, ResultFields, WorkFields

\* A post with a submission under way is not ready for its comment.
LEMMA ReadyIsDone ==
    ASSUME NEW work, ReadyToComment(work), NEW l \in SubmitLoops
    PROVE  work[l] \in {"success", "failure"}
  BY Names DEF ReadyToComment, IsDone

LEMMA ProcessingIsNotReady ==
    ASSUME NEW work, NEW l \in SubmitLoops, work[l] = "processing"
    PROVE  ~ReadyToComment(work)
  BY ReadyIsDone

\* Steps that move a loop without a post leave all that is in hand alone.
LEMMA MoveKeepsHands ==
    ASSUME TypeOK, HandInv, phase = "running", phase' = "running",
           NEW l \in Loops, NEW where, where \notin {"submit", "enqueue"}, Go(l, where),
           UNCHANGED <<seen, data, queue, current>>
    PROVE  HandInv'
  <1>1. \A m \in SubmitLoops : pc'[m] \in {"submit", "enqueue"} => pc'[m] = pc[m]
    BY Names DEF Go, TypeOK
  <1> QED
    BY <1>1 DEF HandInv, LoopsIdle, Known, SubmitMarked, EnqueueReady, EnqueueAlone,
                CommentQueueIsReady

\* So do steps that leave the loops alone, too.
LEMMA RestKeepsHands ==
    ASSUME HandInv, UNCHANGED <<seen, data, queue, pc, current>>,
           phase' = "running" \/ phase # "running"
    PROVE  HandInv'
  BY DEF HandInv, LoopsIdle, Known, SubmitMarked, EnqueueReady, EnqueueAlone, CommentQueueIsReady

LEMMA DownHands == Down => HandInv'
  <1> SUFFICES ASSUME Down PROVE HandInv'
    OBVIOUS
  <1>1. \A l \in SubmitLoops : pc'[l] = "first"
    BY Names DEF Down, FirstStates
  <1>2. \A l \in Workers : queue'[l] = {}
    BY DEF Down, NoQueues
  <1>3. phase' = "down" /\ pc' = FirstStates
    BY DEF Down
  <1> QED
    BY <1>1, <1>2, <1>3, Names DEF HandInv, LoopsIdle, Known, SubmitMarked, EnqueueReady,
                                   EnqueueAlone, CommentQueueIsReady

\* The replay fills the queues before any loop runs.
LEMMA ReplayHands == ASSUME TypeOK, HandInv, ReplayLine PROVE HandInv'
  <1> DEFINE c == lines[replayed + 1]
  <1>1. c \in Change
    BY ElementOfSeq DEF ReplayLine, TypeOK, Log!TypeOK
  <1>2. c.post \in Posts /\ c.outcome \in {"success", "failure"} /\ c.field \in ResultFields \cup {"new"}
    BY <1>1 DEF Change
  <1>3. ApplyNewPost(c.post) \/ (c.field # "new" /\ ApplyOutcome(c))
    BY DEF ReplayLine
  <1> HIDE DEF c
  <1>4. phase' = phase /\ pc' = FirstStates /\ \A l \in SubmitLoops : pc'[l] = "first"
    BY Names DEF ReplayLine, taskVars, HandInv, LoopsIdle, FirstStates
  <1>5. LoopsIdle' /\ SubmitMarked' /\ EnqueueReady' /\ EnqueueAlone'
    BY <1>4 DEF LoopsIdle, SubmitMarked, EnqueueReady, EnqueueAlone
  <1>6. CASE ApplyNewPost(c.post)
    <2>1. queue'["comment"] = queue["comment"]
      BY <1>6, Names DEF ApplyNewPost, Insert
    <2>2. \A l \in Workers : queue'[l] \subseteq seen'
      BY <1>6 DEF ApplyNewPost, Insert, HandInv, Known
    <2> QED  BY <1>4, <1>5, <1>6, <2>1, <2>2 DEF ApplyNewPost, HandInv, Known, CommentQueueIsReady
  <1>7. CASE c.field # "new" /\ ApplyOutcome(c)
    <2>1. CASE c.post \notin seen
      BY <1>4, <1>5, <1>7, <2>1 DEF ApplyOutcome, HandInv, Known, CommentQueueIsReady
    <2>2. CASE c.post \in seen
      <3>1. /\ data' = [data EXCEPT ![c.post][c.field] = c.outcome]
            /\ \/ ReadyToComment(data'[c.post]) /\ queue' = Insert(c.post, {"comment"})
               \/ queue' = queue
            /\ seen' = seen
        BY <1>7, <2>2 DEF ApplyOutcome
      <3>2. \A l \in Workers : queue'[l] \subseteq seen'
        BY <2>2, <3>1 DEF Insert, HandInv, Known
      <3>3. ASSUME NEW p \in queue'["comment"] PROVE ReadyToComment(data'[p])
        <4>1. CASE p \in queue["comment"]
          <5>1. ReadyToComment(data[p]) /\ p \in Posts /\ data[p] \in [WorkFields -> Outcomes]
            BY <4>1, Names DEF HandInv, CommentQueueIsReady, TypeOK
          <5>2. CASE p # c.post
            BY <3>1, <5>1, <5>2 DEF TypeOK
          <5>3. CASE p = c.post
            <6>1. data'[p] = [data[p] EXCEPT ![c.field] = c.outcome]
              BY <3>1, <5>1, <5>3 DEF TypeOK
            <6> QED  BY <1>2, <1>7, <5>1, <6>1, Names DEF ReadyToComment, IsDone
          <5> QED  BY <5>2, <5>3
        <4>2. CASE p \notin queue["comment"]
          BY <3>1, <3>3, <4>2, Names DEF Insert
        <4> QED  BY <4>1, <4>2
      <3> QED  BY <1>4, <1>5, <3>2, <3>3 DEF HandInv, Known, CommentQueueIsReady
    <2> QED  BY <2>1, <2>2
  <1> QED  BY <1>3, <1>6, <1>7

\* collect_loop: a new post is in nobody's hand and in no queue yet.
LEMMA InsertHands ==
    ASSUME TypeOK, HandInv, phase = "running", NEW p \in Posts, InsertSeen(p) \/ InsertNew(p)
    PROVE  HandInv'
  <1>1. /\ phase' = "running" /\ current' = current
        /\ \A m \in SubmitLoops : pc'[m] = pc[m]
    BY Names DEF InsertSeen, InsertNew, EndOfListing, Go, TypeOK, replayVars
  <1>2. CASE InsertSeen(p)
    BY <1>1, <1>2 DEF InsertSeen, HandInv, LoopsIdle, Known, SubmitMarked, EnqueueReady,
                      EnqueueAlone, CommentQueueIsReady
  <1>3. CASE InsertNew(p)
    <2>1. /\ p \notin seen /\ seen' = seen \cup {p}
          /\ queue'["comment"] = queue["comment"]
          /\ \A l \in Workers : queue'[l] \subseteq queue[l] \cup {p}
      BY <1>3, Names DEF InsertNew, NotSeen, Insert
    <2>2. \A q \in seen : data'[q] = data[q]
      BY <1>3, <2>1 DEF InsertNew, TypeOK
    <2>3. LoopsIdle' /\ Known' /\ EnqueueAlone'
      BY <1>1, <2>1 DEF HandInv, LoopsIdle, Known, EnqueueAlone
    <2>4. SubmitMarked' /\ EnqueueReady' /\ CommentQueueIsReady'
      BY <1>1, <2>1, <2>2, Names
         DEF HandInv, Known, SubmitMarked, EnqueueReady, CommentQueueIsReady
    <2> QED  BY <2>3, <2>4 DEF HandInv
  <1> QED  BY <1>2, <1>3

\* A post that is skipped leaves a queue, and nothing else happens to it.
LEMMA SkipHands ==
    ASSUME TypeOK, HandInv, phase = "running",
           NEW l \in Workers, NEW p \in Posts, PollSkip(l, p)
    PROVE  HandInv'
  <1>1. /\ phase' = "running" /\ current' = current /\ seen' = seen /\ data' = data
        /\ \A k \in Workers : queue'[k] \subseteq queue[k]
    BY DEF PollSkip, Pop, TypeOK, replayVars
  <1>2. \E where \in {"fetch", "done", "poll"} : Go(l, where)
    BY DEF PollSkip, Again
  <1>3. \A m \in SubmitLoops : pc'[m] \in {"submit", "enqueue"} => pc'[m] = pc[m]
    BY <1>2, Names DEF Go, TypeOK
  <1> QED
    BY <1>1, <1>3, Names DEF HandInv, LoopsIdle, Known, SubmitMarked, EnqueueReady,
                             EnqueueAlone, CommentQueueIsReady

\* comment_loop takes a post that is in nobody's hand.
LEMMA CommentTakeHands ==
    ASSUME TypeOK, HandInv, phase = "running", NEW p \in Posts, PollTake("comment", p)
    PROVE  HandInv'
  <1>1. /\ p \in queue["comment"] /\ ReadyToComment(data[p])
        /\ phase' = "running" /\ current' = current /\ seen' = seen
        /\ data' = [data EXCEPT ![p]["outline_com"] = "processing"]
        /\ queue' = [queue EXCEPT !["comment"] = @ \ {p}]
        /\ \A m \in SubmitLoops : pc'[m] = pc[m]
    BY Names DEF PollTake, Pop, Go, MarkedField, TypeOK, HandInv, CommentQueueIsReady, replayVars
  <1>2. \A q \in Posts : q # p => data'[q] = data[q]
    BY <1>1 DEF TypeOK
  <1>3. \A l \in SubmitLoops : pc[l] \in {"submit", "enqueue"} => current[l] # p
    BY <1>1, ProcessingIsNotReady DEF HandInv, SubmitMarked, EnqueueReady
  <1>4. SubmitMarked' /\ EnqueueReady'
    BY <1>1, <1>2, <1>3, Names DEF TypeOK, HandInv, SubmitMarked, EnqueueReady
  <1>5. CommentQueueIsReady'
    BY <1>1, <1>2, Names DEF TypeOK, HandInv, CommentQueueIsReady
  <1>6. LoopsIdle' /\ Known' /\ EnqueueAlone'
    BY <1>1 DEF TypeOK, HandInv, LoopsIdle, Known, EnqueueAlone
  <1> QED  BY <1>4, <1>5, <1>6 DEF HandInv

\* A submit loop takes a post whose outcome is missing, which is therefore in no
\* other hand on its way to the comment queue, nor in it.
LEMMA SubmitTakeHands ==
    ASSUME TypeOK, HandInv, phase = "running",
           NEW l \in SubmitLoops, NEW p \in Posts, PollTake(l, p)
    PROVE  HandInv'
  <1>1. /\ p \in queue[l] /\ ~Skips(l, data[p])
        /\ phase' = "running" /\ seen' = seen
        /\ current' = [current EXCEPT ![l] = p]
        /\ data' = [data EXCEPT ![p][l] = "processing"]
        /\ queue' = [queue EXCEPT ![l] = @ \ {p}]
        /\ pc' = [pc EXCEPT ![l] = "submit"]
    BY Names DEF PollTake, Pop, Go, MarkedField, replayVars
  <1>2. ~ReadyToComment(data[p])
    BY <1>1, ReadyIsDone DEF Skips, IsDone
  <1>3. \A q \in Posts : q # p => data'[q] = data[q]
    BY <1>1 DEF TypeOK
  <1>4. data'[p][l] = "processing" /\ \A f \in WorkFields : f # l => data'[p][f] = data[p][f]
    BY <1>1, Names DEF TypeOK
  <1>5. \A m \in SubmitLoops : m # l => pc'[m] = pc[m] /\ current'[m] = current[m]
    BY <1>1, Names DEF TypeOK
  <1>6. pc'[l] = "submit" /\ current'[l] = p /\ queue'["comment"] = queue["comment"]
    BY <1>1, Names DEF TypeOK
  <1>7. LoopsIdle' /\ EnqueueAlone'
    BY <1>1, <1>5, <1>6 DEF HandInv, LoopsIdle, EnqueueAlone
  <1>8. Known'
    BY <1>1, <1>5, <1>6, Names DEF TypeOK, HandInv, Known
  <1>9. SubmitMarked'
    <2> SUFFICES ASSUME NEW m \in SubmitLoops, pc'[m] = "submit"
                 PROVE  data'[current'[m]][m] = "processing"
      BY DEF SubmitMarked
    <2>1. CASE m = l
      BY <1>4, <1>6, <2>1
    <2>2. CASE m # l
      <3>1. pc[m] = "submit" /\ data[current[m]][m] = "processing" /\ current[m] \in Posts
        BY <1>5, <2>2 DEF HandInv, SubmitMarked, TypeOK
      <3> QED  BY <1>3, <1>4, <1>5, <2>2, <3>1, Names
    <2> QED  BY <2>1, <2>2
  <1>10. EnqueueReady' /\ CommentQueueIsReady'
    BY <1>2, <1>3, <1>5, <1>6, Names DEF TypeOK, HandInv, EnqueueReady, CommentQueueIsReady
  <1> QED  BY <1>7, <1>8, <1>9, <1>10 DEF HandInv

\* A submission that ends was in nobody else's hand on its way to the comment queue.
LEMMA SubmittedHands ==
    ASSUME TypeOK, HandInv, phase = "running",
           NEW l \in SubmitLoops, NEW o \in {"success", "failure"}, Submitted(l, o)
    PROVE  HandInv'
  <1> DEFINE p == current[l]
  <1>1. /\ p \in Posts /\ p \in seen /\ data[p][l] = "processing"
        /\ pc[l] = "submit"
        /\ phase' = "running" /\ seen' = seen /\ queue' = queue
        /\ data' = [data EXCEPT ![p] = [f \in WorkFields |-> IF f \in FieldsOf(l) THEN o ELSE @[f]]]
    BY DEF Submitted, TypeOK, HandInv, Known, SubmitMarked, replayVars
  <1>2. /\ \/ /\ ReadyToComment(data'[p])
              /\ pc' = [pc EXCEPT ![l] = "enqueue"] /\ current' = current
           \/ /\ pc' = [pc EXCEPT ![l] = "sleep"]
              /\ current' = [current EXCEPT ![l] = NoPost]
    BY DEF Submitted, DoComment, Go
  <1> HIDE DEF p
  <1>3. \A m \in SubmitLoops : m # l => pc'[m] = pc[m] /\ current'[m] = current[m]
    BY <1>2, Names DEF TypeOK
  <1>4. \/ pc'[l] = "enqueue" /\ current'[l] = p /\ ReadyToComment(data'[p])
        \/ pc'[l] = "sleep"
    BY <1>2, Names DEF TypeOK, p
  <1>5. \A q \in Posts : q # p => data'[q] = data[q]
    BY <1>1 DEF TypeOK
  <1>6. \A m \in SubmitLoops : m # l => data'[p][m] = data[p][m]
    <2>1. \A m \in SubmitLoops : m # l => m \notin FieldsOf(l)
      BY ArchivesAssumption DEF FieldsOf, SubmitLoops
    <2> QED  BY <1>1, <2>1, Names DEF TypeOK
  <1>7. ~ReadyToComment(data[p])
    BY <1>1, ProcessingIsNotReady
  <1>8. /\ p \notin queue["comment"]
        /\ \A m \in SubmitLoops : pc[m] = "enqueue" => current[m] # p
    BY <1>7 DEF HandInv, CommentQueueIsReady, EnqueueReady
  <1>9. LoopsIdle' /\ EnqueueAlone'
    BY <1>1, <1>3, <1>4, <1>8 DEF HandInv, LoopsIdle, EnqueueAlone
  <1>10. Known'
    BY <1>1, <1>3, <1>4 DEF HandInv, Known
  <1>11. SubmitMarked'
    BY <1>3, <1>4, <1>5, <1>6 DEF TypeOK, HandInv, SubmitMarked
  <1>12. EnqueueReady'
    BY <1>1, <1>3, <1>4, <1>5, <1>8 DEF TypeOK, HandInv, EnqueueReady
  <1>13. CommentQueueIsReady'
    BY <1>1, <1>5, <1>8, Names DEF TypeOK, HandInv, CommentQueueIsReady
  <1> QED  BY <1>9, <1>10, <1>11, <1>12, <1>13 DEF HandInv

\* The post that is handed to comment_loop is ready, and nobody else hands it over.
LEMMA EnqueueHands ==
    ASSUME TypeOK, HandInv, phase = "running", NEW l \in SubmitLoops, Enqueue(l)
    PROVE  HandInv'
  <1> DEFINE p == current[l]
  <1>1. /\ p \in Posts /\ p \in seen /\ ReadyToComment(data[p])
        /\ pc[l] = "enqueue"
        /\ phase' = "running" /\ seen' = seen /\ data' = data
        /\ queue' = Insert(p, {"comment"})
        /\ pc' = [pc EXCEPT ![l] = "sleep"]
    BY DEF Enqueue, Go, TypeOK, HandInv, Known, EnqueueReady, replayVars
  <1>2. \A m \in SubmitLoops : m # l => pc'[m] = pc[m] /\ current'[m] = current[m]
    BY Names DEF Enqueue, Go, TypeOK
  <1>3. pc'[l] = "sleep"
    BY <1>1, Names DEF TypeOK
  <1>4. \A m \in SubmitLoops : m # l /\ pc[m] = "enqueue" => current[m] # p
    BY <1>1 DEF HandInv, EnqueueAlone, p
  <1> HIDE DEF p
  <1>5. /\ queue'["comment"] = queue["comment"] \cup {p}
        /\ \A m \in Workers : queue'[m] \subseteq queue[m] \cup {p}
    BY <1>1, Names DEF Insert
  <1>6. LoopsIdle' /\ SubmitMarked' /\ EnqueueAlone'
    BY <1>1, <1>2, <1>3 DEF HandInv, LoopsIdle, SubmitMarked, EnqueueAlone
  <1>7. Known'
    BY <1>1, <1>2, <1>3, <1>5 DEF HandInv, Known
  <1>8. EnqueueReady' /\ CommentQueueIsReady'
    BY <1>1, <1>2, <1>3, <1>4, <1>5 DEF HandInv, EnqueueReady, CommentQueueIsReady
  <1> QED  BY <1>6, <1>7, <1>8 DEF HandInv

LEMMA WorkerHands ==
    ASSUME TypeOK, HandInv, phase = "running", NEW l \in Workers, WorkerStep(l)
    PROVE  HandInv'
  <1>0. l \in Loops
    BY Names
  <1>1. CASE PollEmpty(l)
    BY <1>0, <1>1, MoveKeepsHands DEF PollEmpty, workVars, replayVars
  <1>2. ASSUME NEW p \in Posts, PollSkip(l, p) PROVE HandInv'
    BY <1>2, SkipHands
  <1>3. ASSUME NEW p \in Posts, PollTake(l, p) PROVE HandInv'
    BY <1>3, CommentTakeHands, SubmitTakeHands DEF Workers
  <1>4. CASE Wake(l) \/ Notified(l)
    <2>1. \E where \in {"fetch", "done", "poll"} : Go(l, where)
      BY <1>4 DEF Wake, Notified, Again
    <2> QED  BY <1>0, <1>4, <2>1, MoveKeepsHands DEF Wake, Notified, workVars, replayVars
  <1>5. CASE GiveUp(l)
    BY <1>0, <1>5, MoveKeepsHands DEF GiveUp, Return, workVars, replayVars
  <1>6. CASE l \in SubmitLoops /\ SubmitterStep(l)
    BY <1>6, SubmittedHands, EnqueueHands DEF SubmitterStep
  <1> QED  BY <1>1, <1>2, <1>3, <1>4, <1>5, <1>6 DEF WorkerStep

LEMMA HandStep == TypeOK /\ HandInv /\ [Next]_vars => HandInv'
  <1> SUFFICES ASSUME TypeOK, HandInv, [Next]_vars PROVE HandInv'
    OBVIOUS
  <1>1. CASE Start \/ CtrlC \/ LoginFails \/ WriterFails
    <2>1. UNCHANGED <<seen, data, queue, pc, current>>
      BY <1>1 DEF Start, CtrlC, LoginFails, WriterFails, workVars, taskVars
    <2>2. phase' = phase \/ phase # "running"
      BY <1>1 DEF Start, CtrlC, LoginFails, WriterFails, replayVars
    <2> QED  BY <2>1, <2>2, RestKeepsHands
  <1>2. CASE StartLoops
    BY <1>2, RestKeepsHands DEF StartLoops, workVars, taskVars
  <1>3. CASE ReplayLine
    BY <1>3, ReplayHands
  <1>4. CASE ReplayFails \/ Exit \/ Kill \/ PowerLoss
    BY <1>4, DownHands DEF ReplayFails, Exit, Kill, PowerLoss
  <1>5. CASE LoopStep
    <2>0. phase = "running" /\ "collect" \in Loops
      BY <1>5, Names DEF LoopStep
    <2>1. CASE WriterStep
      BY <2>0, <2>1, RestKeepsHands DEF WriterStep, replayVars, workVars, taskVars
    <2>2. ASSUME NEW posts \in SUBSET Posts, Fetch(posts) PROVE HandInv'
      BY <2>0, <2>2, MoveKeepsHands DEF Fetch, replayVars, workVars
    <2>3. CASE Wake("collect")
      BY <2>0, <2>3, MoveKeepsHands DEF Wake, Again, replayVars, workVars
    <2>4. CASE GiveUp("collect")
      BY <2>0, <2>4, MoveKeepsHands DEF GiveUp, Return, replayVars, workVars
    <2>5. CASE CollectorStep
      BY <2>0, <2>2, <2>3, <2>4, <2>5, InsertHands DEF CollectorStep
    <2> QED  BY <1>5, <2>0, <2>1, <2>5, WorkerHands DEF LoopStep
  <1>6. CASE UNCHANGED vars
    BY <1>6, RestKeepsHands DEF vars, replayVars, workVars, taskVars
  <1> QED  BY <1>1, <1>2, <1>3, <1>4, <1>5, <1>6 DEF Next, Fault

LEMMA HandInit == Init => HandInv
  <1> SUFFICES ASSUME Init PROVE HandInv
    OBVIOUS
  <1>1. \A l \in SubmitLoops : pc[l] = "first"
    BY Names DEF Init, FirstStates
  <1>2. \A l \in Workers : queue[l] = {}
    BY DEF Init, NoQueues
  <1>3. pc = FirstStates
    BY DEF Init
  <1> QED
    BY <1>1, <1>2, <1>3, Names DEF HandInv, LoopsIdle, Known, SubmitMarked, EnqueueReady,
                                   EnqueueAlone, CommentQueueIsReady

\* The strengthening of CommentQueueIsReady that is inductive.
THEOREM HandsInductive == Spec => []HandInv
  BY HandInit, HandStep, TypeCorrect, PTL DEF Spec

\* Whatever the order in which submissions end, and after every restart, a post
\* waits for its comment only while all its outcomes are known.
THEOREM CommentQueueReady == Spec => []CommentQueueIsReady
  BY HandsInductive, PTL DEF HandInv

----------------------------------------------------------------------------
(* The wakeups *)

\* Nobody waits before the loops run.
LEMMA IdleIsAwake ==
    ASSUME pc' = FirstStates
    PROVE  NoLostWakeup'
  BY Names DEF NoLostWakeup, FirstStates

\* Steps that put nothing into a queue, take no permit, and send nobody to wait.
LEMMA QuietStep ==
    ASSUME NoLostWakeup,
           \A l \in Workers : queue'[l] \subseteq queue[l],
           \A l \in Workers : pc'[l] = "await" => pc[l] = "await" /\ permit'[l] = permit[l],
           pc'["collect"] = pc["collect"] \/ pc["collect"] # "insert",
           inserted' = inserted
    PROVE  NoLostWakeup'
  BY DEF NoLostWakeup

\* collect_loop notifies the submit loops at the end of a listing.
LEMMA InsertWakes ==
    ASSUME TypeOK, NoLostWakeup, NEW p \in Posts, InsertSeen(p) \/ InsertNew(p)
    PROVE  NoLostWakeup'
  <1>1. PICK new \in BOOLEAN :
          /\ EndOfListing(p, new) /\ pc["collect"] = "insert"
          /\ queue' = IF new THEN Insert(p, SubmitLoops) ELSE queue
    BY DEF InsertSeen, InsertNew
  <1>2. /\ \A l \in Workers : queue'[l] # queue[l] => l \in SubmitLoops /\ new
        /\ \A l \in Workers : pc'[l] = pc[l]
    BY <1>1, Names DEF Insert, EndOfListing, Go, TypeOK
  <1>3. CASE listing' = {}
    <2>1. \A l \in Workers :
            permit'[l] <=> permit[l] \/ (l \in SubmitLoops /\ (inserted \/ new))
      BY <1>1, <1>3 DEF EndOfListing, Notify
    <2> QED  BY <1>2, <2>1 DEF NoLostWakeup
  <1>4. CASE listing' # {}
    <2>1. permit' = permit /\ pc' = pc /\ (inserted' <=> inserted \/ new)
      BY <1>1, <1>4 DEF EndOfListing
    <2> QED  BY <1>1, <1>2, <2>1 DEF NoLostWakeup
  <1> QED  BY <1>3, <1>4

\* A submit loop notifies comment_loop, unless the post is queued already and
\* comment_loop was therefore notified before.
LEMMA EnqueueWakes ==
    ASSUME TypeOK, NoLostWakeup, NEW l \in SubmitLoops, Enqueue(l)
    PROVE  NoLostWakeup'
  <1>1. /\ \A m \in Workers : m # "comment" => queue'[m] = queue[m]
        /\ \A m \in Workers : permit[m] => permit'[m]
        /\ queue'["comment"] # {} => queue["comment"] # {} \/ permit'["comment"]
        /\ inserted' = inserted
    BY Names DEF Enqueue, Insert, Notify
  <1>2. /\ pc'["collect"] = pc["collect"]
        /\ \A m \in Workers : pc'[m] = "await" => pc[m] = "await"
    BY Names DEF Enqueue, Go, TypeOK
  <1> QED  BY <1>1, <1>2 DEF NoLostWakeup

LEMMA WorkerWakes ==
    ASSUME TypeOK, NoLostWakeup, NEW l \in Workers, WorkerStep(l)
    PROVE  NoLostWakeup'
  <1>0. l \in Loops /\ l # "collect"
    BY Names
  <1>1. CASE PollEmpty(l)
    <2>1. /\ queue[l] = {} /\ queue' = queue /\ permit' = permit /\ inserted' = inserted
          /\ \A m \in Loops : m # l => pc'[m] = pc[m]
      BY <1>0, <1>1 DEF PollEmpty, Go, TypeOK, workVars
    <2> QED  BY <1>0, <2>1, Names DEF NoLostWakeup
  <1>2. ASSUME NEW p \in Posts, PollSkip(l, p) \/ PollTake(l, p) PROVE NoLostWakeup'
    <2>1. \E where \in {"fetch", "done", "poll", "sleep", "submit"} : Go(l, where)
      BY <1>2 DEF PollSkip, PollTake, Again
    <2>2. /\ queue' = [queue EXCEPT ![l] = @ \ {p}] /\ permit' = permit /\ inserted' = inserted
      BY <1>2 DEF PollSkip, PollTake, Pop
    <2> QED  BY <1>0, <2>1, <2>2, QuietStep, Names DEF Go, TypeOK
  <1>3. CASE Wake(l) \/ Notified(l)
    <2>1. \E where \in {"fetch", "done", "poll"} : Go(l, where)
      BY <1>3 DEF Wake, Notified, Again
    <2>2. /\ queue' = queue /\ inserted' = inserted
          /\ \A m \in Workers : m # l => permit'[m] = permit[m]
      BY <1>3 DEF Wake, Notified, workVars, TypeOK
    <2> QED  BY <1>0, <2>1, <2>2, QuietStep, Names DEF Go, TypeOK
  <1>4. CASE GiveUp(l)
    BY <1>0, <1>4, QuietStep, Names DEF GiveUp, Return, Go, TypeOK, workVars
  <1>5. ASSUME l \in SubmitLoops, NEW o \in {"success", "failure"}, Submitted(l, o)
        PROVE  NoLostWakeup'
    <2>1. \E where \in {"enqueue", "sleep"} : Go(l, where)
      BY <1>5 DEF Submitted
    <2>2. queue' = queue /\ permit' = permit /\ inserted' = inserted
      BY <1>5 DEF Submitted
    <2> QED  BY <1>0, <2>1, <2>2, QuietStep, Names DEF Go, TypeOK
  <1> QED
    BY <1>1, <1>2, <1>3, <1>4, <1>5, EnqueueWakes DEF WorkerStep, SubmitterStep

LEMMA WakeupStep == TypeOK /\ HandInv /\ NoLostWakeup /\ [Next]_vars => NoLostWakeup'
  <1> SUFFICES ASSUME TypeOK, HandInv, NoLostWakeup, [Next]_vars PROVE NoLostWakeup'
    OBVIOUS
  <1>1. CASE UNCHANGED <<workVars, taskVars>>
    BY <1>1, QuietStep DEF workVars, taskVars
  <1>2. CASE ReplayLine
    BY <1>2, IdleIsAwake DEF ReplayLine, taskVars, HandInv, LoopsIdle
  <1>3. CASE ReplayFails \/ Exit \/ Kill \/ PowerLoss
    BY <1>3, IdleIsAwake DEF ReplayFails, Exit, Kill, PowerLoss, Down
  <1>4. CASE CollectorStep
    <2>1. ASSUME NEW posts \in SUBSET Posts, Fetch(posts) PROVE NoLostWakeup'
      <3>1. /\ pc["collect"] # "insert" /\ UNCHANGED <<queue, permit, inserted>>
            /\ \A l \in Workers : pc'[l] = pc[l]
        BY <2>1, Names DEF Fetch, Go, TypeOK, workVars
      <3> QED  BY <3>1, QuietStep
    <2>2. CASE Wake("collect") \/ GiveUp("collect")
      <3>1. /\ pc["collect"] # "insert" /\ UNCHANGED <<queue, permit, inserted>>
            /\ \A l \in Workers : pc'[l] = pc[l]
        BY <2>2, Names DEF Wake, GiveUp, Again, Return, Go, TypeOK, workVars
      <3> QED  BY <3>1, QuietStep
    <2> QED  BY <1>4, <2>1, <2>2, InsertWakes DEF CollectorStep
  <1>5. CASE \E l \in Workers : WorkerStep(l)
    BY <1>5, WorkerWakes
  <1>6. CASE Start \/ StartLoops \/ CtrlC \/ LoginFails \/ WriterFails \/ WriterStep \/ UNCHANGED vars
    BY <1>1, <1>6 DEF Start, StartLoops, CtrlC, LoginFails, WriterFails, WriterStep, vars
  <1> QED  BY <1>2, <1>3, <1>4, <1>5, <1>6 DEF Next, LoopStep, Fault

LEMMA WakeupInit == Init => NoLostWakeup
  BY Names DEF Init, NoLostWakeup, FirstStates

\* No worker sleeps on work: it waits without a permit only while its queue is
\* empty, or while collect_loop is still to notify it.
THEOREM WakeupsArrive == Spec => []NoLostWakeup
  BY WakeupInit, WakeupStep, TypeCorrect, HandsInductive, PTL DEF Spec

----------------------------------------------------------------------------
(* What holds of the changelog holds of the service's *)

LEMMA LogInvInit == Init => LogProofs!IInv
  <1>1. Init => LogProofs!Init
    BY DEF Init, Log!Init, LogProofs!Init
  <1> QED  BY <1>1, ReportsAreBatches, LogProofs!InitInv

LEMMA LogInvStep == TypeOK /\ LogProofs!IInv /\ [Next]_vars => LogProofs!IInv'
  BY LogStep, SameStep, ReportsAreBatches, LogProofs!InvStep

LEMMA LogInductive == Spec => []LogProofs!IInv
  BY LogInvInit, LogInvStep, TypeCorrect, PTL DEF Spec

\* While the service waits for something to log, all it has logged is in the file
\* and survives a power loss.
THEOREM IdleServiceIsDurable == Spec => []Log!IdleMeansDurable
  <1>1. LogProofs!IInv => Log!IdleMeansDurable
    <2>1. LogProofs!IInv => LogProofs!IdleMeansDurable
      BY ReportsAreBatches, LogProofs!InvIdle
    <2> QED  BY <2>1 DEF LogProofs!IdleMeansDurable, Log!IdleMeansDurable
  <1> QED  BY <1>1, LogInductive, PTL

\* The two instances of the abstract journal are the same specification.
LEMMA SameJournal ==
    /\ LogProofs!J!Init => Log!J!Init
    /\ [LogProofs!J!Next]_(LogProofs!J!vars) => [Log!J!Next]_(Log!J!vars)
  BY DEF LogProofs!J!Init, Log!J!Init, LogProofs!J!Next, Log!J!Next,
         LogProofs!J!vars, Log!J!vars, LogProofs!J!Accept, Log!J!Accept,
         LogProofs!J!Persist, Log!J!Persist, LogProofs!J!Lose, Log!J!Lose,
         LogProofs!Journalled, Log!Journalled, LogProofs!Pending, Log!Pending,
         LogProofs!Terminated, Log!Terminated,
         LogProofs!DurablyTerminated, Log!DurablyTerminated

\* Seen from the file, the whole service is a journal: whatever its loops report, in
\* whatever order, is read back as a prefix with everything that was synced
\* (src/state.rs:242-401).
THEOREM ServiceKeepsJournal == Spec => Log!ImplementsJournal
  <1>1. Init => Log!J!Init
    <2>1. Init => LogProofs!Init
      BY DEF Init, Log!Init, LogProofs!Init
    <2> QED  BY <2>1, ReportsAreBatches, LogProofs!JournalInit, SameJournal
  <1>2. TypeOK /\ LogProofs!IInv /\ [Next]_vars => [Log!J!Next]_(Log!J!vars)
    BY LogStep, SameStep, ReportsAreBatches, LogProofs!JournalStep, SameJournal
  <1> QED
    BY <1>1, <1>2, TypeCorrect, LogInductive, PTL DEF Spec, Log!ImplementsJournal, Log!J!Spec


----------------------------------------------------------------------------
(* The end of the loops *)

\* No loop and no writer gives a cancelled token back.
LEMMA CancelledStays ==
    ASSUME TypeOK, [Next]_vars, cancelled, phase = "running", phase' = "running"
    PROVE  cancelled'
  <1> USE DEF logVars, logOnlyVars
  <1>1. ASSUME Log!Cancel PROVE cancelled'
    BY <1>1 DEF Log!Cancel
  <1>2. CASE UNCHANGED vars \/ CtrlC \/ LoginFails
    BY <1>1, <1>2 DEF vars, CtrlC, LoginFails
  <1>3. CASE WriterStep \/ WriterFails
    BY <1>3 DEF WriterStep, WriterFails, Log!WriterStep, Log!BeginCommit, Log!SendLine, Log!EndSend,
                Log!Sync, Log!SelectNotified, Log!SelectCancelled, Log!SendFails, Log!SyncFails,
                Log!Finish
  <1>4. CASE CollectorStep
    BY <1>1, <1>4
    DEF CollectorStep, Fetch, InsertSeen, InsertNew, Log!LogChanges, Wake, Again, GiveUp, Return
  <1>5. ASSUME NEW l \in Workers, WorkerStep(l) PROVE cancelled'
    BY <1>1, <1>5
    DEF WorkerStep, SubmitterStep, PollEmpty, PollSkip, PollTake, Wake, Notified, Again, GiveUp,
        Return, Submitted, Log!LogChanges, Enqueue
  <1>6. CASE Start \/ ReplayLine \/ ReplayFails \/ StartLoops \/ Exit \/ Kill \/ PowerLoss
    BY <1>6 DEF Start, ReplayLine, ReplayFails, StartLoops, Exit, Kill, PowerLoss, Down
  <1> QED  BY <1>2, <1>3, <1>4, <1>5, <1>6 DEF Next, LoopStep, Fault

\* A step of a worker whose token is cancelled.
LEMMA WorkerWindsDown ==
    ASSUME TypeOK, cancelled, NEW l \in Workers, WorkerStep(l)
    PROVE  /\ \A m \in Workers \ {l} : pc'[m] = pc[m]
           /\ StepsToEnd[pc'[l]] < StepsToEnd[pc[l]]
  <1>1. ASSUME NEW where, Go(l, where)
        PROVE  pc'[l] = where /\ \A m \in Workers \ {l} : pc'[m] = pc[m]
    BY <1>1, Names DEF Go, TypeOK
  <1>2. l # "collect"
    BY Names
  <1>3. CASE PollEmpty(l)
    BY <1>1, <1>3 DEF PollEmpty, HasQueue, StepsToEnd
  <1>4. ASSUME NEW p \in Posts, PollSkip(l, p)
        PROVE  pc[l] = "poll" /\ Go(l, "done")
    BY <1>2, <1>4 DEF PollSkip, Pop, HasQueue, Again
  <1>5. ASSUME NEW p \in Posts, PollTake(l, p)
        PROVE  pc[l] = "poll" /\ (Go(l, "sleep") \/ Go(l, "submit"))
    BY <1>5 DEF PollTake, Pop, HasQueue
  <1>6. CASE Wake(l) \/ Notified(l)
    <2>1. pc[l] \in {"first", "sleep", "await"} /\ Go(l, "done")
      BY <1>2, <1>6 DEF Wake, Notified, Again
    <2> QED  BY <1>1, <2>1 DEF StepsToEnd
  <1>7. CASE GiveUp(l)
    <2>1. pc[l] \in {"sleep", "await", "fetch"} /\ Go(l, "done")
      BY <1>7 DEF GiveUp, Return
    <2> QED  BY <1>1, <2>1 DEF StepsToEnd
  <1>8. ASSUME NEW o \in {"success", "failure"}, Submitted(l, o)
        PROVE  pc[l] = "submit" /\ (Go(l, "enqueue") \/ Go(l, "sleep"))
    BY <1>8 DEF Submitted
  <1>9. CASE Enqueue(l)
    BY <1>1, <1>9 DEF Enqueue, StepsToEnd
  <1> QED
    BY <1>1, <1>3, <1>4, <1>5, <1>6, <1>7, <1>8, <1>9 DEF WorkerStep, SubmitterStep, StepsToEnd

\* A cancelled worker can only move on to its end: every step it takes brings it nearer,
\* so that it takes four at most and one more post at most (state.rs:564-631,
\* comment.rs:15-60).
THEOREM CancelledWorkersEnd == Spec => WorkersWindDown
  <1>1. ASSUME TypeOK, [Next]_vars, cancelled, phase = "running", phase' = "running",
               NEW l \in Workers
        PROVE  pc'[l] = pc[l] \/ StepsToEnd[pc'[l]] < StepsToEnd[pc[l]]
    <2> USE <1>1
    <2>1. ASSUME NEW m \in Workers, WorkerStep(m)
          PROVE  pc'[l] = pc[l] \/ StepsToEnd[pc'[l]] < StepsToEnd[pc[l]]
      <3>1. CASE m = l
        BY <2>1, <3>1, WorkerWindsDown
      <3>2. CASE m # l
        BY <2>1, <3>2, WorkerWindsDown
      <3> QED  BY <3>1, <3>2
    <2>2. CASE CollectorStep
      <3>1. ASSUME NEW where, Go("collect", where) PROVE pc'[l] = pc[l]
        BY <3>1, Names DEF Go, TypeOK
      <3> QED
        BY <2>2, <3>1
        DEF CollectorStep, Fetch, InsertSeen, InsertNew, EndOfListing, Wake, Again, GiveUp, Return
    <2>3. CASE UNCHANGED vars \/ CtrlC \/ LoginFails \/ WriterStep \/ WriterFails
      BY <2>3 DEF vars, CtrlC, LoginFails, WriterStep, WriterFails, taskVars
    <2>4. CASE Start \/ ReplayLine \/ ReplayFails \/ StartLoops \/ Exit \/ Kill \/ PowerLoss
      BY <2>4 DEF Start, ReplayLine, ReplayFails, StartLoops, Exit, Kill, PowerLoss, Down
    <2> QED  BY <2>1, <2>2, <2>3, <2>4 DEF Next, LoopStep, Fault
  <1>2. TypeOK /\ [Next]_vars =>
            [cancelled /\ phase = "running" /\ phase' = "running" =>
                /\ cancelled'
                /\ \A l \in Workers :
                       pc'[l] = pc[l] \/ StepsToEnd[pc'[l]] < StepsToEnd[pc[l]]]_vars
    BY <1>1, CancelledStays
  <1> QED  BY <1>2, TypeCorrect, PTL DEF Spec, WorkersWindDown

============================================================================
