-------------------------- MODULE SubmitLoopProofs --------------------------
(***************************************************************************)
(* Theorems about SubmitLoop, for every set of posts, every range of dates *)
(* and every listing.                                                      *)
(*                                                                         *)
(* All rests on what is known of the works there are: the posts in         *)
(* seen_posts, one for each line that announces one, differ in their ids   *)
(* and in their data, and every other work is a clone of one of them.      *)
(***************************************************************************)
EXTENDS SubmitLoop, SequenceTheorems, TLAPS

(***************************************************************************)
(* Types                                                                   *)
(***************************************************************************)

\* The filter of a listing keeps what the conversion behind it would stumble over.
LEMMA PostType ==
    ASSUME NEW child \in Children, IsPost(child), NEW ref \in Refs
    PROVE  NewWork(PostOf(child), ref) \in Works
  <1>1. AsI64(child.created_utc) \in MinUtc..MaxUtc /\ child.id \in Ids
    BY DEF IsPost, IsUtc
  <1> QED  BY <1>1 DEF NewWork, PostOf, FromF64, Works

LEMMA ReadType ==
    ASSUME NEW change \in Changes, NEW ref \in Refs
    PROVE  /\ NewWork([change EXCEPT !.created = FromI64(@)], ref)
                  = [created |-> FromI64(change.created), id |-> change.id, data |-> ref]
           /\ NewWork([change EXCEPT !.created = FromI64(@)], ref) \in Works
  BY DEF NewWork, Changes, Works, FromI64

\* A date is written as it is.
LEMMA WrittenType ==
    ASSUME NEW w \in Works
    PROVE  /\ NewPost(w) \in Changes
           /\ \A o \in {"success", "failure"}, link \in Urls : Outcome(w, o, link) \in Changes
           /\ w.created = FromI64(Serialize(w.created))
           /\ w.created.unix_ts \in MinUtc..MaxUtc /\ w.id \in Ids /\ w.data \in Refs
  <1>1. PICK s \in MinUtc..MaxUtc : w.created = FromI64(s)
    BY DEF Works
  <1>2. Serialize(w.created) = s /\ w.created.unix_ts = s
    BY <1>1 DEF Serialize, FromI64
  <1> QED
    BY <1>1, <1>2 DEF Works, NewPost, Outcome, Changes, Urls

LEMMA InsertType ==
    ASSUME NEW q \in WorkQueues, NEW w \in Works
    PROVE  Insert(q, w) \in WorkQueues
  BY DEF WorkQueues, Insert

LEMMA RemoveType ==
    ASSUME NEW q \in WorkQueues, NEW w \in Works, IsTop(q, w)
    PROVE  Remove(q, w) \in WorkQueues
  <1>1. q.heap[w] \in Nat /\ q.heap[w] > 0
    BY DEF WorkQueues, IsTop
  <1>2. [q.heap EXCEPT ![w] = @ - 1] \in [Works -> Nat]
    BY <1>1 DEF WorkQueues
  <1>3. SetRemove(q.set, w) \in SUBSET Works
    BY DEF WorkQueues, SetRemove
  <1> QED  BY <1>2, <1>3 DEF WorkQueues, Remove

LEMMA InitType == Init => TypeOK
  <1> SUFFICES ASSUME Init PROVE TypeOK
    OBVIOUS
  <1>1. EmptyQueue \in WorkQueues
    BY DEF EmptyQueue, WorkQueues
  <1>2. work = NoWork /\ NoWork \notin Works /\ stage = "idle"
    BY NoWorkAssumption DEF Init
  <1>3. log \in Seq(Changes) /\ listing \in Seq(Children)
    BY EmptySeq DEF Init
  <1>4. queue \in [Queues -> WorkQueues] /\ inner \in [Refs -> Outcomes]
    BY <1>1 DEF Init, Outcomes
  <1>5. elapsed \in 0..SubmitTime /\ waited \in 0..RequestTime /\ stage \in Stages
    BY DEF Init, SubmitTime, RequestTime, Stages
  <1> QED
    BY <1>2, <1>3, <1>4, <1>5 DEF Init, TypeOK

\* The steps of collect_loop keep the types.
LEMMA CollectType ==
    ASSUME TypeOK
    PROVE  /\ \A children \in Seq(Children) : Fetch(children) => TypeOK'
           /\ PassOver \/ InsertSeen => TypeOK'
           /\ \A ref \in Refs : InsertNew(ref) => TypeOK'
  <1>1. ASSUME NEW children \in Seq(Children), Fetch(children) PROVE TypeOK'
    BY <1>1 DEF TypeOK, Fetch, replayVars, taskVars, stopVars
  <1>2. listing # <<>> => Head(listing) \in Children /\ Tail(listing) \in Seq(Children)
    BY HeadTailProperties DEF TypeOK
  <1>3. ASSUME PassOver \/ InsertSeen PROVE TypeOK'
    BY <1>2, <1>3 DEF TypeOK, PassOver, InsertSeen, replayVars, taskVars, stopVars
  <1>4. ASSUME NEW ref \in Refs, InsertNew(ref) PROVE TypeOK'
    <2> DEFINE new == NewWork(PostOf(Head(listing)), ref)
    <2>1. new \in Works
      BY <1>2, <1>4, PostType DEF InsertNew
    <2>2. /\ log' = Append(log, NewPost(new)) /\ seen' = SetInsert(seen, new)
          /\ queue' = [queue EXCEPT !["submit"] = Insert(@, new)]
          /\ inner' = [inner EXCEPT ![ref] = "waiting"]
          /\ listing' = Tail(listing) /\ listing # <<>>
          /\ UNCHANGED <<replayVars, taskVars, stopVars>>
      BY <1>4 DEF InsertNew
    <2> HIDE DEF new
    <2>3. log' \in Seq(Changes)
      BY <2>1, <2>2, WrittenType, AppendProperties DEF TypeOK
    <2>4. seen' \subseteq Works
      BY <2>1, <2>2 DEF TypeOK, SetInsert
    <2>5. queue' \in [Queues -> WorkQueues]
      BY <2>1, <2>2, InsertType DEF TypeOK, Queues
    <2>6. inner' \in [Refs -> Outcomes]
      BY <2>2 DEF TypeOK, Outcomes
    <2> QED
      BY <1>2, <2>2, <2>3, <2>4, <2>5, <2>6 DEF TypeOK, replayVars, taskVars, stopVars
  <1> QED  BY <1>1, <1>3, <1>4

LEMMA EndType ==
    ASSUME TypeOK, work # NoWork,
           NEW outcome \in {"success", "failure"}, NEW link \in Urls, NEW ready \in BOOLEAN,
           End(outcome, link, ready), confirmed' \subseteq Requests
    PROVE  TypeOK'
  <1>1. work \in Works /\ work.data \in Refs
    BY WrittenType DEF TypeOK
  <1>2. log' \in Seq(Changes)
    BY <1>1, WrittenType, AppendProperties DEF TypeOK, End
  <1>3. queue' \in [Queues -> WorkQueues]
    BY <1>1, InsertType DEF TypeOK, End, Queues
  <1>4. inner' \in [Refs -> Outcomes]
    BY <1>1 DEF TypeOK, End, Outcomes
  <1>5. work' = NoWork /\ stage' = "idle" /\ elapsed' = 0 /\ waited' = 0
        /\ UNCHANGED <<listing, seen, replayVars, stopVars>>
    BY DEF End
  <1> QED
    BY <1>2, <1>3, <1>4, <1>5, NoWorkAssumption
       DEF TypeOK, replayVars, stopVars, SubmitTime, RequestTime, Stages, Requests

\* Whatever has a submission has a work.
LEMMA Busy == TypeOK /\ stage # "idle" => work # NoWork /\ work \in Works
  BY DEF TypeOK

\* The steps of a submission keep the types.
LEMMA SubmissionType ==
    ASSUME TypeOK
    PROVE  /\ \A ready \in BOOLEAN : SubmissionStep(ready) => TypeOK'
           /\ Redirected \/ Headed \/ Tick => TypeOK'
  <1>1. ASSUME NEW r \in Requests \cup {"body"}, Request(r), stage # "idle",
               confirmed' \subseteq Requests
        PROVE  TypeOK'
    BY <1>1, Busy DEF TypeOK, Request, feedVars, replayVars, stopVars, Stages, RequestTime, Requests
  <1>2. ASSUME NEW ready \in BOOLEAN, Fail(ready), stage # "idle" PROVE TypeOK'
    BY <1>2, Busy, EndType DEF Fail, TypeOK, Urls
  <1>3. ASSUME NEW ready \in BOOLEAN, Failed(ready), stage # "idle" PROVE TypeOK'
    <2>1. CASE Fail(ready)
      BY <1>2, <1>3, <2>1
    <2>2. CASE Request("cut") /\ UNCHANGED confirmed
      BY <1>1, <1>3, <2>2 DEF TypeOK, Requests
    <2> QED  BY <1>3, <2>1, <2>2 DEF Failed
  <1>4. ASSUME NEW ready \in BOOLEAN, SubmissionStep(ready) PROVE TypeOK'
    <2>1. CASE Refused(ready) \/ RequestTimesOut(ready)
      BY <1>3, <2>1 DEF Refused, RequestTimesOut, Requests
    <2>2. CASE Cached(ready)
      <3>1. stage \in Urls /\ stage \in Requests /\ stage # "idle"
        BY <2>2 DEF Cached, Urls, Requests
      <3> QED  BY <2>2, <3>1, Busy, EndType DEF Cached, TypeOK
    <2>3. CASE Read(ready)
      <3>1. stage # "idle" /\ confirmed' \subseteq Requests
        BY <2>3 DEF Read, TypeOK, Requests
      <3> QED  BY <2>3, <3>1, Busy, EndType DEF Read, Urls
    <2>4. CASE ReadNothing(ready) \/ TimeOut(ready) \/ GiveUp(ready)
      BY <1>2, <2>4 DEF ReadNothing, TimeOut, GiveUp, TypeOK
    <2> QED  BY <1>4, <2>1, <2>2, <2>3, <2>4 DEF SubmissionStep
  <1>5. ASSUME Redirected \/ Headed PROVE TypeOK'
    BY <1>1, <1>5 DEF Redirected, Headed, TypeOK, Requests
  <1>6. ASSUME Tick PROVE TypeOK'
    BY <1>6 DEF Tick, TypeOK, feedVars, replayVars, stopVars, SubmitTime, RequestTime
  <1> QED  BY <1>4, <1>5, <1>6

\* Taking a post from a queue keeps the types.
LEMMA PopType ==
    ASSUME TypeOK, NEW w \in Works
    PROVE  Skip(w) \/ Begin(w) \/ Offered(w) => TypeOK'
  <1>1. w.data \in Refs /\ w # NoWork
    BY WrittenType, NoWorkAssumption
  <1>2. \A k \in Queues : IsTop(queue[k], w)
            => [queue EXCEPT ![k] = Remove(@, w)] \in [Queues -> WorkQueues]
    BY RemoveType DEF TypeOK
  <1>0. \A k : TakesUp(k) => cancelled' \in BOOLEAN /\ late' \subseteq Queues
    BY DEF TakesUp, TypeOK
  <1>3. Pops(w) => /\ queue' \in [Queues -> WorkQueues]
                   /\ cancelled' \in BOOLEAN /\ late' \subseteq Queues
    BY <1>2, <1>0 DEF Pops, Queues
  <1>4. ASSUME Skip(w) PROVE TypeOK'
    BY <1>3, <1>4 DEF Skip, TypeOK, feedVars, replayVars, taskVars
  <1>5. ASSUME Begin(w) PROVE TypeOK'
    <2>1. FirstRequest \in Requests
      BY ArchivesAssumption DEF FirstRequest, TypeOK, Requests
    <2>2. inner' \in [Refs -> Outcomes]
      BY <1>1, <1>5 DEF Begin, TypeOK, Outcomes
    <2>3. queue' \in [Queues -> WorkQueues] /\ cancelled' \in BOOLEAN /\ late' \subseteq Queues
      BY <1>3, <1>5 DEF Begin
    <2>4. /\ work' = w /\ stage' = FirstRequest /\ confirmed' = {} /\ elapsed' = 0 /\ waited' = 0
          /\ UNCHANGED <<feedVars, replayVars>>
      BY <1>5 DEF Begin
    <2>5. stage' \in Stages /\ stage' # "idle"
      BY <2>1, <2>4 DEF Stages, Requests
    <2> QED
      BY <1>1, <2>2, <2>3, <2>4, <2>5 DEF TypeOK, feedVars, replayVars, SubmitTime, RequestTime
  <1>6. ASSUME Offered(w) PROVE TypeOK'
    <2>1. queue' \in [Queues -> WorkQueues] /\ cancelled' \in BOOLEAN /\ late' \subseteq Queues
      BY <1>2, <1>0, <1>6 DEF Offered, Queues
    <2>2. inner' \in [Refs -> Outcomes]
      BY <1>1, <1>6 DEF Offered, TypeOK, Outcomes
    <2> QED  BY <1>6, <2>1, <2>2 DEF Offered, TypeOK, feedVars, replayVars, taskVars
  <1> QED  BY <1>4, <1>5, <1>6

\* A stop, and every step of the start that follows it, keep the types.
LEMMA RestartType ==
    ASSUME TypeOK
    PROVE  /\ \A n \in 0..Len(log) : Restart(n) => TypeOK'
           /\ \A ref \in Refs : ApplyNewPost(ref) => TypeOK'
           /\ \A ref \in Refs, ready \in BOOLEAN : ApplyOutcome(ref, ready) => TypeOK'
           /\ Replayed => TypeOK'
  <1>1. ASSUME NEW n \in 0..Len(log), Restart(n) PROVE TypeOK'
    <2>1. SubSeq(log, 1, n) \in Seq(Changes)
      <3>1. Len(log) \in Nat
        BY LenProperties DEF TypeOK
      <3>2. \A i \in 1..n : log[i] \in Changes
        BY <3>1, ElementOfSeq DEF TypeOK
      <3>3. 1 \in Int /\ n \in Int
        BY <3>1
      <3> QED  BY <3>2, <3>3, SubSeqProperties, Zenon
    <2>2. <<>> \in Seq(Children) /\ EmptyQueue \in WorkQueues
      BY EmptySeq DEF EmptyQueue, WorkQueues
    <2>3. queue' \in [Queues -> WorkQueues] /\ inner' \in [Refs -> Outcomes]
      BY <1>1, <2>2 DEF Restart, Outcomes
    <2>4. elapsed' \in 0..SubmitTime /\ waited' \in 0..RequestTime /\ stage' \in Stages
      BY <1>1 DEF Restart, SubmitTime, RequestTime, Stages
    <2> QED
      BY <1>1, <2>1, <2>2, <2>3, <2>4 DEF Restart, TypeOK
  <1>2. Applies => /\ NextChange \in Changes /\ replayed' \in Nat
                   /\ UNCHANGED <<archive, phase, log, listing, taskVars, stopVars>>
    <2>1. ASSUME Applies PROVE replayed + 1 \in 1..Len(log)
      BY <2>1, LenProperties DEF Applies, TypeOK
    <2> QED  BY <2>1, ElementOfSeq DEF Applies, NextChange, TypeOK
  <1>3. ASSUME NEW ref \in Refs, ApplyNewPost(ref) PROVE TypeOK'
    <2> DEFINE new == NewWork([NextChange EXCEPT !.created = FromI64(@)], ref)
    <2>1. NextChange \in Changes
      BY <1>2, <1>3 DEF ApplyNewPost
    <2>2. new \in Works
      BY <2>1, ReadType
    <2>3. /\ seen' = SetInsert(seen, new) /\ inner' = [inner EXCEPT ![ref] = "waiting"]
          /\ queue' \in {queue, [queue EXCEPT !["submit"] = Insert(@, new)]}
          /\ Applies
      BY <1>3 DEF ApplyNewPost
    <2> HIDE DEF new
    <2>4. seen' \subseteq Works
      BY <2>2, <2>3 DEF TypeOK, SetInsert
    <2>5. queue' \in [Queues -> WorkQueues]
      BY <2>2, <2>3, InsertType DEF TypeOK, Queues
    <2>6. inner' \in [Refs -> Outcomes]
      BY <2>3 DEF TypeOK, Outcomes
    <2> QED  BY <1>2, <2>3, <2>4, <2>5, <2>6 DEF TypeOK, taskVars, stopVars
  <1>4. ASSUME NEW ref \in Refs, NEW ready \in BOOLEAN, ApplyOutcome(ref, ready) PROVE TypeOK'
    <2> DEFINE known == CHOOSE w \in seen : IsSame(w, NextChange)
    <2>1. NextChange \in Changes /\ NextChange.what \in {"success", "failure"}
      BY <1>2, <1>4 DEF ApplyOutcome, Changes
    <2>2. Contains(seen, NextChange) => known \in Works
      BY DEF Contains, TypeOK
    <2>3. /\ Contains(seen, NextChange) =>
               /\ inner' = [inner EXCEPT ![known.data] = NextChange.what]
               /\ queue' \in {queue, [queue EXCEPT !["comment"] = Insert(@, known)]}
          /\ ~Contains(seen, NextChange) => UNCHANGED <<inner, queue>>
          /\ Applies /\ seen' = seen
      BY <1>4 DEF ApplyOutcome
    <2> HIDE DEF known
    <2>4. queue' \in [Queues -> WorkQueues]
      BY <2>2, <2>3, InsertType DEF TypeOK, Queues
    <2>5. inner' \in [Refs -> Outcomes]
      BY <2>1, <2>2, <2>3, WrittenType DEF TypeOK, Outcomes
    <2> QED  BY <1>2, <2>3, <2>4, <2>5 DEF TypeOK, taskVars, stopVars
  <1>5. ASSUME Replayed PROVE TypeOK'
    BY <1>5 DEF Replayed, TypeOK, feedVars, taskVars, stopVars
  <1> QED  BY <1>1, <1>3, <1>4, <1>5

LEMMA NextType == TypeOK /\ [Next]_vars => TypeOK'
  <1> SUFFICES ASSUME TypeOK, [Next]_vars PROVE TypeOK'
    OBVIOUS
  <1>1. ASSUME NEW ref \in Unused, AllocatingStep(ref) PROVE TypeOK'
    <2>1. ref \in Refs
      BY <1>1 DEF Unused
    <2> QED  BY <1>1, <2>1, CollectType, RestartType DEF AllocatingStep
  <1>2. CASE OtherStep
    BY <1>2, CollectType, PopType, SubmissionType, RestartType DEF OtherStep
  <1>3. CASE Cancel
    BY <1>3 DEF Cancel, TypeOK, feedVars, replayVars, taskVars
  <1>4. CASE UNCHANGED vars
    BY <1>4 DEF vars, TypeOK, feedVars, replayVars, taskVars, stopVars
  <1> QED  BY <1>1, <1>2, <1>3, <1>4, CollectType, RestartType DEF Next

\* The loop, its submission and its queues keep their types: the filter of a listing
\* lets nothing through that the conversions unwrapped after it would refuse
\* (reddit.rs:400-424), and the timers keep to their limits (networking.rs:140-161).
THEOREM TypeCorrect == Spec => []TypeOK
  BY InitType, NextType, PTL DEF Spec

(***************************************************************************)
(* The works there are                                                     *)
(***************************************************************************)

\* How many changes are known of: in the replay the ones that were applied.
Applied == IF phase = "replay" THEN replayed ELSE Len(log)

IsNew(n) == log[n].what = "new"

\* Nothing goes on during a replay, and it ends.
ReplayInv ==
    /\ replayed <= Len(log)
    /\ phase = "replay" => listing = <<>> /\ work = NoWork

\* No two posts have an id or their data in common.
SeenInv ==
    \A v, w \in seen : IsSame(v, w) \/ v.data = w.data => v = w

\* Clones of them are in the queues and in the loop's hand.
ClonesInv ==
    /\ \A q \in Queues : queue[q].set \subseteq seen
    /\ work # NoWork => work \in seen

\* A post is announced once, and has the date it was announced with.
LogInv ==
    /\ \A m, n \in 1..Len(log) : IsNew(m) /\ IsNew(n) /\ log[m].id = log[n].id => m = n
    /\ \A w \in seen : \E n \in 1..Applied :
           IsNew(n) /\ log[n].id = w.id /\ w.created = FromI64(log[n].created)
    /\ \A n \in 1..Applied : IsNew(n) => \E w \in seen : w.id = log[n].id

WorksInv == HeapIsSet /\ ReplayInv /\ SeenInv /\ ClonesInv /\ LogInv

IInv == TypeOK /\ WorksInv

Agrees(q) == \A w \in Works : q.heap[w] = IF w \in q.set THEN 1 ELSE 0

LEMMA InsertAgrees ==
    ASSUME NEW q \in WorkQueues, NEW w \in Works, Agrees(q)
    PROVE  /\ Agrees(Insert(q, w))
           /\ Insert(q, w).set = IF Contains(q.set, w) THEN q.set ELSE q.set \cup {w}
  <1>1. CASE Contains(q.set, w)
    BY <1>1 DEF Insert
  <1>2. CASE ~Contains(q.set, w)
    <2>1. w \notin q.set /\ q.heap[w] = 0
      BY <1>2 DEF Contains, IsSame, Agrees
    <2>2. /\ Insert(q, w).set = q.set \cup {w}
          /\ Insert(q, w).heap = [q.heap EXCEPT ![w] = @ + 1]
      BY <1>2 DEF Insert
    <2> QED  BY <1>2, <2>1, <2>2 DEF Agrees, WorkQueues
  <1> QED  BY <1>1, <1>2

LEMMA RemoveAgrees ==
    ASSUME NEW q \in WorkQueues, NEW w \in Works, Agrees(q), IsTop(q, w),
           \A v \in q.set : IsSame(v, w) => v = w
    PROVE  /\ w \in q.set
           /\ Agrees(Remove(q, w))
           /\ Remove(q, w).set = q.set \ {w}
  <1>1. w \in q.set /\ q.heap[w] = 1
    BY DEF IsTop, Agrees
  <1>2. /\ Remove(q, w).set = q.set \ {w}
        /\ Remove(q, w).heap = [q.heap EXCEPT ![w] = @ - 1]
    BY DEF Remove, SetRemove, IsSame
  <1> QED  BY <1>1, <1>2 DEF Agrees, WorkQueues

LEMMA InitWorks == Init => WorksInv
  <1> SUFFICES ASSUME Init PROVE WorksInv
    OBVIOUS
  <1>1. log = <<>> /\ Len(log) = 0 /\ seen = {} /\ listing = <<>> /\ work = NoWork
        /\ phase = "running" /\ replayed = 0 /\ queue = [q \in Queues |-> EmptyQueue]
    BY EmptySeq DEF Init
  <1> QED
    BY <1>1 DEF WorksInv, HeapIsSet, ReplayInv, SeenInv, ClonesInv, LogInv, Applied, EmptyQueue

\* What does not touch the posts, the queues or the log.
LEMMA QuietStep ==
    ASSUME IInv, UNCHANGED <<log, seen, phase, replayed, queue>>,
           work' \in {work, NoWork}, phase = "replay" => listing' = listing
    PROVE  WorksInv'
  <1>1. HeapIsSet' /\ SeenInv' /\ ClonesInv' /\ ReplayInv'
    BY DEF IInv, WorksInv, HeapIsSet, SeenInv, ClonesInv, ReplayInv
  <1>2. Applied' = Applied /\ LogInv'
    BY DEF IInv, WorksInv, LogInv, Applied, IsNew
  <1> QED  BY <1>1, <1>2 DEF WorksInv

\* A post leaves a queue, and may come into the loop's hand.
LEMMA RemoveStep ==
    ASSUME IInv, NEW w \in Works, NEW q \in Queues, IsTop(queue[q], w),
           queue' = [queue EXCEPT ![q] = Remove(@, w)],
           UNCHANGED <<log, seen, listing, phase, replayed>>,
           work' \in {work, w}, phase = "running"
    PROVE  WorksInv'
  <1>1. queue[q] \in WorkQueues /\ Agrees(queue[q]) /\ queue[q].set \subseteq seen
    BY DEF IInv, TypeOK, WorksInv, HeapIsSet, ClonesInv, Agrees
  <1>2. w \in seen
    BY <1>1 DEF IsTop, Agrees
  <1>3. \A v \in queue[q].set : IsSame(v, w) => v = w
    BY <1>1, <1>2 DEF IInv, WorksInv, SeenInv
  <1>4. Agrees(Remove(queue[q], w)) /\ Remove(queue[q], w).set \subseteq seen
    BY <1>1, <1>3, RemoveAgrees
  <1>5. \A k \in Queues : queue'[k] = IF k = q THEN Remove(queue[q], w) ELSE queue[k]
    BY DEF IInv, TypeOK
  <1>6. HeapIsSet'
    BY <1>4, <1>5 DEF IInv, WorksInv, HeapIsSet, Agrees
  <1>7. ClonesInv'
    BY <1>2, <1>4, <1>5 DEF IInv, WorksInv, ClonesInv
  <1>8. SeenInv' /\ ReplayInv'
    BY DEF IInv, WorksInv, SeenInv, ReplayInv
  <1>9. LogInv'
    BY DEF IInv, WorksInv, LogInv, Applied, IsNew
  <1> QED  BY <1>6, <1>7, <1>8, <1>9 DEF WorksInv

\* A known post comes into a queue.
LEMMA InsertKnown ==
    ASSUME IInv, NEW w \in seen, NEW q \in Queues,
           queue' \in {queue, [queue EXCEPT ![q] = Insert(@, w)]}, seen' = seen,
           work' \in {work, NoWork}
    PROVE  HeapIsSet' /\ ClonesInv' /\ SeenInv'
  <1>1. w \in Works /\ queue[q] \in WorkQueues /\ Agrees(queue[q]) /\ queue[q].set \subseteq seen
    <2>1. w \in Works /\ queue[q] \in WorkQueues
      BY DEF IInv, TypeOK
    <2>2. Agrees(queue[q])
      BY DEF IInv, WorksInv, HeapIsSet, Agrees
    <2>3. queue[q].set \subseteq seen
      BY DEF IInv, WorksInv, ClonesInv
    <2> QED  BY <2>1, <2>2, <2>3
  <1>2. Agrees(Insert(queue[q], w)) /\ Insert(queue[q], w).set \subseteq seen
    <2>1. Insert(queue[q], w).set \subseteq queue[q].set \cup {w}
      BY <1>1, InsertAgrees
    <2>2. Agrees(Insert(queue[q], w))
      BY <1>1, InsertAgrees
    <2> QED  BY <1>1, <2>1, <2>2
  <1>3. \A k \in Queues : queue'[k] = queue[k] \/ (k = q /\ queue'[k] = Insert(queue[q], w))
    <2>1. CASE queue' = queue
      BY <2>1
    <2>2. CASE queue' = [queue EXCEPT ![q] = Insert(@, w)]
      BY <2>2 DEF IInv, TypeOK
    <2> QED  BY <2>1, <2>2
  <1>4. HeapIsSet'
    BY <1>2, <1>3 DEF IInv, WorksInv, HeapIsSet, Agrees
  <1>5. ClonesInv'
    BY <1>2, <1>3 DEF IInv, WorksInv, ClonesInv
  <1>6. SeenInv'
    BY DEF IInv, WorksInv, SeenInv
  <1> QED  BY <1>4, <1>5, <1>6

\* A new post comes with data of its own, and into the loop's queue if need be.
LEMMA InsertFresh ==
    ASSUME IInv, NEW new \in Works, ~Contains(seen, new), \A w \in seen : w.data # new.data,
           queue' \in {queue, [queue EXCEPT !["submit"] = Insert(@, new)]},
           seen' = SetInsert(seen, new), UNCHANGED work
    PROVE  HeapIsSet' /\ ClonesInv' /\ SeenInv' /\ seen' = seen \cup {new}
  <1>1. queue["submit"] \in WorkQueues /\ Agrees(queue["submit"])
        /\ queue["submit"].set \subseteq seen
    BY DEF IInv, TypeOK, WorksInv, HeapIsSet, ClonesInv, Agrees, Queues
  <1>2. seen' = seen \cup {new}
    BY DEF SetInsert
  <1>3. Agrees(Insert(queue["submit"], new)) /\ Insert(queue["submit"], new).set \subseteq seen'
    BY <1>1, <1>2, InsertAgrees
  <1>4. \A k \in Queues : queue'[k] = queue[k]
            \/ (k = "submit" /\ queue'[k] = Insert(queue["submit"], new))
    <2>1. CASE queue' = queue
      BY <2>1
    <2>2. CASE queue' = [queue EXCEPT !["submit"] = Insert(@, new)]
      BY <2>2 DEF IInv, TypeOK
    <2> QED  BY <2>1, <2>2
  <1>5. HeapIsSet'
    BY <1>3, <1>4 DEF IInv, WorksInv, HeapIsSet, Agrees
  <1>6. ClonesInv'
    BY <1>2, <1>3, <1>4 DEF IInv, WorksInv, ClonesInv
  <1>7. SeenInv'
    BY <1>2 DEF IInv, WorksInv, SeenInv, Contains, IsSame
  <1> QED  BY <1>2, <1>5, <1>6, <1>7

\* A reference nobody has is not that of a known post.
LEMMA UnusedIsFresh == \A ref \in Unused : ref \in Refs /\ \A w \in seen : w.data # ref
  BY DEF Unused, Reachable

\* The log grows by one line.
LEMMA LogGrows ==
    ASSUME TypeOK, NEW change \in Changes, log' = Append(log, change)
    PROVE  /\ Len(log) \in Nat /\ Len(log') = Len(log) + 1
           /\ \A n \in 1..Len(log) : log'[n] = log[n]
           /\ log'[Len(log) + 1] = change
  BY LenProperties, AppendProperties DEF TypeOK

\* An outcome says nothing of which posts there are.
LEMMA OutcomeLogged ==
    ASSUME IInv, NEW change \in Changes, change.what # "new", log' = Append(log, change),
           UNCHANGED <<seen, phase, replayed>>, phase = "running"
    PROVE  LogInv'
  <1>1. /\ Len(log) \in Nat /\ Len(log') = Len(log) + 1
        /\ \A n \in 1..Len(log) : log'[n] = log[n]
        /\ log'[Len(log) + 1] = change
    BY LogGrows DEF IInv
  <1>2. \A n \in 1..Len(log') : IsNew(n)' => n \in 1..Len(log) /\ IsNew(n)
    BY <1>1 DEF IsNew
  <1>3. Applied = Len(log) /\ Applied' = Len(log') /\ seen' = seen
    BY DEF Applied
  <1>4. \A n \in 1..Len(log) : IsNew(n) => IsNew(n)'
    BY <1>1 DEF IsNew
  <1>5. \A m, n \in 1..Len(log') :
            IsNew(m)' /\ IsNew(n)' /\ log'[m].id = log'[n].id => m = n
    BY <1>1, <1>2 DEF IInv, WorksInv, LogInv
  <1>6. \A w \in seen' : \E n \in 1..Applied' :
            IsNew(n)' /\ log'[n].id = w.id /\ w.created = FromI64(log'[n].created)
    BY <1>1, <1>3, <1>4 DEF IInv, WorksInv, LogInv
  <1>7. \A n \in 1..Applied' : IsNew(n)' => \E w \in seen' : w.id = log'[n].id
    BY <1>1, <1>2, <1>3 DEF IInv, WorksInv, LogInv
  <1> QED  BY <1>5, <1>6, <1>7 DEF LogInv

\* collect_loop finds a post that is not known yet.
LEMMA InsertNewWorks ==
    ASSUME IInv, NEW ref \in Unused, InsertNew(ref)
    PROVE  WorksInv'
  <1> DEFINE new == NewWork(PostOf(Head(listing)), ref)
  <1>1. /\ listing # <<>> /\ ~Contains(seen, new) /\ IsPost(Head(listing))
        /\ log' = Append(log, NewPost(new)) /\ seen' = SetInsert(seen, new)
        /\ queue' = [queue EXCEPT !["submit"] = Insert(@, new)]
        /\ UNCHANGED <<phase, replayed, work>>
    BY DEF InsertNew, replayVars, taskVars
  <1>2. new \in Works /\ new.data = ref
    BY <1>1, HeadTailProperties, PostType, UnusedIsFresh DEF IInv, TypeOK, NewWork
  <1> HIDE DEF new
  <1>3. phase = "running" /\ ReplayInv'
    <2>1. phase = "running"
      BY <1>1 DEF IInv, TypeOK, WorksInv, ReplayInv
    <2>2. Len(log') = Len(log) + 1 /\ Len(log) \in Nat
      BY <1>1, <1>2, WrittenType, LogGrows DEF IInv
    <2> QED  BY <1>1, <2>1, <2>2 DEF IInv, TypeOK, WorksInv, ReplayInv
  <1>4. HeapIsSet' /\ ClonesInv' /\ SeenInv' /\ seen' = seen \cup {new}
    BY <1>1, <1>2, UnusedIsFresh, InsertFresh
  <1>5. /\ Len(log) \in Nat /\ Len(log') = Len(log) + 1
        /\ \A n \in 1..Len(log) : log'[n] = log[n]
        /\ log'[Len(log) + 1] = NewPost(new)
    BY <1>1, <1>2, WrittenType, LogGrows DEF IInv
  <1>6. /\ NewPost(new).what = "new" /\ NewPost(new).id = new.id
        /\ new.created = FromI64(NewPost(new).created)
    BY <1>2, WrittenType DEF NewPost
  <1>7. Applied = Len(log) /\ Applied' = Len(log')
    BY <1>1, <1>3 DEF Applied
  <1>8. \A n \in 1..Len(log) : (IsNew(n)' <=> IsNew(n)) /\ (IsNew(n) => log[n].id # new.id)
    BY <1>1, <1>5, <1>7 DEF IInv, WorksInv, LogInv, IsNew, Contains, IsSame
  <1>9. \A m, n \in 1..Len(log') :
            IsNew(m)' /\ IsNew(n)' /\ log'[m].id = log'[n].id => m = n
    BY <1>5, <1>6, <1>8 DEF IInv, WorksInv, LogInv
  <1>10. ASSUME NEW w \in seen'
         PROVE  \E n \in 1..Applied' :
                    IsNew(n)' /\ log'[n].id = w.id /\ w.created = FromI64(log'[n].created)
    <2>1. CASE w = new
      BY <1>5, <1>6, <1>7, <2>1 DEF IsNew
    <2>2. CASE w \in seen
      BY <1>5, <1>7, <1>8, <2>2 DEF IInv, WorksInv, LogInv
    <2> QED  BY <1>4, <2>1, <2>2
  <1>11. ASSUME NEW n \in 1..Applied', IsNew(n)' PROVE \E w \in seen' : w.id = log'[n].id
    <2>1. CASE n = Len(log) + 1
      BY <1>4, <1>5, <1>6, <2>1
    <2>2. CASE n \in 1..Len(log)
      BY <1>4, <1>5, <1>7, <1>8, <1>11, <2>2 DEF IInv, WorksInv, LogInv
    <2> QED  BY <1>5, <1>7, <2>1, <2>2
  <1>12. LogInv'
    BY <1>9, <1>10, <1>11 DEF LogInv
  <1> QED  BY <1>3, <1>4, <1>12 DEF WorksInv

\* A submission ends, whether or not the post goes to comment_loop.
LEMMA EndWorks ==
    ASSUME IInv, work # NoWork,
           NEW outcome \in {"success", "failure"}, NEW link \in Urls, NEW ready \in BOOLEAN,
           End(outcome, link, ready)
    PROVE  WorksInv'
  <1>1. work \in seen /\ work \in Works /\ phase = "running"
    BY DEF IInv, TypeOK, WorksInv, ClonesInv, ReplayInv
  <1>2. /\ log' = Append(log, Outcome(work, outcome, link))
        /\ queue' \in {queue, [queue EXCEPT !["comment"] = Insert(@, work)]}
        /\ work' = NoWork
        /\ UNCHANGED <<listing, seen, phase, replayed>>
    BY DEF End, replayVars
  <1>3. Outcome(work, outcome, link) \in Changes
        /\ Outcome(work, outcome, link).what # "new"
    BY <1>1, WrittenType DEF Outcome
  <1>4. HeapIsSet' /\ ClonesInv' /\ SeenInv'
    BY <1>1, <1>2, InsertKnown DEF Queues
  <1>5. LogInv'
    BY <1>1, <1>2, <1>3, OutcomeLogged
  <1>6. Len(log') = Len(log) + 1 /\ Len(log) \in Nat
    BY <1>2, <1>3, LogGrows DEF IInv
  <1>7. ReplayInv'
    BY <1>1, <1>2, <1>6 DEF IInv, TypeOK, WorksInv, ReplayInv
  <1> QED  BY <1>4, <1>5, <1>7 DEF WorksInv

LEMMA SubmissionWorks ==
    ASSUME IInv
    PROVE  /\ \A ready \in BOOLEAN : SubmissionStep(ready) => WorksInv'
           /\ Redirected \/ Headed \/ Tick => WorksInv'
  <1>1. ASSUME NEW r, Request(r) PROVE WorksInv'
    BY <1>1, QuietStep DEF Request, feedVars, replayVars
  <1>2. ASSUME NEW ready \in BOOLEAN, Fail(ready), stage # "idle" PROVE WorksInv'
    BY <1>2, Busy, EndWorks DEF Fail, IInv, Urls
  <1>3. ASSUME NEW ready \in BOOLEAN, Failed(ready), stage # "idle" PROVE WorksInv'
    BY <1>1, <1>2, <1>3 DEF Failed
  <1>4. ASSUME NEW ready \in BOOLEAN, SubmissionStep(ready) PROVE WorksInv'
    <2>1. CASE Refused(ready) \/ RequestTimesOut(ready)
      BY <1>3, <2>1 DEF Refused, RequestTimesOut, Requests
    <2>2. CASE Cached(ready)
      <3>1. stage \in Urls /\ stage # "idle"
        BY <2>2 DEF Cached, Urls
      <3> QED  BY <2>2, <3>1, Busy, EndWorks DEF Cached, IInv
    <2>3. CASE Read(ready)
      <3>1. stage # "idle"
        BY <2>3 DEF Read
      <3> QED  BY <2>3, <3>1, Busy, EndWorks DEF Read, Urls, IInv
    <2>4. CASE ReadNothing(ready) \/ TimeOut(ready) \/ GiveUp(ready)
      BY <1>2, <2>4 DEF ReadNothing, TimeOut, GiveUp, IInv, TypeOK
    <2> QED  BY <1>4, <2>1, <2>2, <2>3, <2>4 DEF SubmissionStep
  <1>5. ASSUME Redirected \/ Headed PROVE WorksInv'
    BY <1>1, <1>5 DEF Redirected, Headed
  <1>6. ASSUME Tick PROVE WorksInv'
    BY <1>6, QuietStep DEF Tick, feedVars, replayVars
  <1> QED  BY <1>4, <1>5, <1>6

LEMMA PopWorks ==
    ASSUME IInv, NEW w \in Works
    PROVE  Skip(w) \/ Begin(w) \/ Offered(w) => WorksInv'
  <1>1. ASSUME Skip(w) \/ Begin(w) PROVE WorksInv'
    BY <1>1, RemoveStep DEF Skip, Begin, Pops, TakesUp, feedVars, replayVars, taskVars, Queues
  <1>2. ASSUME Offered(w) PROVE WorksInv'
    BY <1>2, RemoveStep DEF Offered, TakesUp, feedVars, replayVars, taskVars, Queues
  <1> QED  BY <1>1, <1>2

\* What is left of the log after a stop.
LEMMA LogCut ==
    ASSUME TypeOK, NEW n \in 0..Len(log), log' = SubSeq(log, 1, n)
    PROVE  /\ Len(log) \in Nat /\ n \in Nat /\ n <= Len(log)
           /\ Len(log') = n
           /\ \A i \in 1..n : log'[i] = log[i]
  <1>1. Len(log) \in Nat /\ n \in Nat /\ n <= Len(log)
    BY LenProperties DEF TypeOK
  <1>2. Len(log') = n
    BY <1>1
  <1>3. \A i \in 1..n : log'[i] = log[i]
    BY <1>1
  <1> QED  BY <1>1, <1>2, <1>3

LEMMA RestartWorks ==
    ASSUME IInv, NEW n \in 0..Len(log), Restart(n)
    PROVE  WorksInv'
  <1>1. /\ phase' = "replay" /\ replayed' = 0 /\ log' = SubSeq(log, 1, n)
        /\ listing' = <<>> /\ seen' = {} /\ queue' = [q \in Queues |-> EmptyQueue]
        /\ work' = NoWork
    BY DEF Restart
  <1>2. /\ Len(log) \in Nat /\ n <= Len(log) /\ Len(log') = n /\ n \in Nat
        /\ \A i \in 1..n : log'[i] = log[i]
    BY <1>1, LogCut DEF IInv
  <1>3. HeapIsSet' /\ ReplayInv' /\ SeenInv' /\ ClonesInv'
    BY <1>1, <1>2 DEF HeapIsSet, ReplayInv, SeenInv, ClonesInv, EmptyQueue
  <1>4. Applied' = 0
    BY <1>1 DEF Applied
  <1>5. \A i, j \in 1..Len(log') :
            IsNew(i)' /\ IsNew(j)' /\ log'[i].id = log'[j].id => i = j
    BY <1>2 DEF IInv, WorksInv, LogInv, IsNew
  <1>6. LogInv'
    BY <1>1, <1>4, <1>5 DEF LogInv
  <1> QED  BY <1>3, <1>6 DEF WorksInv

\* What the replay is at.
LEMMA ReplayStep ==
    ASSUME IInv, Applies
    PROVE  /\ replayed + 1 \in 1..Len(log) /\ NextChange \in Changes
           /\ Applied = replayed /\ Applied' = replayed + 1 /\ replayed \in Nat
           /\ ReplayInv' /\ log' = log /\ work' = work
  <1>1. replayed + 1 \in 1..Len(log) /\ Len(log) \in Nat /\ replayed \in Nat
    BY LenProperties DEF IInv, TypeOK, Applies
  <1>2. NextChange \in Changes
    BY <1>1, ElementOfSeq DEF IInv, TypeOK, NextChange
  <1>3. /\ phase = "replay" /\ phase' = "replay" /\ replayed' = replayed + 1
        /\ UNCHANGED <<log, listing, work>>
    BY DEF Applies, taskVars
  <1> QED
    BY <1>1, <1>2, <1>3 DEF Applied, ReplayInv, IInv, WorksInv

\* A post is read back: it is not known yet, since it was announced once.
LEMMA ApplyNewPostWorks ==
    ASSUME IInv, NEW ref \in Unused, ApplyNewPost(ref)
    PROVE  WorksInv' /\ ~Contains(seen, NextChange)
  <1> DEFINE new == NewWork([NextChange EXCEPT !.created = FromI64(@)], ref)
  <1>1. /\ Applies /\ NextChange.what = "new"
        /\ seen' = SetInsert(seen, new)
        /\ queue' \in {queue, [queue EXCEPT !["submit"] = Insert(@, new)]}
    BY DEF ApplyNewPost
  <1>2. /\ replayed + 1 \in 1..Len(log) /\ NextChange \in Changes
        /\ Applied = replayed /\ Applied' = replayed + 1 /\ replayed \in Nat
        /\ ReplayInv' /\ log' = log /\ work' = work
    BY <1>1, ReplayStep
  <1>3. new = [created |-> FromI64(NextChange.created), id |-> NextChange.id, data |-> ref]
        /\ new \in Works
    BY <1>2, UnusedIsFresh, ReadType
  <1> HIDE DEF new
  <1>4. ASSUME NEW w \in seen PROVE w.id # NextChange.id
    <2>1. PICK n \in 1..replayed : IsNew(n) /\ log[n].id = w.id
      BY <1>2 DEF IInv, WorksInv, LogInv
    <2>2. n \in 1..Len(log) /\ n # replayed + 1
      BY <1>2, LenProperties DEF IInv, TypeOK
    <2> QED
      BY <1>1, <1>2, <2>1, <2>2 DEF IInv, WorksInv, LogInv, IsNew, NextChange
  <1>5. ~Contains(seen, new) /\ ~Contains(seen, NextChange)
    BY <1>3, <1>4 DEF Contains, IsSame
  <1>6. HeapIsSet' /\ ClonesInv' /\ SeenInv' /\ seen' = seen \cup {new}
    BY <1>1, <1>2, <1>3, <1>5, UnusedIsFresh, InsertFresh
  <1>7. \A n \in 1..Len(log) : IsNew(n)' <=> IsNew(n)
    BY <1>2 DEF IsNew
  <1>8. IsNew(replayed + 1) /\ log[replayed + 1].id = new.id
        /\ new.created = FromI64(log[replayed + 1].created)
    BY <1>1, <1>3 DEF IsNew, NextChange
  <1>9. 1..(replayed + 1) = 1..replayed \cup {replayed + 1}
        /\ \A n \in 1..(replayed + 1) : n \in 1..Len(log)
    BY <1>2, LenProperties DEF IInv, TypeOK
  <1>10. \A w \in seen' : \E n \in 1..Applied' :
            IsNew(n)' /\ log'[n].id = w.id /\ w.created = FromI64(log'[n].created)
    BY <1>2, <1>6, <1>7, <1>8, <1>9 DEF IInv, WorksInv, LogInv
  <1>11. \A n \in 1..Applied' : IsNew(n)' => \E w \in seen' : w.id = log'[n].id
    BY <1>2, <1>6, <1>7, <1>8, <1>9 DEF IInv, WorksInv, LogInv
  <1>12. \A m, n \in 1..Len(log') : IsNew(m)' /\ IsNew(n)' /\ log'[m].id = log'[n].id => m = n
    BY <1>2, <1>7 DEF IInv, WorksInv, LogInv
  <1> QED
    BY <1>2, <1>5, <1>6, <1>10, <1>11, <1>12 DEF WorksInv, LogInv

LEMMA ApplyOutcomeWorks ==
    ASSUME IInv, NEW ref, NEW ready \in BOOLEAN, ApplyOutcome(ref, ready)
    PROVE  WorksInv'
  <1> DEFINE known == CHOOSE w \in seen : IsSame(w, NextChange)
  <1>1. /\ Applies /\ NextChange.what # "new" /\ seen' = seen
        /\ Contains(seen, NextChange) =>
               queue' \in {queue, [queue EXCEPT !["comment"] = Insert(@, known)]}
        /\ ~Contains(seen, NextChange) => queue' = queue
    BY DEF ApplyOutcome
  <1>2. Contains(seen, NextChange) => known \in seen
    BY DEF Contains
  <1> HIDE DEF known
  <1>3. /\ replayed + 1 \in 1..Len(log)
        /\ Applied = replayed /\ Applied' = replayed + 1 /\ replayed \in Nat
        /\ ReplayInv' /\ log' = log /\ work' = work
    BY <1>1, ReplayStep
  <1>4. HeapIsSet' /\ ClonesInv' /\ SeenInv'
    <2>1. CASE Contains(seen, NextChange)
      BY <1>1, <1>2, <1>3, <2>1, InsertKnown DEF Queues
    <2>2. CASE ~Contains(seen, NextChange)
      BY <1>1, <1>3, <2>2 DEF IInv, WorksInv, HeapIsSet, ClonesInv, SeenInv
    <2> QED  BY <2>1, <2>2
  <1>5. ~IsNew(replayed + 1) /\ \A n : IsNew(n)' <=> IsNew(n)
    BY <1>1, <1>3 DEF IsNew, NextChange
  <1>6. 1..(replayed + 1) = 1..replayed \cup {replayed + 1}
    BY <1>3
  <1>7. LogInv'
    BY <1>1, <1>3, <1>5, <1>6 DEF IInv, WorksInv, LogInv
  <1> QED  BY <1>3, <1>4, <1>7 DEF WorksInv

LEMMA ReplayedWorks ==
    ASSUME IInv, Replayed
    PROVE  WorksInv'
  <1>1. /\ phase = "replay" /\ replayed = Len(log) /\ phase' = "running" /\ replayed' = 0
        /\ UNCHANGED <<log, listing, seen, queue, work>>
    BY DEF Replayed, feedVars, taskVars
  <1>2. Applied' = Applied /\ Len(log) \in Nat
    BY <1>1, LenProperties DEF Applied, IInv, TypeOK
  <1>3. LogInv'
    BY <1>1, <1>2 DEF IInv, WorksInv, LogInv, IsNew
  <1>4. HeapIsSet' /\ ClonesInv' /\ SeenInv' /\ ReplayInv'
    BY <1>1, <1>2 DEF IInv, WorksInv, HeapIsSet, ClonesInv, SeenInv, ReplayInv
  <1> QED  BY <1>3, <1>4 DEF WorksInv

LEMMA NextWorks == IInv /\ [Next]_vars => WorksInv'
  <1> SUFFICES ASSUME IInv, [Next]_vars PROVE WorksInv'
    OBVIOUS
  <1>1. ASSUME NEW children, Fetch(children) PROVE WorksInv'
    BY <1>1, QuietStep DEF Fetch, replayVars, taskVars
  <1>2. CASE PassOver \/ InsertSeen
    <2>1. phase # "replay"
      BY <1>2 DEF IInv, WorksInv, ReplayInv, PassOver, InsertSeen
    <2> QED  BY <1>2, <2>1, QuietStep DEF PassOver, InsertSeen, replayVars, taskVars
  <1>3. ASSUME NEW ref \in Unused, AllocatingStep(ref) PROVE WorksInv'
    BY <1>3, InsertNewWorks, ApplyNewPostWorks, ApplyOutcomeWorks DEF AllocatingStep
  <1>4. CASE OtherStep
    BY <1>2, <1>4, PopWorks, SubmissionWorks, ReplayedWorks DEF OtherStep
  <1>5. CASE Cancel \/ UNCHANGED vars
    BY <1>5, QuietStep DEF Cancel, vars, feedVars, replayVars, taskVars
  <1> QED  BY <1>1, <1>3, <1>4, <1>5, RestartWorks DEF Next

LEMMA Inductive == Spec => []IInv
  <1>1. Init => IInv
    BY InitType, InitWorks DEF IInv
  <1>2. IInv /\ [Next]_vars => IInv'
    BY NextType, NextWorks DEF IInv
  <1> QED  BY <1>1, <1>2, PTL DEF Spec

\* Heap and set of both queues have the same works, once each, for every listing and
\* whatever dates a post comes back with (state.rs:96-106, state.rs:571-572): what
\* pop() returns is the very work that is in the set.
THEOREM QueuesAgree == Spec => []HeapIsSet
  <1>1. IInv => HeapIsSet
    BY DEF IInv, WorksInv
  <1> QED  BY <1>1, Inductive, PTL

\* Every outcome is stored where the queues, seen_posts and the other loops look for
\* it, and nowhere else (reddit.rs:462-478, state.rs:280-356).
THEOREM WorksShareTheirData == Spec => []DataIsShared
  <1>1. ASSUME IInv PROVE DataIsShared
    <2>1. \A q \in Queues, w \in Works : queue[q].heap[w] > 0 => w \in queue[q].set
      BY <1>1 DEF IInv, WorksInv, HeapIsSet
    <2>2. ASSUME NEW w \in Reachable PROVE w \in seen
      <3>1. CASE w \in {work} \ {NoWork}
        BY <1>1, <3>1 DEF IInv, WorksInv, ClonesInv
      <3>2. CASE \E q \in Queues : w \in queue[q].set \cup {v \in Works : queue[q].heap[v] > 0}
        BY <1>1, <2>1, <3>2 DEF IInv, WorksInv, ClonesInv
      <3> QED  BY <3>1, <3>2 DEF Reachable
    <2> QED  BY <1>1, <2>2 DEF IInv, WorksInv, SeenInv, DataIsShared, IsSame
  <1> QED  BY <1>1, Inductive, PTL

(***************************************************************************)
(* The order in which posts are taken                                      *)
(***************************************************************************)

USE DEF IsNew

\* A date is kept with its line.
LEMMA DateKept ==
    ASSUME NEW i, Reported(i)' = Reported(i), \A n \in Reported(i) : log'[n] = log[n]
    PROVE  DateOf(i)' = DateOf(i)
  <1>1. CASE Reported(i) = {}
    BY <1>1 DEF DateOf, NoDate
  <1>2. CASE Reported(i) # {}
    <2> DEFINE n == CHOOSE m \in Reported(i) : TRUE
    <2>1. n \in Reported(i)
      BY <1>2
    <2>2. DateOf(i) = log[n].created /\ DateOf(i)' = log'[n].created
      BY <1>2 DEF DateOf
    <2> QED  BY <2>1, <2>2
  <1> QED  BY <1>1, <1>2

\* A post that is announced has the date it was announced with.
LEMMA DateIs ==
    ASSUME LogInv, NEW n \in 1..Len(log), IsNew(n)
    PROVE  DateOf(log[n].id) = log[n].created
  <1> DEFINE i == log[n].id
  <1>1. n \in Reported(i) /\ \A m \in Reported(i) : m = n
    BY DEF Reported, LogInv
  <1> QED  BY <1>1 DEF DateOf

\* A known post has the date it was announced with.
LEMMA SeenDate ==
    ASSUME IInv, NEW w \in seen
    PROVE  DateOf(w.id) = w.created.unix_ts /\ DateOf(w.id) # NoDate /\ w.id \in Ids
  <1>1. w \in Works
    BY DEF IInv, TypeOK
  <1>2. w.created.unix_ts \in MinUtc..MaxUtc /\ w.id \in Ids
    BY <1>1, WrittenType
  <1>3. PICK n \in 1..Applied :
            IsNew(n) /\ log[n].id = w.id /\ w.created = FromI64(log[n].created)
    BY DEF IInv, WorksInv, LogInv
  <1>4. n \in 1..Len(log)
    BY <1>3, LenProperties DEF Applied, IInv, TypeOK, WorksInv, ReplayInv
  <1>5. DateOf(w.id) = log[n].created
    BY <1>3, <1>4, DateIs DEF IInv, WorksInv
  <1>6. w.created.unix_ts = log[n].created
    BY <1>3 DEF FromI64
  <1>7. NoDate \notin MinUtc..MaxUtc
    BY RangesAssumption DEF NoDate
  <1> QED  BY <1>2, <1>5, <1>6, <1>7

\* Steps the backlog does not see.
LEMMA UnseenStep ==
    ASSUME UNCHANGED seen, queue'["submit"] = queue["submit"],
           \A i \in Ids : DateOf(i)' = DateOf(i)
    PROVE  UNCHANGED Queue!vars
  BY DEF Queue!vars

\* Outcomes have no date.
LEMMA OutcomeDates ==
    ASSUME TypeOK, NEW change \in Changes, change.what # "new", log' = Append(log, change)
    PROVE  \A i \in Ids : DateOf(i)' = DateOf(i)
  <1> SUFFICES ASSUME NEW i \in Ids PROVE DateOf(i)' = DateOf(i)
    OBVIOUS
  <1>1. /\ Len(log) \in Nat /\ Len(log') = Len(log) + 1
        /\ \A n \in 1..Len(log) : log'[n] = log[n]
        /\ log'[Len(log) + 1] = change
    BY LogGrows
  <1>2. Reported(i)' = Reported(i) /\ \A n \in Reported(i) : log'[n] = log[n]
    BY <1>1 DEF Reported
  <1> QED  BY <1>2, DateKept

LEMMA SameDates ==
    ASSUME UNCHANGED log
    PROVE  \A i \in Ids : DateOf(i)' = DateOf(i)
  BY DEF DateOf, Reported, NoDate

\* The newest post is taken.
LEMMA PopTakes ==
    ASSUME IInv, NEW w \in Works, Pops(w), UNCHANGED <<seen, log>>
    PROVE  Queue!Next
  <1> DEFINE i == w.id
  <1>1. /\ IsTop(queue["submit"], w)
        /\ queue' = [queue EXCEPT !["submit"] = Remove(@, w)]
    BY DEF Pops
  <1>2. /\ queue["submit"] \in WorkQueues /\ Agrees(queue["submit"])
        /\ queue["submit"].set \subseteq seen /\ queue["submit"].set \subseteq Works
    BY DEF IInv, TypeOK, WorksInv, HeapIsSet, ClonesInv, Agrees, Queues, WorkQueues
  <1>3. \A v \in queue["submit"].set : IsSame(v, w) => v = w
    BY <1>1, <1>2 DEF IInv, WorksInv, SeenInv, IsTop, Agrees
  <1>4. w \in queue["submit"].set /\ w \in seen
        /\ Remove(queue["submit"], w).set = queue["submit"].set \ {w}
    BY <1>1, <1>2, <1>3, RemoveAgrees
  <1>5. queue'["submit"].set = queue["submit"].set \ {w}
    BY <1>1, <1>4 DEF IInv, TypeOK, Queues
  <1>6. {v.id : v \in queue'["submit"].set} = {v.id : v \in queue["submit"].set} \ {i}
    BY <1>3, <1>5 DEF IsSame
  <1>7. ASSUME NEW v \in queue["submit"].set, v.id # i
        PROVE  DateOf(v.id) < DateOf(i) \/ (DateOf(v.id) = DateOf(i) /\ v.id < i)
    <2>1. ~IsOlder(w, v)
      BY <1>1, <1>2 DEF IsTop, Agrees
    <2>2. DateOf(v.id) = v.created.unix_ts /\ DateOf(i) = w.created.unix_ts
      BY <1>2, <1>4, SeenDate
    <2>3. /\ v.created.unix_ts \in MinUtc..MaxUtc /\ w.created.unix_ts \in MinUtc..MaxUtc
          /\ v.id \in Ids /\ w.id \in Ids
      BY <1>2, WrittenType
    <2>4. v.created.unix_ts \in Int /\ w.created.unix_ts \in Int /\ v.id \in Nat /\ w.id \in Nat
      <3>1. \A t \in MinUtc..MaxUtc : t \in Int
        OBVIOUS
      <3> QED  BY <2>3, <3>1, IdsAssumption
    <2> QED  BY <1>7, <2>1, <2>2, <2>4 DEF IsOlder, Before, Equal
  <1>8. i \in Ids /\ \A v \in queue["submit"].set : v.id \in Ids
    BY <1>2, <1>4, SeenDate
  <1>9. Queue!Take(i)
    BY <1>4, <1>6, <1>7, <1>8, SameDates DEF Queue!Take, Queue!IsNewest
  <1> QED  BY <1>8, <1>9 DEF Queue!Next

\* A queue that is given a post offers it, whether or not it was there.
LEMMA InsertOffers ==
    ASSUME NEW q \in WorkQueues, NEW w \in Works
    PROVE  {v.id : v \in Insert(q, w).set} = {v.id : v \in q.set} \cup {w.id}
  <1>1. CASE Contains(q.set, w)
    <2>1. PICK v \in q.set : v.id = w.id
      BY <1>1 DEF Contains, IsSame
    <2> QED  BY <1>1, <2>1 DEF Insert
  <1>2. CASE ~Contains(q.set, w)
    BY <1>2 DEF Insert
  <1> QED  BY <1>1, <1>2

\* A post that is new to collect_loop was not announced before.
LEMMA InsertFinds ==
    ASSUME IInv, NEW ref \in Unused, InsertNew(ref)
    PROVE  Queue!Next
  <1>1. /\ listing # <<>> /\ IsPost(Head(listing))
        /\ NewWork(PostOf(Head(listing)), ref) \in Works
    BY HeadTailProperties, PostType, UnusedIsFresh DEF InsertNew, IInv, TypeOK
  <1>2. PICK new \in Works :
            /\ ~Contains(seen, new)
            /\ log' = Append(log, NewPost(new)) /\ seen' = SetInsert(seen, new)
            /\ queue' = [queue EXCEPT !["submit"] = Insert(@, new)]
    BY <1>1 DEF InsertNew
  <1> DEFINE i == new.id
             d == Serialize(new.created)
  <1>3. i \in Ids /\ d \in MinUtc..MaxUtc /\ NewPost(new) \in Changes
        /\ NewPost(new).what = "new" /\ NewPost(new).id = i /\ NewPost(new).created = d
    BY <1>2, WrittenType DEF NewPost, Serialize
  <1>4. Applied = Len(log)
    BY <1>1 DEF Applied, IInv, TypeOK, WorksInv, ReplayInv
  <1>5. /\ Len(log) \in Nat /\ Len(log') = Len(log) + 1
        /\ \A n \in 1..Len(log) : log'[n] = log[n]
        /\ log'[Len(log) + 1] = NewPost(new)
    BY <1>2, <1>3, LogGrows DEF IInv
  <1>6. \A n \in 1..Len(log) : IsNew(n) => log[n].id # i
    BY <1>2, <1>4 DEF IInv, WorksInv, LogInv, Contains, IsSame
  <1>7. Reported(i) = {} /\ Reported(i)' = {Len(log) + 1}
    <2>1. Reported(i) = {}
      BY <1>6 DEF Reported
    <2>2. 1..Len(log') = 1..Len(log) \cup {Len(log) + 1}
      BY <1>5
    <2>3. \A n \in 1..Len(log) : n \notin Reported(i)'
      BY <1>5, <1>6 DEF Reported
    <2>4. Len(log) + 1 \in Reported(i)'
      BY <1>3, <1>5, <2>2 DEF Reported
    <2>5. \A n \in Reported(i)' : n \in 1..Len(log')
      BY DEF Reported
    <2> QED  BY <2>1, <2>2, <2>3, <2>4, <2>5
  <1>8. DateOf(i) = NoDate /\ DateOf(i)' = d
    BY <1>3, <1>5, <1>7 DEF DateOf
  <1>9. \A j \in Ids \ {i} : DateOf(j)' = DateOf(j)
    <2> SUFFICES ASSUME NEW j \in Ids \ {i} PROVE DateOf(j)' = DateOf(j)
      OBVIOUS
    <2>1. Reported(j)' = Reported(j) /\ \A n \in Reported(j) : log'[n] = log[n]
      BY <1>3, <1>5 DEF Reported
    <2> QED  BY <2>1, DateKept
  <1>10. {w.id : w \in seen'} = {w.id : w \in seen} \cup {i}
    BY <1>2 DEF SetInsert
  <1>11. {w.id : w \in queue'["submit"].set} = {w.id : w \in queue["submit"].set} \cup {i}
    <2>1. queue'["submit"] = Insert(queue["submit"], new) /\ queue["submit"] \in WorkQueues
      BY <1>2 DEF IInv, TypeOK, Queues
    <2> QED  BY <1>2, <2>1, InsertOffers
  <1>12. [j \in Ids |-> DateOf(j)]' = [[j \in Ids |-> DateOf(j)] EXCEPT ![i] = d]
    <2>1. \A j \in Ids : DateOf(j)' = IF j = i THEN d ELSE DateOf(j)
      BY <1>8, <1>9
    <2>2. [j \in Ids |-> DateOf(j)]' = [j \in Ids |-> DateOf(j)']
      OBVIOUS
    <2> HIDE DEF i, d
    <2> QED  BY <2>1, <2>2
  <1>13. Queue!Find(i, d)
    BY <1>3, <1>8, <1>10, <1>11, <1>12 DEF Queue!Find
  <1> HIDE DEF i, d
  <1> QED  BY <1>3, <1>13 DEF Queue!Next

\* A stop forgets the posts whose lines were not written, and keeps all other dates.
LEMMA RestartForgets ==
    ASSUME IInv, NEW n \in 0..Len(log), Restart(n)
    PROVE  Queue!Next
  <1>1. log' = SubSeq(log, 1, n) /\ seen' = {} /\ queue' = [q \in Queues |-> EmptyQueue]
    BY DEF Restart
  <1>2. /\ Len(log) \in Nat /\ n <= Len(log) /\ Len(log') = n /\ n \in Nat
        /\ \A i \in 1..n : log'[i] = log[i]
    BY <1>1, LogCut DEF IInv
  <1> DEFINE kept == {i \in Ids : Reported(i)' # {}}
  <1>3. \A i \in Ids : DateOf(i)' = IF i \in kept THEN DateOf(i) ELSE NoDate
    <2>1. ASSUME NEW i \in Ids, Reported(i)' # {} PROVE DateOf(i)' = DateOf(i)
      <3>1. PICK m \in Reported(i)' : TRUE
        BY <2>1
      <3>2. m \in 1..n /\ m \in 1..Len(log) /\ log'[m] = log[m] /\ IsNew(m) /\ log[m].id = i
        BY <1>2, <3>1 DEF Reported
      <3>3. \A k \in 1..Len(log) : IsNew(k) /\ log[k].id = i => k = m
        BY <3>2 DEF IInv, WorksInv, LogInv
      <3>4. Reported(i) = {m}
        BY <3>2, <3>3 DEF Reported
      <3>5. Reported(i)' = {m}
        BY <1>2, <3>2, <3>3 DEF Reported
      <3> QED  BY <3>2, <3>4, <3>5, DateKept
    <2>2. ASSUME NEW i \in Ids, Reported(i)' = {} PROVE DateOf(i)' = NoDate
      BY <2>2 DEF DateOf, NoDate
    <2> QED  BY <2>1, <2>2
  <1>4. {w.id : w \in seen'} = {} /\ {w.id : w \in queue'["submit"].set} = {}
    BY <1>1 DEF EmptyQueue, Queues
  <1> HIDE DEF kept
  <1> DEFINE left == kept \cap Ids
  <1>5. [i \in Ids |-> DateOf(i)]'
            = [i \in Ids |-> IF i \in left THEN [j \in Ids |-> DateOf(j)][i] ELSE NoDate]
    BY <1>3
  <1>6. left \in SUBSET Ids
    OBVIOUS
  <1>7. Queue!Crash
    BY <1>4, <1>5, <1>6 DEF Queue!Crash
  <1> QED  BY <1>7 DEF Queue!Next

\* A post that is read back is offered again, or left out.
LEMMA ReplayRestores ==
    ASSUME IInv, NEW ref \in Unused, ApplyNewPost(ref)
    PROVE  Queue!Next
  <1> DEFINE new == NewWork([NextChange EXCEPT !.created = FromI64(@)], ref)
  <1>1. /\ Applies /\ NextChange.what = "new"
        /\ seen' = SetInsert(seen, new)
        /\ queue' \in {queue, [queue EXCEPT !["submit"] = Insert(@, new)]}
    BY DEF ApplyNewPost
  <1>2. replayed + 1 \in 1..Len(log) /\ NextChange \in Changes /\ log' = log
    BY <1>1, ReplayStep
  <1>id. PICK i \in Ids : i = NextChange.id
    BY <1>2 DEF Changes
  <1>3. new \in Works /\ new.id = i
    <2>1. ref \in Refs
      BY UnusedIsFresh
    <2>2. new = [created |-> FromI64(NextChange.created), id |-> i, data |-> ref]
      BY <1>id, <1>2, <2>1, ReadType
    <2> QED  BY <1>id, <1>2, <2>1, <2>2, ReadType
  <1> HIDE DEF new
  <1>4. ~Contains(seen, NextChange)
    BY ApplyNewPostWorks
  <1>5. {w.id : w \in seen'} = {w.id : w \in seen} \cup {i} /\ i \notin {w.id : w \in seen}
    BY <1>id, <1>1, <1>3, <1>4 DEF SetInsert, Contains, IsSame
  <1>6. i \in Ids /\ DateOf(i) # NoDate
    <2>1. DateOf(i) = NextChange.created
      BY <1>id, <1>1, <1>2, DateIs DEF NextChange, IInv, WorksInv
    <2>2. NextChange.created \in MinUtc..MaxUtc /\ i \in Ids
      BY <1>2 DEF Changes
    <2> QED  BY <2>1, <2>2, RangesAssumption DEF NoDate
  <1>7. \/ {w.id : w \in queue'["submit"].set} = {w.id : w \in queue["submit"].set}
        \/ {w.id : w \in queue'["submit"].set} = {w.id : w \in queue["submit"].set} \cup {i}
    <2>1. CASE queue' = queue
      BY <2>1
    <2>2. CASE queue' = [queue EXCEPT !["submit"] = Insert(@, new)]
      <3>1. queue'["submit"] = Insert(queue["submit"], new) /\ queue["submit"] \in WorkQueues
        BY <2>2 DEF IInv, TypeOK, Queues
      <3> QED  BY <1>3, <3>1, InsertOffers
    <2> QED  BY <1>1, <2>1, <2>2
  <1>8. [j \in Ids |-> DateOf(j)]' = [j \in Ids |-> DateOf(j)]
    BY <1>2, SameDates
  <1>9. Queue!Restore(i)
    BY <1>5, <1>6, <1>7, <1>8 DEF Queue!Restore
  <1> QED  BY <1>6, <1>9 DEF Queue!Next

\* The end of a submission adds an outcome to the log.
LEMMA EndUnseen ==
    ASSUME IInv, work # NoWork,
           NEW outcome \in {"success", "failure"}, NEW link \in Urls, NEW ready \in BOOLEAN,
           End(outcome, link, ready)
    PROVE  UNCHANGED Queue!vars
  <1>1. work \in Works
    BY DEF IInv, TypeOK
  <1>2. /\ log' = Append(log, Outcome(work, outcome, link)) /\ seen' = seen
        /\ queue'["submit"] = queue["submit"]
    BY DEF End, IInv, TypeOK, Queues
  <1>3. Outcome(work, outcome, link) \in Changes
        /\ Outcome(work, outcome, link).what # "new"
    BY <1>1, WrittenType DEF Outcome
  <1>4. \A i \in Ids : DateOf(i)' = DateOf(i)
    BY <1>2, <1>3, OutcomeDates DEF IInv
  <1> QED  BY <1>2, <1>4, UnseenStep

LEMMA SubmissionUnseen ==
    ASSUME IInv
    PROVE  /\ \A ready \in BOOLEAN : SubmissionStep(ready) => UNCHANGED Queue!vars
           /\ Redirected \/ Headed \/ Tick => UNCHANGED Queue!vars
  <1>1. ASSUME NEW r, Request(r) PROVE UNCHANGED Queue!vars
    BY <1>1, SameDates, UnseenStep DEF Request, feedVars
  <1>2. ASSUME NEW ready \in BOOLEAN, Fail(ready), stage # "idle" PROVE UNCHANGED Queue!vars
    BY <1>2, Busy, EndUnseen DEF Fail, IInv, Urls
  <1>3. ASSUME NEW ready \in BOOLEAN, Failed(ready), stage # "idle" PROVE UNCHANGED Queue!vars
    BY <1>1, <1>2, <1>3 DEF Failed
  <1>4. ASSUME NEW ready \in BOOLEAN, SubmissionStep(ready) PROVE UNCHANGED Queue!vars
    <2>1. CASE Refused(ready) \/ RequestTimesOut(ready)
      BY <1>3, <2>1 DEF Refused, RequestTimesOut, Requests
    <2>2. CASE Cached(ready)
      <3>1. stage \in Urls /\ stage # "idle"
        BY <2>2 DEF Cached, Urls
      <3> QED  BY <2>2, <3>1, Busy, EndUnseen DEF Cached, IInv
    <2>3. CASE Read(ready)
      <3>1. stage # "idle"
        BY <2>3 DEF Read
      <3> QED  BY <2>3, <3>1, Busy, EndUnseen DEF Read, Urls, IInv
    <2>4. CASE ReadNothing(ready) \/ TimeOut(ready) \/ GiveUp(ready)
      BY <1>2, <2>4 DEF ReadNothing, TimeOut, GiveUp, IInv, TypeOK
    <2> QED  BY <1>4, <2>1, <2>2, <2>3, <2>4 DEF SubmissionStep
  <1>5. ASSUME Redirected \/ Headed PROVE UNCHANGED Queue!vars
    BY <1>1, <1>5 DEF Redirected, Headed
  <1>6. ASSUME Tick PROVE UNCHANGED Queue!vars
    BY <1>6, SameDates, UnseenStep DEF Tick, feedVars
  <1> QED  BY <1>4, <1>5, <1>6

\* Every step of the loop and its queues is a step of the backlog or none.
LEMMA BacklogStep == IInv /\ [Next]_vars => [Queue!Next]_(Queue!vars)
  <1> SUFFICES ASSUME IInv, [Next]_vars PROVE Queue!Next \/ UNCHANGED Queue!vars
    BY DEF Queue!vars
  <1>1. ASSUME UNCHANGED <<log, seen, queue>> PROVE UNCHANGED Queue!vars
    BY <1>1, SameDates, UnseenStep
  <1>2. ASSUME NEW children, Fetch(children) PROVE UNCHANGED Queue!vars
    BY <1>1, <1>2 DEF Fetch
  <1>3. ASSUME NEW ref \in Unused, NEW ready \in BOOLEAN, ApplyOutcome(ref, ready)
        PROVE  UNCHANGED Queue!vars
    <2>1. queue'["submit"] = queue["submit"] /\ UNCHANGED <<log, seen>>
      BY <1>3 DEF ApplyOutcome, Applies, IInv, TypeOK, Queues
    <2> QED  BY <2>1, SameDates, UnseenStep
  <1>4. ASSUME NEW ref \in Unused, AllocatingStep(ref)
        PROVE  Queue!Next \/ UNCHANGED Queue!vars
    BY <1>3, <1>4, InsertFinds, ReplayRestores DEF AllocatingStep
  <1>5. ASSUME NEW w \in Works, Skip(w) \/ Begin(w) \/ Offered(w)
        PROVE  Queue!Next \/ UNCHANGED Queue!vars
    <2>1. CASE Skip(w) \/ Begin(w)
      BY <2>1, PopTakes DEF Skip, Begin, feedVars
    <2>2. CASE Offered(w)
      <3>1. queue'["submit"] = queue["submit"] /\ UNCHANGED <<log, seen>>
        BY <2>2 DEF Offered, feedVars, IInv, TypeOK, Queues
      <3> QED  BY <3>1, SameDates, UnseenStep
    <2> QED  BY <1>5, <2>1, <2>2
  <1>6. CASE OtherStep
    <2>1. CASE PassOver \/ InsertSeen \/ Replayed
      BY <1>1, <2>1 DEF PassOver, InsertSeen, Replayed, feedVars
    <2> QED  BY <1>5, <1>6, <2>1, SubmissionUnseen DEF OtherStep
  <1>7. CASE Cancel \/ UNCHANGED vars
    BY <1>1, <1>7 DEF Cancel, vars, feedVars
  <1>8. ASSUME NEW n \in 0..Len(log), Restart(n) PROVE Queue!Next
    BY <1>8, RestartForgets
  <1> QED  BY <1>2, <1>4, <1>6, <1>7, <1>8 DEF Next

\* The heap, the set, the clones, the listings and the replay together are the queue
\* Backlog describes: of the posts that wait the newest is taken, every start offers
\* each once, and a restart changes neither dates nor order (state.rs:84-106,
\* state.rs:271-332, reddit.rs:462-478, timestamp.rs:64-126).
THEOREM BacklogImplemented == Spec => ImplementsBacklog
  <1>1. Init => Queue!Init
    <2> SUFFICES ASSUME Init PROVE Queue!Init
      OBVIOUS
    <2>1. \A i \in Ids : DateOf(i) = NoDate
      BY EmptySeq DEF Init, DateOf, Reported
    <2>2. {w.id : w \in seen} = {} /\ {w.id : w \in queue["submit"].set} = {}
      BY DEF Init, EmptyQueue, Queues
    <2> QED  BY <2>1, <2>2 DEF Queue!Init
  <1> QED
    BY <1>1, BacklogStep, Inductive, PTL DEF Spec, ImplementsBacklog, Queue!Spec

(***************************************************************************)
(* What is reported                                                        *)
(***************************************************************************)

\* A first request has been waited for since the submission was begun; and whoever
\* waits for Wikiwix's copy was redirected to it.
EarnInv ==
    /\ stage = "full" => elapsed = waited
    /\ stage = "parse" => archive # "wikiwix"
    /\ stage = "read" \/ (stage = "body" /\ archive = "wikiwix") => "save" \in confirmed

LEMMA EndEarns ==
    ASSUME NEW outcome, NEW link, NEW ready, End(outcome, link, ready)
    PROVE  EarnInv'
  BY DEF End, EarnInv

LEMMA SubmissionEarns ==
    ASSUME TypeOK, EarnInv
    PROVE  /\ \A ready \in BOOLEAN : SubmissionStep(ready) => EarnInv'
           /\ Redirected \/ Headed \/ Tick => EarnInv'
  <1>1. Request("cut") => EarnInv'
    BY DEF Request, EarnInv
  <1>2. ASSUME NEW ready \in BOOLEAN, Failed(ready) PROVE EarnInv'
    BY <1>1, <1>2, EndEarns DEF Failed, Fail
  <1>3. ASSUME NEW ready \in BOOLEAN, SubmissionStep(ready) PROVE EarnInv'
    BY <1>2, <1>3, EndEarns
       DEF SubmissionStep, Refused, RequestTimesOut, Cached, Read, ReadNothing, TimeOut, GiveUp,
           Fail
  <1>4. ASSUME Redirected \/ Headed PROVE EarnInv'
    BY <1>4 DEF Redirected, Headed, Request, EarnInv, replayVars
  <1>5. ASSUME Tick PROVE EarnInv'
    BY <1>5 DEF Tick, EarnInv, Requests, replayVars
  <1> QED  BY <1>3, <1>4, <1>5

LEMMA NextEarns == TypeOK /\ EarnInv /\ [Next]_vars => EarnInv'
  <1> SUFFICES ASSUME TypeOK, EarnInv, [Next]_vars PROVE EarnInv'
    OBVIOUS
  <1>1. ASSUME UNCHANGED <<archive, stage, confirmed, elapsed, waited>> PROVE EarnInv'
    BY <1>1 DEF EarnInv
  <1>2. ASSUME NEW ref \in Unused, AllocatingStep(ref) PROVE EarnInv'
    BY <1>1, <1>2
       DEF AllocatingStep, InsertNew, ApplyNewPost, ApplyOutcome, Applies, replayVars, taskVars
  <1>3. ASSUME NEW w \in Works, Skip(w) \/ Begin(w) \/ Offered(w) PROVE EarnInv'
    <2>1. CASE Skip(w) \/ Offered(w)
      BY <1>1, <2>1 DEF Skip, Offered, replayVars, taskVars
    <2>2. CASE Begin(w)
      BY <2>2, ArchivesAssumption DEF Begin, FirstRequest, EarnInv, TypeOK, replayVars
    <2> QED  BY <1>3, <2>1, <2>2
  <1>4. CASE OtherStep
    <2>1. CASE PassOver \/ InsertSeen \/ Replayed
      BY <1>1, <2>1 DEF PassOver, InsertSeen, Replayed, replayVars, taskVars
    <2> QED  BY <1>3, <1>4, <2>1, SubmissionEarns DEF OtherStep
  <1>5. ASSUME NEW n, Restart(n) PROVE EarnInv'
    BY <1>5 DEF Restart, EarnInv
  <1>6. ASSUME NEW children, Fetch(children) PROVE EarnInv'
    BY <1>1, <1>6 DEF Fetch, replayVars, taskVars
  <1>7. CASE Cancel \/ UNCHANGED vars
    BY <1>1, <1>7 DEF Cancel, vars, replayVars, taskVars
  <1> QED  BY <1>2, <1>4, <1>5, <1>6, <1>7 DEF Next

\* What OutcomeIsEarned says of a step that reports an outcome.
Earned(outcome, link) ==
    IF outcome = "success" THEN Needed(link) \subseteq confirmed'
    ELSE stage = "full" /\ work.id \in Queried => cancelled

Reports == work # NoWork /\ Len(log') = Len(log) + 1 /\ log'[Len(log')].what # "new"

LEMMA EndReports ==
    ASSUME TypeOK, work # NoWork,
           NEW outcome \in {"success", "failure"}, NEW link \in Urls, NEW ready \in BOOLEAN,
           End(outcome, link, ready)
    PROVE  log'[Len(log')] = Outcome(work, outcome, link)
  <1>1. work \in Works
    BY DEF TypeOK
  <1>2. Outcome(work, outcome, link) \in Changes
    BY <1>1, WrittenType
  <1>3. log' = Append(log, Outcome(work, outcome, link))
    BY DEF End
  <1> QED  BY <1>2, <1>3, LogGrows

LEMMA SubmissionReports ==
    ASSUME TypeOK, EarnInv, NEW ready \in BOOLEAN, SubmissionStep(ready), Reports
    PROVE  LET change == log'[Len(log')] IN Earned(change.what, change.link)
  <1> DEFINE change == log'[Len(log')]
  <1>1. ASSUME NEW outcome \in {"success", "failure"}, NEW link \in Urls, work # NoWork,
               End(outcome, link, ready)
        PROVE  change.what = outcome /\ change.link = link
    <2>1. change = Outcome(work, outcome, link)
      BY <1>1, EndReports
    <2> QED  BY <2>1 DEF Outcome
  <1>2. ASSUME Fail(ready), stage # "idle", stage = "full" /\ work.id \in Queried => cancelled
        PROVE  Earned(change.what, change.link)
    <2>1. End("failure", "none", ready) /\ work # NoWork
      BY <1>2, Busy DEF Fail
    <2>2. change.what = "failure"
      BY <1>1, <2>1 DEF Urls
    <2> QED  BY <1>2, <2>2 DEF Earned
  <1>3. ASSUME Request("cut") PROVE FALSE
    BY <1>3, LenProperties DEF Request, feedVars, Reports, TypeOK
  <1>4. CASE Refused(ready) \/ RequestTimesOut(ready)
    <2>1. Failed(ready) /\ stage # "idle"
      BY <1>4 DEF Refused, RequestTimesOut, Requests
    <2> QED  BY <1>2, <1>3, <2>1 DEF Failed
  <1>5. CASE Cached(ready)
    <2>1. stage \in {"full", "cut"} /\ End("success", stage, ready) /\ stage \in confirmed'
      BY <1>5 DEF Cached
    <2>2. change.what = "success" /\ change.link = stage
      BY <1>1, <2>1, Busy DEF Urls
    <2> QED  BY <2>1, <2>2 DEF Earned, Needed
  <1>6. CASE Read(ready)
    <2>1. CASE archive = "wikiwix"
      <3>1. End("success", "revision", ready) /\ {"save", "read"} \subseteq confirmed'
            /\ stage # "idle"
        BY <1>6, <2>1 DEF Read, EarnInv
      <3>2. change.what = "success" /\ change.link = "revision"
        BY <1>1, <3>1, Busy DEF Urls
      <3> QED  BY <3>1, <3>2 DEF Earned, Needed
    <2>2. CASE archive # "wikiwix"
      <3>1. End("success", "short", ready) /\ "parse" \in confirmed' /\ stage # "idle"
        BY <1>6, <2>2 DEF Read
      <3>2. change.what = "success" /\ change.link = "short"
        BY <1>1, <3>1, Busy DEF Urls
      <3> QED  BY <3>1, <3>2 DEF Earned, Needed
    <2> QED  BY <2>1, <2>2
  <1>7. CASE ReadNothing(ready) \/ GiveUp(ready)
    BY <1>2, <1>7 DEF ReadNothing, GiveUp, TypeOK
  <1>8. CASE TimeOut(ready)
    <2>1. stage # "full"
      BY <1>8 DEF TimeOut, TypeOK, EarnInv, SubmitTime, RequestTime
    <2> QED  BY <1>2, <1>8, <2>1 DEF TimeOut, TypeOK
  <1> QED  BY <1>4, <1>5, <1>6, <1>7, <1>8 DEF SubmissionStep

LEMMA OthersReportNothing ==
    ASSUME TypeOK, [Next]_vars, Reports
    PROVE  \E ready \in BOOLEAN : SubmissionStep(ready)
  <1>1. log' # log /\ Len(log) \in Nat
    BY LenProperties DEF Reports, TypeOK
  <1>2. ASSUME NEW ref \in Unused, AllocatingStep(ref) PROVE FALSE
    <2>1. CASE InsertNew(ref)
      <3> DEFINE new == NewWork(PostOf(Head(listing)), ref)
      <3>1. new \in Works
        BY <2>1, HeadTailProperties, PostType, UnusedIsFresh DEF InsertNew, TypeOK
      <3>2. log' = Append(log, NewPost(new))
        BY <2>1 DEF InsertNew
      <3> HIDE DEF new
      <3>3. log'[Len(log')] = NewPost(new)
        BY <3>1, <3>2, WrittenType, LogGrows
      <3> QED  BY <3>3 DEF Reports, NewPost
    <2>2. CASE ApplyNewPost(ref) \/ \E ready \in BOOLEAN : ApplyOutcome(ref, ready)
      BY <1>1, <2>2 DEF ApplyNewPost, ApplyOutcome, Applies
    <2> QED  BY <1>2, <2>1, <2>2 DEF AllocatingStep
  <1>3. ASSUME NEW n \in 0..Len(log), Restart(n) PROVE FALSE
    <2>1. Len(log') = n /\ n <= Len(log)
      BY <1>3, LogCut DEF Restart
    <2> QED  BY <1>1, <2>1 DEF Reports
  <1>4. ASSUME NEW children, Fetch(children) PROVE FALSE
    BY <1>1, <1>4 DEF Fetch
  <1>5. ASSUME NEW w, Skip(w) \/ Begin(w) \/ Offered(w) PROVE FALSE
    BY <1>1, <1>5 DEF Skip, Begin, Offered, feedVars
  <1>6. ASSUME PassOver \/ InsertSeen \/ Redirected \/ Headed \/ Tick \/ Replayed PROVE FALSE
    BY <1>1, <1>6 DEF PassOver, InsertSeen, Redirected, Headed, Request, Tick, Replayed, feedVars
  <1>7. ASSUME Cancel \/ UNCHANGED vars PROVE FALSE
    BY <1>1, <1>7 DEF Cancel, vars, feedVars
  <1> QED  BY <1>2, <1>3, <1>4, <1>5, <1>6, <1>7 DEF Next, OtherStep

\* An url is reported only when the archive has confirmed it, and Google's copy is not
\* given up before both urls were asked for, whatever the requests take
\* (google_cache.rs:38-46, wikiwix.rs:27-85, outline_com.rs:29-51).
THEOREM OutcomesAreEarned == Spec => OutcomeIsEarned
  <1>1. Init => EarnInv
    BY DEF Init, EarnInv
  <1>2. TypeOK /\ EarnInv /\ [Next]_vars
            => [Reports => LET change == log'[Len(log')]
                           IN  Earned(change.what, change.link)]_vars
    BY SubmissionReports, OthersReportNothing
  <1>3. [Reports => LET change == log'[Len(log')] IN Earned(change.what, change.link)]_vars
            => [work # NoWork /\ Len(log') = Len(log) + 1 /\ log'[Len(log')].what # "new" =>
                    LET change == log'[Len(log')]
                    IN  IF change.what = "success" THEN Needed(change.link) \subseteq confirmed'
                        ELSE stage = "full" /\ work.id \in Queried => cancelled]_vars
    BY DEF Reports, Earned
  <1> QED
    BY <1>1, <1>2, <1>3, NextEarns, InitType, NextType, PTL DEF Spec, OutcomeIsEarned


(***************************************************************************)
(* What is submitted                                                       *)
(***************************************************************************)

Ends == {"success", "failure"}

\* One of the first m changes is this outcome.
Ended(i, outcome, m) == \E n \in 1..m : log[n].what = outcome /\ log[n].id = i

\* Outcomes follow the line of their post, each post has one at most, the memory has
\* those that were applied, and the post in the loop's hand has none.
Once ==
    \A m, n \in 1..Len(log) :
        log[m].what \in Ends /\ log[n].what \in Ends /\ log[m].id = log[n].id => m = n

Announced ==
    \A n \in 1..Len(log) :
        log[n].what \in Ends => \E m \in 1..(n - 1) : IsNew(m) /\ log[m].id = log[n].id

Remembered ==
    \A w \in seen : \A o \in Ends : inner[w.data] = o <=> Ended(w.id, o, Applied)

Marked == work # NoWork => inner[work.data] = "processing"

RecordInv == Once /\ Announced /\ Remembered /\ Marked

\* comment_loop takes back what was stored for Outline.com.
MemoryInv == archive # "outline_com" => RecordInv

\* A step of a submission is the request for Google's other url, or the end.
LEMMA SubmissionSplits ==
    ASSUME TypeOK, NEW ready \in BOOLEAN, SubmissionStep(ready)
    PROVE  \/ Request("cut")
           \/ work # NoWork /\ \E o \in Ends, link \in Urls : End(o, link, ready)
  <1>1. ASSUME Fail(ready), stage # "idle"
        PROVE  work # NoWork /\ \E o \in Ends, link \in Urls : End(o, link, ready)
    BY <1>1, Busy DEF Fail, Ends, Urls
  <1>2. CASE Refused(ready) \/ RequestTimesOut(ready)
    <2>1. Failed(ready) /\ stage # "idle"
      BY <1>2 DEF Refused, RequestTimesOut, Requests
    <2> QED  BY <1>1, <2>1 DEF Failed
  <1>3. CASE Cached(ready)
    <2>1. stage \in Urls /\ stage # "idle" /\ End("success", stage, ready)
      BY <1>3 DEF Cached, Urls
    <2> QED  BY <2>1, Busy DEF Ends
  <1>4. CASE Read(ready)
    <2>1. stage # "idle" /\ \E link \in Urls : End("success", link, ready)
      BY <1>4 DEF Read, Urls
    <2> QED  BY <2>1, Busy DEF Ends
  <1>5. CASE ReadNothing(ready) \/ TimeOut(ready) \/ GiveUp(ready)
    BY <1>1, <1>5 DEF ReadNothing, TimeOut, GiveUp, TypeOK
  <1> QED  BY <1>2, <1>3, <1>4, <1>5 DEF SubmissionStep

\* Steps that leave the record and the data alone.
LEMMA SameRecord ==
    ASSUME RecordInv, UNCHANGED <<log, seen, inner>>, Applied' = Applied,
           work' \in {work, NoWork}
    PROVE  RecordInv'
  BY DEF RecordInv, Once, Announced, Remembered, Marked, Ended

\* What the record says of the known posts while the process runs.
LEMMA KnownIsLogged ==
    ASSUME IInv, RecordInv, phase = "running", NEW w \in seen, NEW o \in Ends
    PROVE  inner[w.data] = o <=> EndedAs(w.id, o)
  BY DEF RecordInv, Remembered, Ended, EndedAs, Applied

\* Who is unknown has no outcome among the changes that were applied.
LEMMA UnknownIsOpen ==
    ASSUME IInv, RecordInv, NEW i, \A w \in seen : w.id # i, NEW o \in Ends
    PROVE  ~Ended(i, o, Applied)
  <1> SUFFICES ASSUME NEW n \in 1..Applied, log[n].what = o, log[n].id = i PROVE FALSE
    BY DEF Ended
  <1>1. Applied \in Nat /\ Len(log) \in Nat /\ Applied <= Len(log)
    BY LenProperties DEF Applied, IInv, TypeOK, WorksInv, ReplayInv
  <1>2. PICK m \in 1..(n - 1) : IsNew(m) /\ log[m].id = i
    BY <1>1 DEF RecordInv, Announced
  <1>3. m \in 1..Applied
    BY <1>1, <1>2
  <1> QED  BY <1>2, <1>3 DEF IInv, WorksInv, LogInv

LEMMA BeginRecord ==
    ASSUME IInv, RecordInv, NEW w \in Works, Begin(w)
    PROVE  RecordInv'
  <1>1. /\ w \in seen /\ inner[w.data] \notin Ends /\ inner \in [Refs -> Outcomes]
        /\ w.data \in Refs /\ \A v \in seen : v.data \in Refs
    <2>1. w \in queue["submit"].set
      BY DEF Begin, Pops, IsTop, IInv, WorksInv, HeapIsSet, Queues
    <2> QED
      BY <2>1, WrittenType DEF Begin, IsDone, Ends, IInv, TypeOK, WorksInv, ClonesInv, Queues
  <1>2. /\ inner' = [inner EXCEPT ![w.data] = "processing"] /\ work' = w
        /\ UNCHANGED <<log, seen, phase, replayed>>
    BY DEF Begin, feedVars, replayVars
  <1>3. \A v \in seen : v.data = w.data => v = w
    BY <1>1 DEF IInv, WorksInv, SeenInv
  <1>4. \A v \in seen : inner'[v.data] = IF v = w THEN "processing" ELSE inner[v.data]
    BY <1>1, <1>2, <1>3
  <1>5. Applied' = Applied /\ \A i, o : Ended(i, o, Applied)' <=> Ended(i, o, Applied)
    BY <1>2 DEF Applied, Ended
  <1>6. Remembered'
    BY <1>1, <1>2, <1>4, <1>5 DEF RecordInv, Remembered, Ends
  <1> QED
    BY <1>1, <1>2, <1>4, <1>6 DEF RecordInv, Once, Announced, Marked

LEMMA EndRecord ==
    ASSUME IInv, RecordInv, work # NoWork, NEW o \in Ends, NEW link \in Urls,
           NEW ready \in BOOLEAN, End(o, link, ready)
    PROVE  RecordInv' /\ ~\E n \in 1..Len(log) : log[n].what \in Ends /\ log[n].id = work.id
  <1> DEFINE change == Outcome(work, o, link)
             l == Len(log)
  <1>1. /\ work \in seen /\ work \in Works /\ phase = "running" /\ inner \in [Refs -> Outcomes]
        /\ \A v \in seen : v.data \in Refs
    BY WrittenType DEF IInv, TypeOK, WorksInv, ClonesInv, ReplayInv
  <1>2. /\ log' = Append(log, change)
        /\ inner' = [inner EXCEPT ![work.data] = o]
        /\ work' = NoWork
        /\ UNCHANGED <<seen, phase, replayed>>
    BY DEF End, replayVars
  <1>3. change \in Changes /\ change.what = o /\ change.id = work.id
    BY <1>1, WrittenType DEF Outcome, Ends
  <1>4. /\ l \in Nat /\ Len(log') = l + 1
        /\ \A n \in 1..l : log'[n] = log[n]
        /\ log'[l + 1] = change
    BY <1>2, <1>3, LogGrows DEF IInv
  <1> HIDE DEF change, l
  <1>5. Applied = l /\ Applied' = l + 1
    BY <1>1, <1>2, <1>4 DEF Applied, l
  <1>6. ~\E n \in 1..l : log[n].what \in Ends /\ log[n].id = work.id
    BY <1>1, <1>5 DEF RecordInv, Remembered, Marked, Ended, Ends
  <1>7. 1..(l + 1) = 1..l \cup {l + 1}
    BY <1>4
  <1>8. Once'
    BY <1>3, <1>4, <1>6, <1>7 DEF RecordInv, Once, l
  <1>9. Announced'
    <2> SUFFICES ASSUME NEW n \in 1..(l + 1), log'[n].what \in Ends
                 PROVE  \E m \in 1..(n - 1) : IsNew(m)' /\ log'[m].id = log'[n].id
      BY <1>4 DEF Announced
    <2>1. CASE n = l + 1
      <3>1. PICK m \in 1..l : IsNew(m) /\ log[m].id = work.id
        BY <1>1, <1>5 DEF IInv, WorksInv, LogInv
      <3> QED  BY <1>3, <1>4, <2>1, <3>1
    <2>2. CASE n \in 1..l
      <3>1. PICK m \in 1..(n - 1) : IsNew(m) /\ log[m].id = log[n].id
        BY <1>4, <2>2 DEF RecordInv, Announced, l
      <3>2. m \in 1..l
        BY <1>4, <2>2, <3>1
      <3> QED  BY <1>4, <2>2, <3>1, <3>2
    <2> QED  BY <1>7, <2>1, <2>2
  <1>10. ASSUME NEW v \in seen, NEW p \in Ends
         PROVE  inner'[v.data] = p <=> Ended(v.id, p, Applied)'
    <2>1. Ended(v.id, p, Applied)' <=> Ended(v.id, p, l) \/ (p = o /\ v.id = work.id)
      BY <1>3, <1>4, <1>5, <1>7 DEF Ended
    <2>2. CASE v = work
      BY <1>1, <1>2, <1>6, <2>1, <2>2 DEF Ended
    <2>3. CASE v # work
      <3>1. v.id # work.id /\ v.data # work.data
        BY <1>1, <2>3 DEF IInv, WorksInv, SeenInv, IsSame
      <3> QED  BY <1>1, <1>2, <1>5, <2>1, <3>1 DEF RecordInv, Remembered
    <2> QED  BY <2>2, <2>3
  <1>11. Remembered'
    BY <1>2, <1>10 DEF Remembered
  <1>12. Marked'
    BY <1>2 DEF Marked
  <1> QED  BY <1>6, <1>8, <1>9, <1>11, <1>12 DEF RecordInv, l

\* A line that announces a post is added.
LEMMA InsertNewRecord ==
    ASSUME IInv, RecordInv, NEW ref \in Unused, InsertNew(ref)
    PROVE  RecordInv' /\ \A i, o : o \in Ends => (EndedAs(i, o)' <=> EndedAs(i, o))
  <1> DEFINE new == NewWork(PostOf(Head(listing)), ref)
             l == Len(log)
  <1>1. /\ listing # <<>> /\ ~Contains(seen, new) /\ IsPost(Head(listing))
        /\ log' = Append(log, NewPost(new)) /\ seen' = SetInsert(seen, new)
        /\ inner' = [inner EXCEPT ![ref] = "waiting"]
        /\ UNCHANGED <<phase, replayed, work>>
    BY DEF InsertNew, replayVars, taskVars
  <1>2. new \in Works /\ new.data = ref /\ ref \in Refs /\ \A w \in seen : w.data # ref
    BY <1>1, HeadTailProperties, PostType, UnusedIsFresh DEF IInv, TypeOK, NewWork
  <1> HIDE DEF new
  <1>3. NewPost(new) \in Changes /\ NewPost(new).what = "new" /\ NewPost(new).id = new.id
    BY <1>2, WrittenType DEF NewPost
  <1>4. /\ l \in Nat /\ Len(log') = l + 1
        /\ \A n \in 1..l : log'[n] = log[n]
        /\ log'[l + 1] = NewPost(new)
    BY <1>1, <1>3, LogGrows DEF IInv
  <1> HIDE DEF l
  <1>5. phase = "running" /\ Applied = l /\ Applied' = l + 1
    BY <1>1, <1>4 DEF IInv, TypeOK, WorksInv, ReplayInv, Applied, l
  <1>6. 1..(l + 1) = 1..l \cup {l + 1} /\ log'[l + 1].what \notin Ends
    BY <1>3, <1>4 DEF Ends
  <1>7. \A i, o : o \in Ends => (Ended(i, o, Applied)' <=> Ended(i, o, l))
    BY <1>4, <1>5, <1>6 DEF Ended
  <1>8. \A i, o : o \in Ends => (EndedAs(i, o)' <=> EndedAs(i, o))
    BY <1>4, <1>6 DEF EndedAs, l
  <1>9. Once'
    BY <1>4, <1>6 DEF RecordInv, Once, l
  <1>10. Announced'
    <2> SUFFICES ASSUME NEW n \in 1..(l + 1), log'[n].what \in Ends
                 PROVE  \E m \in 1..(n - 1) : IsNew(m)' /\ log'[m].id = log'[n].id
      BY <1>4 DEF Announced
    <2>1. n \in 1..l
      BY <1>6
    <2>2. PICK m \in 1..(n - 1) : IsNew(m) /\ log[m].id = log[n].id
      BY <1>4, <2>1 DEF RecordInv, Announced, l
    <2>3. m \in 1..l
      BY <1>4, <2>1, <2>2
    <2> QED  BY <1>4, <2>1, <2>2, <2>3
  <1>11. seen' = seen \cup {new}
    BY <1>1 DEF SetInsert
  <1>12. \A w \in seen : w.id # new.id /\ w.data \in Refs
    BY <1>1, WrittenType DEF Contains, IsSame, IInv, TypeOK
  <1>13. ASSUME NEW w \in seen', NEW o \in Ends
         PROVE  inner'[w.data] = o <=> Ended(w.id, o, Applied)'
    <2>1. CASE w = new
      <3>1. ~Ended(new.id, o, l)
        BY <1>5, <1>12, UnknownIsOpen
      <3>2. inner'[new.data] = "waiting"
        BY <1>1, <1>2 DEF IInv, TypeOK
      <3> QED  BY <1>7, <2>1, <3>1, <3>2 DEF Ends
    <2>2. CASE w \in seen
      <3>1. inner'[w.data] = inner[w.data]
        BY <1>1, <1>2, <1>12, <2>2 DEF IInv, TypeOK
      <3> QED  BY <1>5, <1>7, <2>2, <3>1 DEF RecordInv, Remembered
    <2> QED  BY <1>11, <2>1, <2>2
  <1>14. Marked'
    <2>1. work # NoWork => work \in seen
      BY DEF IInv, WorksInv, ClonesInv
    <2> QED  BY <1>1, <1>2, <1>12, <2>1 DEF RecordInv, Marked, IInv, TypeOK
  <1> QED  BY <1>8, <1>9, <1>10, <1>13, <1>14 DEF RecordInv, Remembered

LEMMA RestartRecord ==
    ASSUME IInv, RecordInv, NEW n \in 0..Len(log), Restart(n)
    PROVE  RecordInv'
  <1>1. log' = SubSeq(log, 1, n) /\ seen' = {} /\ work' = NoWork
    BY DEF Restart
  <1>2. /\ Len(log) \in Nat /\ n <= Len(log) /\ Len(log') = n /\ n \in Nat
        /\ \A i \in 1..n : log'[i] = log[i]
    BY <1>1, LogCut DEF IInv
  <1>3. \A i \in 1..n : i \in 1..Len(log) /\ \A m \in 1..(i - 1) : m \in 1..n
    BY <1>2
  <1>4. Once' /\ Announced'
    BY <1>2, <1>3 DEF RecordInv, Once, Announced
  <1> QED  BY <1>1, <1>4 DEF RecordInv, Remembered, Marked

\* What is read back is what was known when it was written.
LEMMA ApplyNewPostRecord ==
    ASSUME IInv, RecordInv, NEW ref \in Unused, ApplyNewPost(ref)
    PROVE  RecordInv'
  <1> DEFINE new == NewWork([NextChange EXCEPT !.created = FromI64(@)], ref)
  <1>1. /\ Applies /\ NextChange.what = "new" /\ seen' = SetInsert(seen, new)
        /\ inner' = [inner EXCEPT ![ref] = "waiting"]
    BY DEF ApplyNewPost
  <1>2. /\ replayed + 1 \in 1..Len(log) /\ NextChange \in Changes
        /\ Applied = replayed /\ Applied' = replayed + 1 /\ replayed \in Nat
        /\ log' = log /\ work' = work
    BY <1>1, ReplayStep
  <1>3. /\ new = [created |-> FromI64(NextChange.created), id |-> NextChange.id, data |-> ref]
        /\ ref \in Refs /\ \A w \in seen : w.data # ref /\ w.data \in Refs
    BY <1>2, UnusedIsFresh, ReadType, WrittenType DEF IInv, TypeOK
  <1> HIDE DEF new
  <1>4. \A w \in seen : w.id # new.id
    BY <1>3, ApplyNewPostWorks DEF Contains, IsSame
  <1>5. seen' = seen \cup {new}
    BY <1>1, <1>4 DEF SetInsert, Contains, IsSame
  <1>6. 1..(replayed + 1) = 1..replayed \cup {replayed + 1} /\ log[replayed + 1].what \notin Ends
    BY <1>1, <1>2 DEF NextChange, Ends
  <1>7. \A i, o : o \in Ends => (Ended(i, o, Applied)' <=> Ended(i, o, Applied))
    BY <1>2, <1>6 DEF Ended
  <1>8. ASSUME NEW w \in seen', NEW o \in Ends
        PROVE  inner'[w.data] = o <=> Ended(w.id, o, Applied)'
    <2>1. CASE w = new
      <3>1. ~Ended(new.id, o, Applied)
        BY <1>4, UnknownIsOpen
      <3>2. inner'[new.data] = "waiting"
        BY <1>1, <1>3 DEF IInv, TypeOK
      <3> QED  BY <1>7, <2>1, <3>1, <3>2 DEF Ends
    <2>2. CASE w \in seen
      <3>1. inner'[w.data] = inner[w.data]
        BY <1>1, <1>3, <2>2 DEF IInv, TypeOK
      <3> QED  BY <1>7, <2>2, <3>1 DEF RecordInv, Remembered
    <2> QED  BY <1>5, <2>1, <2>2
  <1>9. Once' /\ Announced'
    BY <1>2 DEF RecordInv, Once, Announced
  <1>10. Marked'
    BY <1>1, <1>2 DEF Marked, Applies, IInv, WorksInv, ReplayInv
  <1> QED  BY <1>8, <1>9, <1>10 DEF RecordInv, Remembered

LEMMA ApplyOutcomeRecord ==
    ASSUME IInv, RecordInv, NEW ref, NEW ready \in BOOLEAN, ApplyOutcome(ref, ready)
    PROVE  RecordInv'
  <1> DEFINE known == CHOOSE w \in seen : IsSame(w, NextChange)
  <1>1. /\ Applies /\ NextChange.what # "new" /\ seen' = seen
        /\ Contains(seen, NextChange) => inner' = [inner EXCEPT ![known.data] = NextChange.what]
        /\ ~Contains(seen, NextChange) => inner' = inner
    BY DEF ApplyOutcome
  <1>2. Contains(seen, NextChange) => known \in seen /\ IsSame(known, NextChange)
    BY DEF Contains
  <1> HIDE DEF known
  <1>3. /\ replayed + 1 \in 1..Len(log) /\ NextChange \in Changes
        /\ Applied = replayed /\ Applied' = replayed + 1 /\ replayed \in Nat
        /\ log' = log /\ work' = work
    BY <1>1, ReplayStep
  <1> DEFINE r == replayed
  <1>4. 1..(r + 1) = 1..r \cup {r + 1} /\ NextChange = log[r + 1] /\ NextChange.what \in Ends
        /\ \A n \in 1..r : n \in 1..Len(log) /\ n # r + 1
    BY <1>1, <1>3, LenProperties DEF NextChange, Changes, Ends, IInv, TypeOK
  <1>5. ASSUME NEW w \in seen, NEW o \in Ends
        PROVE  inner'[w.data] = o <=> Ended(w.id, o, Applied)'
    <2>1. Ended(w.id, o, Applied)'
              <=> Ended(w.id, o, r) \/ (o = NextChange.what /\ w.id = NextChange.id)
      BY <1>3, <1>4 DEF Ended
    <2>2. w.data \in Refs /\ inner \in [Refs -> Outcomes]
      BY WrittenType DEF IInv, TypeOK
    <2>3. CASE w.id = NextChange.id
      <3>1. Contains(seen, NextChange) /\ w = known
        BY <1>2, <2>3 DEF Contains, IsSame, IInv, WorksInv, SeenInv
      <3>2. inner'[w.data] = NextChange.what
        BY <1>1, <2>2, <3>1
      <3>3. ~Ended(w.id, o, r)
        BY <1>3, <1>4, <2>3 DEF Ended, RecordInv, Once
      <3> QED  BY <2>1, <2>3, <3>2, <3>3
    <2>4. CASE w.id # NextChange.id
      <3>1. Contains(seen, NextChange) => w.data # known.data
        BY <1>2, <2>4 DEF IsSame, IInv, WorksInv, SeenInv
      <3>2. inner'[w.data] = inner[w.data]
        BY <1>1, <2>2, <3>1
      <3> QED  BY <1>3, <2>1, <2>4, <3>2 DEF RecordInv, Remembered
    <2> QED  BY <2>3, <2>4
  <1>6. Once' /\ Announced'
    BY <1>3 DEF RecordInv, Once, Announced
  <1>7. Marked'
    BY <1>1, <1>3 DEF Marked, Applies, IInv, WorksInv, ReplayInv
  <1> QED  BY <1>1, <1>5, <1>6, <1>7 DEF RecordInv, Remembered

\* Steps at which nobody reports or stores anything.
LEMMA QuietRecord ==
    ASSUME IInv, RecordInv, archive # "outline_com",
           \/ \E children : Fetch(children)
           \/ PassOver \/ InsertSeen \/ Redirected \/ Headed \/ Tick \/ Replayed
           \/ \E w \in Works : Skip(w) \/ Offered(w)
           \/ Cancel \/ UNCHANGED vars
    PROVE  RecordInv' /\ UNCHANGED <<log, work>>
  <1>1. ASSUME UNCHANGED <<log, seen, inner, phase, replayed, work>>
        PROVE  RecordInv' /\ UNCHANGED <<log, work>>
    BY <1>1, SameRecord DEF Applied
  <1>2. CASE \E w \in Works : Offered(w)
    <2>1. inner' = inner
      BY <1>2 DEF Offered, IInv, TypeOK
    <2> QED  BY <1>1, <1>2, <2>1 DEF Offered, feedVars, replayVars, taskVars
  <1>3. CASE Replayed
    <2>1. Applied' = Applied
      BY <1>3 DEF Replayed, Applied, feedVars
    <2> QED  BY <1>3, <2>1, SameRecord DEF Replayed, feedVars, taskVars
  <1>4. CASE PassOver \/ InsertSeen \/ Cancel \/ \E children : Fetch(children)
    BY <1>1, <1>4 DEF PassOver, InsertSeen, Cancel, Fetch, feedVars, replayVars, taskVars
  <1>5. CASE Redirected \/ Headed \/ Tick \/ (\E w \in Works : Skip(w)) \/ UNCHANGED vars
    BY <1>1, <1>5 DEF Redirected, Headed, Request, Tick, Skip, vars, feedVars, replayVars, taskVars
  <1> QED  BY <1>2, <1>3, <1>4, <1>5

\* The request for Google's other url is one of them; the rest of a submission's last
\* steps end it.
LEMMA CutRecord ==
    ASSUME IInv, RecordInv, Request("cut")
    PROVE  RecordInv' /\ UNCHANGED <<log, work>>
  <1>1. UNCHANGED <<log, seen, inner, phase, replayed, work>>
    BY DEF Request, feedVars, replayVars
  <1> QED  BY <1>1, SameRecord DEF Applied

LEMMA SameArchive == [Next]_vars => archive' = archive
  <1> SUFFICES ASSUME [Next]_vars PROVE archive' = archive
    OBVIOUS
  <1>1. ASSUME NEW ready, SubmissionStep(ready) PROVE archive' = archive
    BY <1>1 DEF SubmissionStep, Refused, RequestTimesOut, Failed, Fail, Request, Cached, Read,
                ReadNothing, TimeOut, GiveUp, End, replayVars
  <1>2. ASSUME NEW ref, AllocatingStep(ref) PROVE archive' = archive
    BY <1>2 DEF AllocatingStep, InsertNew, ApplyNewPost, ApplyOutcome, Applies, replayVars
  <1>3. CASE OtherStep
    BY <1>1, <1>3 DEF OtherStep, PassOver, InsertSeen, Skip, Begin, Offered, Redirected, Headed,
                      Request, Tick, Replayed, replayVars
  <1>4. CASE Cancel \/ UNCHANGED vars \/ \E children : Fetch(children)
    BY <1>4 DEF Cancel, Fetch, vars, replayVars
  <1>5. ASSUME NEW n, Restart(n) PROVE archive' = archive
    BY <1>5 DEF Restart
  <1> QED  BY <1>2, <1>3, <1>4, <1>5 DEF Next

LEMMA NextRecord == IInv /\ MemoryInv /\ [Next]_vars => MemoryInv'
  <1> SUFFICES ASSUME IInv, RecordInv, [Next]_vars, archive # "outline_com" PROVE RecordInv'
    BY SameArchive DEF MemoryInv
  <1>1. ASSUME NEW ready \in BOOLEAN, SubmissionStep(ready) PROVE RecordInv'
    BY <1>1, SubmissionSplits, CutRecord, EndRecord DEF IInv
  <1>2. ASSUME NEW ref \in Unused, AllocatingStep(ref) PROVE RecordInv'
    BY <1>2, InsertNewRecord, ApplyNewPostRecord, ApplyOutcomeRecord DEF AllocatingStep
  <1>3. CASE OtherStep
    BY <1>1, <1>3, QuietRecord, BeginRecord DEF OtherStep
  <1>4. CASE Cancel \/ UNCHANGED vars \/ \E children : Fetch(children)
    BY <1>4, QuietRecord
  <1> QED  BY <1>2, <1>3, <1>4, RestartRecord DEF Next

\* What an end of a submission, and a stop, make of the outcomes.
LEMMA EndLogs ==
    ASSUME IInv, work # NoWork, NEW o \in Ends, NEW link \in Urls,
           NEW ready \in BOOLEAN, End(o, link, ready), NEW i, NEW p \in Ends
    PROVE  EndedAs(i, p)' <=> EndedAs(i, p) \/ (i = work.id /\ p = o)
  <1> DEFINE change == Outcome(work, o, link)
             l == Len(log)
  <1>1. change \in Changes /\ change.what = o /\ change.id = work.id
    BY WrittenType DEF Outcome, Ends, IInv, TypeOK
  <1>2. log' = Append(log, change)
    BY DEF End
  <1> HIDE DEF change
  <1>3. /\ l \in Nat /\ Len(log') = l + 1
        /\ \A n \in 1..l : log'[n] = log[n]
        /\ log'[l + 1] = change
    BY <1>1, <1>2, LogGrows DEF IInv
  <1> HIDE DEF l
  <1>4. 1..(l + 1) = 1..l \cup {l + 1}
    BY <1>3
  <1> QED  BY <1>1, <1>3, <1>4 DEF EndedAs, l

LEMMA RestartLoses ==
    ASSUME IInv, NEW n \in 0..Len(log), Restart(n), NEW i, NEW p, EndedAs(i, p)'
    PROVE  EndedAs(i, p)
  <1>1. log' = SubSeq(log, 1, n)
    BY DEF Restart
  <1>2. /\ Len(log) \in Nat /\ n <= Len(log) /\ Len(log') = n /\ n \in Nat
        /\ \A k \in 1..n : log'[k] = log[k]
    BY <1>1, LogCut DEF IInv
  <1> QED  BY <1>2 DEF EndedAs

\* Every step is one of a submission, or none.
LEMMA SubmittingStep ==
    IInv /\ RecordInv /\ archive # "outline_com" /\ [Next]_vars
        => [Submitting!Next]_(Submitting!vars)
  <1> SUFFICES ASSUME IInv, RecordInv, archive # "outline_com", [Next]_vars
               PROVE  Submitting!Next \/ UNCHANGED Submitting!vars
    BY DEF Submitting!vars
  <1>0. \A o : o \in Ends <=> o = "success" \/ o = "failure"
    BY DEF Ends
  <1>1. ASSUME work' = work, \A i, o : o \in Ends => (EndedAs(i, o)' <=> EndedAs(i, o))
        PROVE  UNCHANGED Submitting!vars
    <2>1. \A i \in Ids : OutcomeOf(i)' = OutcomeOf(i)
      BY <1>0, <1>1 DEF OutcomeOf
    <2> QED  BY <1>1, <2>1 DEF Submitting!vars
  <1>2. ASSUME UNCHANGED <<log, work>> PROVE UNCHANGED Submitting!vars
    BY <1>1, <1>2 DEF EndedAs
  <1>3. ASSUME NEW ready \in BOOLEAN, SubmissionStep(ready)
        PROVE  Submitting!Next \/ UNCHANGED Submitting!vars
    <2>1. CASE Request("cut")
      BY <1>2, <2>1, CutRecord
    <2>2. ASSUME work # NoWork, NEW o \in Ends, NEW link \in Urls, End(o, link, ready)
          PROVE  Submitting!Next
      <3>1. \A p \in Ends : ~EndedAs(work.id, p)
        BY <2>2, EndRecord DEF EndedAs
      <3>2. \A i, p : p \in Ends =>
                (EndedAs(i, p)' <=> EndedAs(i, p) \/ (i = work.id /\ p = o))
        BY <2>2, EndLogs
      <3>3. work.id \in Ids /\ work.id # BadId /\ work' = NoWork
        BY <2>2, IdsAssumption, WrittenType DEF End, BadId, IInv, TypeOK
      <3>4. \A i \in Ids : OutcomeOf(i)' = IF i = work.id THEN o ELSE OutcomeOf(i)
        BY <1>0, <2>2, <3>1, <3>2 DEF OutcomeOf
      <3>5. Submitting!End(o)
        BY <2>2, <3>3, <3>4 DEF Submitting!End
      <3> QED  BY <1>0, <2>2, <3>5 DEF Submitting!Next, Submitting!AnyEnd
    <2> QED  BY <1>3, <2>1, <2>2, SubmissionSplits DEF IInv
  <1>4. ASSUME NEW w \in Works, Begin(w) PROVE Submitting!Next
    <2>1. /\ w \in seen /\ w.id \in Ids /\ inner[w.data] \notin Ends /\ phase = "running"
          /\ work = NoWork /\ work' = w /\ log' = log /\ w # NoWork
      BY <1>4, NoWorkAssumption, WrittenType
         DEF Begin, Pops, TakesUp, IsTop, IsDone, Ends, feedVars, Queues, IInv, WorksInv, ClonesInv, HeapIsSet
    <2>2. \A o \in Ends : ~EndedAs(w.id, o)
      BY <2>1, KnownIsLogged
    <2>3. Submitting!Begin(w.id)
      BY <1>0, <2>1, <2>2 DEF Submitting!Begin, OutcomeOf, EndedAs
    <2> QED  BY <2>1, <2>3 DEF Submitting!Next
  <1>5. ASSUME NEW ref \in Unused, AllocatingStep(ref) PROVE UNCHANGED Submitting!vars
    <2>1. CASE InsertNew(ref)
      BY <1>1, <2>1, InsertNewRecord DEF InsertNew, taskVars
    <2>2. CASE ApplyNewPost(ref) \/ \E ready \in BOOLEAN : ApplyOutcome(ref, ready)
      BY <1>2, <2>2 DEF ApplyNewPost, ApplyOutcome, Applies, taskVars
    <2> QED  BY <1>5, <2>1, <2>2 DEF AllocatingStep
  <1>6. ASSUME NEW n \in 0..Len(log), Restart(n) PROVE Submitting!Next
    <2> DEFINE kept == {i \in Ids : \E o \in Ends : EndedAs(i, o)'}
    <2>1. work' = NoWork
      BY <1>6 DEF Restart
    <2>2. \A i, o : o \in Ends /\ EndedAs(i, o)' => EndedAs(i, o)
      BY <1>6, RestartLoses
    <2>3. \A i : ~(EndedAs(i, "success") /\ EndedAs(i, "failure"))
      BY DEF EndedAs, RecordInv, Once, Ends
    <2>4. \A i \in Ids : OutcomeOf(i)' = IF i \in kept THEN OutcomeOf(i) ELSE "none"
      BY <1>0, <2>2, <2>3 DEF OutcomeOf
    <2>5. kept \in SUBSET Ids
      OBVIOUS
    <2> HIDE DEF kept
    <2> QED  BY <2>1, <2>4, <2>5 DEF Submitting!Next, Submitting!Crash
  <1>7. CASE OtherStep
    BY <1>2, <1>3, <1>4, <1>7, QuietRecord DEF OtherStep
  <1>8. CASE Cancel \/ UNCHANGED vars \/ \E children : Fetch(children)
    BY <1>2, <1>8, QuietRecord
  <1> QED  BY <1>5, <1>6, <1>7, <1>8 DEF Next

\* The loop submits as Submission says: one post after the other, none that has an
\* outcome in the file or on its way there, whatever the replay found and with
\* whatever data it comes back (state.rs:274-356, state.rs:571-626).
THEOREM SubmissionsImplemented == Spec => ImplementsSubmission
  <1>1. Init => MemoryInv /\ Submitting!Init
    <2> SUFFICES ASSUME Init PROVE RecordInv /\ Submitting!Init
      BY DEF MemoryInv
    <2>1. Len(log) = 0 /\ seen = {} /\ work = NoWork
      BY EmptySeq DEF Init
    <2>2. RecordInv
      BY <2>1 DEF RecordInv, Once, Announced, Remembered, Marked
    <2>3. Submitting!Init
      BY <2>1 DEF Submitting!Init, OutcomeOf, EndedAs
    <2> QED  BY <2>2, <2>3
  <1>2. IInv /\ MemoryInv /\ [Next]_vars
            => [archive # "outline_com" => [Submitting!Next]_(Submitting!vars)]_vars
    BY SubmittingStep DEF MemoryInv
  <1> QED
    BY <1>1, <1>2, NextRecord, Inductive, PTL DEF Spec, ImplementsSubmission

=============================================================================
