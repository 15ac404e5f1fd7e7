--------------------------- MODULE RecoveryProofs ---------------------------
(***************************************************************************)
(* Theorems about the stops and restarts of Blindkopie.tla: what the file  *)
(* says, what the loops believe, and who does what is still missing, for   *)
(* every set of posts, every choice of the submit loops and files of any   *)
(* length.                                                                 *)
(***************************************************************************)
EXTENDS BlindkopieProofs

\* A sequence of changes contains a change; a change of an outcome, whatever it is.
Has(s, change) == \E i \in 1..Len(s) : s[i] = change

HasOutcome(s, f, p) == \E i \in 1..Len(s) : s[i].field = f /\ s[i].post = p

\* FileIsWellFormed of any sequence, and the two lines a screenshot is reported
\* with come in their order (screenshot.rs:140).
Ordered(s) ==
    \A i \in 1..Len(s) :
        /\ s[i].field = "new" => s[i] = NewPost(s[i].post)
        /\ s[i].field # "new" => \E j \in 1..(i - 1) : s[j] = NewPost(s[i].post)
        /\ s[i].field = "text" =>
               \E j \in 1..(i - 1) : s[j].field = "screenshot" /\ s[j].post = s[i].post
        /\ \A j \in 1..(i - 1) :
               s[j].field = s[i].field /\ s[j].post = s[i].post => s[i].field = "outline_com"

\* What is in memory is what the changes say.
KnowsOf(s, posts, works) ==
    \A p \in Posts :
        /\ p \in posts <=> Has(s, NewPost(p))
        /\ \A f \in ResultFields \ {"outline_com"}, o \in {"success", "failure"} :
               works[p][f] = o <=> Has(s, OutcomeOf(f, p, o))

Knows(s) == KnowsOf(s, seen, data)

\* The writer still writes all that is reported, and all of it will be read.
Live == phase = "running" /\ writer # "done" /\ tail # "garbled"

FileInv == Ordered(lines) /\ (Live => Ordered(Reported) /\ Knows(Reported))

\* The outcomes in the file are known even when the writer has given up.
LinesKnown ==
    phase = "running" =>
        \A i \in 1..Len(lines) :
            lines[i].field \notin {"new", "outline_com"} =>
                data[lines[i].post][lines[i].field] = lines[i].outcome

\* A start begins with nothing; what was read so far is known and, as far as
\* apply_change puts it there, in the queues.
ReplayInv ==
    /\ phase = "down" => replayed = 0 /\ restored = {} /\ seen = {} /\ data = NoWork
    /\ phase = "replay" =>
           /\ replayed \in 0..Len(lines)
           /\ Knows(SubSeq(lines, 1, replayed))
           /\ restored = seen
           /\ \A l \in SubmitLoops \ {"wikiwix"} : seen \subseteq queue[l]

\* What is known of posts; an exception of NothingStranded is seen here.
DataInv ==
    /\ restored \subseteq seen
    /\ \A p \in Posts :
           /\ p \notin seen => data[p] = NewWork
           /\ data[p]["comment"] = "waiting"
           /\ IsDone(data[p]["text"]) => IsDone(data[p]["screenshot"])
           /\ IsDone(data[p]["screenshot"]) => IsDone(data[p]["text"]) \/ p \in restored

RecoveryInv == FileInv /\ LinesKnown /\ ReplayInv /\ DataInv /\ NothingStranded

----------------------------------------------------------------------------
(* Sequences of changes *)

LEMMA FieldNames ==
    /\ "screenshot" \in SubmitLoops /\ "text" \in ResultFields /\ "text" \notin SubmitLoops
    /\ "new" \notin ResultFields /\ "comment" \notin ResultFields
    /\ \A l \in SubmitLoops : l \in FieldsOf(l) /\ FieldsOf(l) \subseteq ResultFields
    /\ \A f \in ResultFields :
           /\ LoopOf(f) \in SubmitLoops
           /\ \A l \in SubmitLoops : f \in FieldsOf(l) <=> l = LoopOf(f)
  BY ArchivesAssumption DEF SubmitLoops, ResultFields, FieldsOf, LoopOf

LEMMA ChangeParts ==
    ASSUME NEW c \in Change
    PROVE  /\ c.post \in Posts /\ c.outcome \in {"success", "failure"}
           /\ c.field \in ResultFields \cup {"new"}
           /\ c.field # "new" => c = OutcomeOf(c.field, c.post, c.outcome)
  BY DEF Change, OutcomeOf

LEMMA ChangesDiffer ==
    ASSUME NEW p, NEW q, NEW f, NEW g, NEW o, NEW r
    PROVE  /\ NewPost(p) = NewPost(q) => p = q
           /\ OutcomeOf(f, p, o) = OutcomeOf(g, q, r) => f = g /\ p = q /\ o = r
           /\ f # "new" => NewPost(p) # OutcomeOf(f, q, o)
           /\ NewPost(p).field = "new" /\ NewPost(p).post = p
           /\ OutcomeOf(f, p, o).field = f /\ OutcomeOf(f, p, o).post = p
           /\ OutcomeOf(f, p, o).outcome = o
  BY DEF NewPost, OutcomeOf

LEMMA HasAppend ==
    ASSUME NEW s \in Seq(Change), NEW x \in Change
    PROVE  /\ \A c : Has(Append(s, x), c) <=> Has(s, c) \/ x = c
           /\ \A f, p : HasOutcome(Append(s, x), f, p)
                           <=> HasOutcome(s, f, p) \/ (x.field = f /\ x.post = p)
  <1>1. /\ Len(Append(s, x)) = Len(s) + 1 /\ Len(s) \in Nat
        /\ Append(s, x)[Len(s) + 1] = x
        /\ \A i \in 1..Len(s) : Append(s, x)[i] = s[i]
    OBVIOUS
  <1>2. 1..(Len(s) + 1) = 1..Len(s) \cup {Len(s) + 1}
    BY <1>1
  <1> QED  BY <1>1, <1>2 DEF Has, HasOutcome

LEMMA OrderedPrefix ==
    ASSUME NEW s \in Seq(Change), NEW t \in Seq(Change), Ordered(s),
           Len(t) <= Len(s), \A i \in 1..Len(t) : t[i] = s[i]
    PROVE  Ordered(t)
  <1>1. /\ \A i \in 1..Len(t) : i \in 1..Len(s)
        /\ \A i \in 1..Len(t) : \A j \in 1..(i - 1) : j \in 1..Len(t)
    OBVIOUS
  <1> QED  BY <1>1 DEF Ordered

\* The line behind the first n of them.
LEMMA OrderedNext ==
    ASSUME NEW s \in Seq(Change), Ordered(s), NEW n \in Nat, n + 1 \in 1..Len(s), NEW c, c = s[n + 1]
    PROVE  /\ c.field = "new" => c = NewPost(c.post)
           /\ c.field # "new" => \E j \in 1..n : s[j] = NewPost(c.post)
           /\ c.field = "text" =>
                  \E j \in 1..n : s[j].field = "screenshot" /\ s[j].post = c.post
           /\ \A j \in 1..n :
                  s[j].field = c.field /\ s[j].post = c.post => c.field = "outline_com"
  <1>1. PICK i \in 1..Len(s) : i = n + 1
    OBVIOUS
  <1>2. i - 1 = n /\ s[i] = c
    BY <1>1
  <1>3. /\ s[i].field = "new" => s[i] = NewPost(s[i].post)
        /\ s[i].field # "new" => \E j \in 1..(i - 1) : s[j] = NewPost(s[i].post)
        /\ s[i].field = "text" =>
               \E j \in 1..(i - 1) : s[j].field = "screenshot" /\ s[j].post = s[i].post
        /\ \A j \in 1..(i - 1) :
               s[j].field = s[i].field /\ s[j].post = s[i].post => s[i].field = "outline_com"
    BY DEF Ordered
  <1> QED  BY <1>2, <1>3, Zenon

LEMMA OrderedAppend ==
    ASSUME NEW s \in Seq(Change), NEW x \in Change, Ordered(s),
           x.field = "new" => x = NewPost(x.post),
           x.field # "new" => Has(s, NewPost(x.post)),
           x.field = "text" => HasOutcome(s, "screenshot", x.post),
           x.field # "outline_com" => ~HasOutcome(s, x.field, x.post)
    PROVE  Ordered(Append(s, x))
  <1> DEFINE t == Append(s, x)
  <1>1. /\ Len(t) = Len(s) + 1 /\ Len(s) \in Nat
        /\ t[Len(s) + 1] = x
        /\ \A i \in 1..Len(s) : t[i] = s[i]
    OBVIOUS
  <1> HIDE DEF t
  <1>2. ASSUME NEW i \in 1..Len(s), NEW j \in 1..(i - 1) PROVE j \in 1..Len(s) /\ t[j] = s[j]
    BY <1>1
  <1>3. (Len(s) + 1) - 1 = Len(s)
    BY <1>1
  <1>4. \A i \in 1..Len(t) : i \in 1..Len(s) \/ i = Len(s) + 1
    BY <1>1
  <1> SUFFICES Ordered(t)
    BY DEF t
  <1> SUFFICES ASSUME NEW i \in 1..Len(t)
               PROVE  /\ t[i].field = "new" => t[i] = NewPost(t[i].post)
                      /\ t[i].field # "new" => \E j \in 1..(i - 1) : t[j] = NewPost(t[i].post)
                      /\ t[i].field = "text" =>
                             \E j \in 1..(i - 1) : t[j].field = "screenshot" /\ t[j].post = t[i].post
                      /\ \A j \in 1..(i - 1) :
                             t[j].field = t[i].field /\ t[j].post = t[i].post =>
                                 t[i].field = "outline_com"
    BY DEF Ordered
  <1>5. CASE i \in 1..Len(s)
    <2>1. t[i] = s[i] /\ \A j \in 1..(i - 1) : t[j] = s[j]
      BY <1>1, <1>2, <1>5
    <2>2. /\ s[i].field = "new" => s[i] = NewPost(s[i].post)
          /\ s[i].field # "new" => \E j \in 1..(i - 1) : s[j] = NewPost(s[i].post)
          /\ s[i].field = "text" =>
                 \E j \in 1..(i - 1) : s[j].field = "screenshot" /\ s[j].post = s[i].post
          /\ \A j \in 1..(i - 1) :
                 s[j].field = s[i].field /\ s[j].post = s[i].post => s[i].field = "outline_com"
      BY <1>5 DEF Ordered
    <2> QED  BY <2>1, <2>2, Zenon
  <1>6. CASE i = Len(s) + 1
    BY <1>1, <1>3, <1>6 DEF Has, HasOutcome
  <1> QED  BY <1>4, <1>5, <1>6

\* A reported outcome is known, and who is announced is seen.
LEMMA ReportedIsKnown ==
    ASSUME NEW s \in Seq(Change), NEW posts, NEW works, KnowsOf(s, posts, works), Ordered(s),
           NEW f, NEW p \in Posts, HasOutcome(s, f, p)
    PROVE  /\ p \in posts
           /\ f \in ResultFields \ {"outline_com"} => IsDone(works[p][f])
  <1>1. PICK i \in 1..Len(s) : s[i].field = f /\ s[i].post = p
    BY DEF HasOutcome
  <1>2. s[i] \in Change
    OBVIOUS
  <1>3. Has(s, NewPost(p))
    <2>1. CASE f = "new"
      BY <1>1, <2>1 DEF Ordered, Has
    <2>2. CASE f # "new"
      <3>1. PICK j \in 1..(i - 1) : s[j] = NewPost(p)
        BY <1>1, <2>2 DEF Ordered
      <3>2. j \in 1..Len(s)
        OBVIOUS
      <3> QED  BY <3>1, <3>2 DEF Has
    <2> QED  BY <2>1, <2>2
  <1>4. ASSUME f \in ResultFields \ {"outline_com"} PROVE IsDone(works[p][f])
    <2>1. s[i] = OutcomeOf(f, p, s[i].outcome) /\ s[i].outcome \in {"success", "failure"}
      BY <1>1, <1>2, <1>4, ChangeParts, FieldNames
    <2>2. Has(s, OutcomeOf(f, p, s[i].outcome))
      BY <2>1 DEF Has
    <2> QED  BY <1>4, <2>1, <2>2 DEF KnowsOf, IsDone
  <1> QED  BY <1>3, <1>4 DEF KnowsOf

\* What one more change makes known.
LEMMA KnowsNew ==
    ASSUME NEW s \in Seq(Change), NEW posts, NEW works, KnowsOf(s, posts, works), NEW p \in Posts
    PROVE  KnowsOf(Append(s, NewPost(p)), posts \cup {p}, works)
  <1>1. NewPost(p) \in Change
    BY DEF NewPost, Change
  <1>2. \A c : Has(Append(s, NewPost(p)), c) <=> Has(s, c) \/ NewPost(p) = c
    BY <1>1, HasAppend
  <1> QED  BY <1>2, ChangesDiffer, FieldNames DEF KnowsOf

LEMMA KnowsOutcome ==
    ASSUME NEW s \in Seq(Change), NEW posts, NEW works \in [Posts -> [WorkFields -> Outcomes]],
           KnowsOf(s, posts, works), NEW f \in ResultFields, NEW p \in Posts,
           NEW o \in {"success", "failure"},
           f # "outline_com" => ~HasOutcome(s, f, p)
    PROVE  KnowsOf(Append(s, OutcomeOf(f, p, o)), posts, [works EXCEPT ![p][f] = o])
  <1> DEFINE x == OutcomeOf(f, p, o)
             after == [works EXCEPT ![p][f] = o]
  <1>1. x \in Change
    BY DEF OutcomeOf, Change
  <1>2. \A c : Has(Append(s, x), c) <=> Has(s, c) \/ x = c
    BY <1>1, HasAppend
  <1>3. /\ after[p][f] = o
        /\ \A q \in Posts, g \in ResultFields :
               q # p \/ g # f => after[q][g] = works[q][g]
    BY Names
  <1>4. f # "outline_com" => \A r : ~Has(s, OutcomeOf(f, p, r))
    BY ChangesDiffer DEF Has, HasOutcome
  <1> HIDE DEF after
  <1>5. ASSUME NEW q \in Posts PROVE q \in posts <=> Has(Append(s, x), NewPost(q))
    BY <1>2, ChangesDiffer, FieldNames DEF KnowsOf
  <1>6. ASSUME NEW q \in Posts, NEW g \in ResultFields \ {"outline_com"},
               NEW r \in {"success", "failure"}
        PROVE  after[q][g] = r <=> Has(Append(s, x), OutcomeOf(g, q, r))
    <2>1. CASE q = p /\ g = f
      BY <1>2, <1>3, <1>4, <2>1, ChangesDiffer
    <2>2. CASE ~(q = p /\ g = f)
      BY <1>2, <1>3, <2>2, ChangesDiffer DEF KnowsOf
    <2> QED  BY <2>1, <2>2
  <1>7. KnowsOf(Append(s, x), posts, after)
    BY <1>5, <1>6 DEF KnowsOf
  <1> QED  BY <1>7 DEF after

LEMMA ConcatHead ==
    ASSUME NEW s \in Seq(Change), NEW u \in Seq(Change), u # <<>>
    PROVE  Append(s, Head(u)) \o Tail(u) = s \o u
  <1>1. Head(u) \in Change /\ Tail(u) \in Seq(Change) /\ u = <<Head(u)>> \o Tail(u)
    OBVIOUS
  <1>2. Append(s, Head(u)) = s \o <<Head(u)>>
    BY <1>1, AppendIsConcat
  <1>3. <<Head(u)>> \in Seq(Change)
    BY <1>1
  <1>4. (s \o <<Head(u)>>) \o Tail(u) = s \o (<<Head(u)>> \o Tail(u))
    BY <1>1, <1>3, ConcatAssociative
  <1> QED  BY <1>1, <1>2, <1>4

LEMMA ConcatBatch ==
    ASSUME NEW s \in Seq(Change), NEW u \in Seq(Change), NEW x \in Change, NEW y \in Change
    PROVE  /\ s \o (u \o <<x>>) = Append(s \o u, x)
           /\ s \o (u \o <<x, y>>) = Append(Append(s \o u, x), y)
  <1>1. \A t \in Seq(Change) : s \o (u \o t) = (s \o u) \o t
    BY ConcatAssociative
  <1>2. /\ s \o u \in Seq(Change) /\ Append(s \o u, x) \in Seq(Change)
        /\ <<x>> \in Seq(Change) /\ <<y>> \in Seq(Change)
    BY ConcatProperties
  <1>3. s \o (u \o <<x>>) = Append(s \o u, x)
    BY <1>1, <1>2, AppendIsConcat
  <1>4. s \o (u \o <<x, y>>) = Append(Append(s \o u, x), y)
    <2>1. <<x, y>> \in Seq(Change) /\ <<x>> \in Seq(Change) /\ <<x, y>> = Append(<<x>>, y)
      OBVIOUS
    <2>2. <<x, y>> = <<x>> \o <<y>>
      BY <2>1, AppendIsConcat
    <2>3. (s \o u) \o (<<x>> \o <<y>>) = ((s \o u) \o <<x>>) \o <<y>>
      BY <1>2, ConcatAssociative
    <2>4. ((s \o u) \o <<x>>) \o <<y>> = Append(Append(s \o u, x), y)
      BY <1>2, AppendIsConcat
    <2> QED  BY <1>1, <2>1, <2>2, <2>3, <2>4
  <1> QED  BY <1>3, <1>4

----------------------------------------------------------------------------
(* The file and the queue of changes *)

LEMMA SeqTypes ==
    ASSUME TypeOK
    PROVE  lines \in Seq(Change) /\ uncommitted \in Seq(Change) /\ Reported \in Seq(Change)
  <1>1. lines \in Seq(Change) /\ uncommitted \in Seq(Change)
    BY DEF TypeOK, Log!TypeOK
  <1> QED  BY <1>1, ConcatProperties DEF Reported

\* The lines are a prefix of what they were, or one more.
IsCut == Len(lines') <= Len(lines) /\ \A i \in 1..Len(lines') : lines'[i] = lines[i]

IsSent ==
    /\ writer = "send" /\ tail = "clean" /\ uncommitted # <<>>
    /\ lines' = Append(lines, Head(uncommitted))

LEMMA PrefixIsCut ==
    ASSUME TypeOK, NEW n \in 0..Len(lines), lines' = SubSeq(lines, 1, n)
    PROVE  IsCut
  <1>1. lines \in Seq(Change)
    BY SeqTypes
  <1>2. Len(SubSeq(lines, 1, n)) = n /\ \A i \in 1..n : SubSeq(lines, 1, n)[i] = lines[i]
    BY <1>1
  <1> QED  BY <1>1, <1>2 DEF IsCut

LEMMA Garbled == ASSUME TypeOK, Log!Garble PROVE IsCut /\ tail' = "garbled"
  <1>1. lines \in Seq(Change) /\ Log!Terminated \in 0..Len(lines)
    BY DEF TypeOK, Log!TypeOK, Log!Terminated
  <1> QED  BY <1>1, PrefixIsCut DEF Log!Garble

\* What the writer makes of the file.
LEMMA WriterFile ==
    ASSUME TypeOK, Log!WriterStep \/ Log!SendFails \/ Log!SyncFails
    PROVE  /\ IsCut \/ IsSent
           /\ writer' # "done" /\ tail' # "garbled" =>
                  writer # "done" /\ tail # "garbled" /\ Reported' = Reported
  <1>0. lines \in Seq(Change) /\ uncommitted \in Seq(Change)
    BY SeqTypes
  <1>1. CASE Log!SendLine
    <2>1. writer = "send" /\ uncommitted # <<>> /\ uncommitted' = Tail(uncommitted)
      BY <1>1 DEF Log!SendLine
    <2>2. CASE tail = "clean"
      <3>1. lines' = Append(lines, Head(uncommitted))
        BY <1>1, <2>2 DEF Log!SendLine, Log!AppendLine
      <3>2. Reported' = Reported
        BY <1>0, <2>1, <3>1, ConcatHead DEF Reported
      <3> QED  BY <2>1, <2>2, <3>1, <3>2 DEF IsSent
    <2>3. CASE tail # "clean"
      <3>1. Log!Garble
        BY <1>1, <2>3 DEF Log!SendLine, Log!AppendLine
      <3> QED  BY <3>1, Garbled
    <2> QED  BY <2>2, <2>3
  <1>2. CASE Log!SendFails
    <2>1. writer = "send" /\ uncommitted # <<>> /\ writer' = "done"
      BY <1>2 DEF Log!SendFails, Log!Finish
    <2>2. CASE UNCHANGED lines
      BY <2>1, <2>2 DEF IsCut
    <2>3. CASE Log!Garble
      BY <2>1, <2>3, Garbled
    <2>4. CASE tail = "clean" /\ lines' = Append(lines, Head(uncommitted))
      BY <2>1, <2>4 DEF IsSent
    <2> QED  BY <1>2, <2>2, <2>3, <2>4 DEF Log!SendFails, Log!AppendTorn, Log!fileVars
  <1>3. CASE Log!SyncFails
    BY <1>3 DEF Log!SyncFails, Log!Finish, Log!fileVars, IsCut
  <1>4. CASE Log!BeginCommit \/ Log!EndSend \/ Log!Sync \/ Log!SelectNotified \/ Log!SelectCancelled
    <2>1. UNCHANGED <<lines, tail, uncommitted>>
      BY <1>4 DEF Log!BeginCommit, Log!EndSend, Log!Sync, Log!SelectNotified, Log!SelectCancelled,
                  Log!fileVars, Log!memoryVars
    <2>2. writer # "done"
      BY <1>4 DEF Log!BeginCommit, Log!EndSend, Log!Sync, Log!SelectNotified, Log!SelectCancelled
    <2> QED  BY <2>1, <2>2 DEF IsCut, Reported
  <1> QED  BY <1>1, <1>2, <1>3, <1>4 DEF Log!WriterStep

\* What is left of the file when the process or the machine stops.
LEMMA StopFile == ASSUME TypeOK, Log!Stop \/ Log!PowerLoss PROVE IsCut
  <1>1. lines \in Seq(Change) /\ synced \in 0..Len(lines)
    BY DEF TypeOK, Log!TypeOK
  <1>2. CASE UNCHANGED lines
    BY <1>2 DEF IsCut
  <1>3. CASE Log!PowerLoss
    <2>1. \A n \in synced..(Len(lines) - 1) : n \in 0..Len(lines) /\ n + 1 \in 0..Len(lines)
      BY <1>1
    <2>2. \/ UNCHANGED lines
          \/ \E n \in synced..(Len(lines) - 1) :
                 lines' = SubSeq(lines, 1, n) \/ lines' = SubSeq(lines, 1, n + 1)
      BY <1>3 DEF Log!PowerLoss
    <2> QED  BY <1>2, <2>1, <2>2, PrefixIsCut
  <1> QED  BY <1>2, <1>3 DEF Log!Stop, Log!fileVars

----------------------------------------------------------------------------
(* The steps *)

\* The file, what is reported and what is known stay as they are, and what is in a
\* queue or a hand stays there.
Quiet ==
    /\ UNCHANGED <<lines, tail, uncommitted, writer>>
    /\ UNCHANGED <<phase, replayed, restored, seen, data>>
    /\ \A l \in SubmitLoops :
           /\ queue[l] \subseteq queue'[l]
           /\ pc[l] = "submit" <=> pc'[l] = "submit"
           /\ pc[l] = "submit" => current'[l] = current[l]

Stops == ReplayFails \/ Exit \/ Kill \/ PowerLoss

LEMMA CollectorQuiet ==
    ASSUME TypeOK, CollectorStep
    PROVE  Quiet \/ \E p \in Posts : InsertNew(p)
  <1> USE DEF replayVars, logVars, logOnlyVars, workVars
  <1>1. ASSUME NEW where \in {"fetch", "sleep", "insert", "done"}, Go("collect", where)
        PROVE  \A l \in SubmitLoops : pc'[l] = pc[l]
    BY <1>1, Names DEF Go, TypeOK
  <1>2. ASSUME NEW posts \in SUBSET Posts, Fetch(posts) PROVE Quiet
    BY <1>1, <1>2 DEF Fetch, Quiet
  <1>3. ASSUME NEW p \in Posts, InsertSeen(p) PROVE Quiet
    <2>1. Go("collect", "sleep") \/ pc' = pc
      BY <1>3 DEF InsertSeen, EndOfListing
    <2>2. \A l \in SubmitLoops : pc'[l] = pc[l]
      BY <1>1, <2>1
    <2> QED  BY <1>3, <2>2 DEF InsertSeen, Quiet
  <1>4. CASE Wake("collect")
    BY <1>1, <1>4 DEF Wake, Again, Quiet
  <1>5. CASE GiveUp("collect")
    BY <1>1, <1>5 DEF GiveUp, Return, Log!Cancel, Log!fileVars, Log!memoryVars, Quiet
  <1> QED  BY <1>2, <1>3, <1>4, <1>5 DEF CollectorStep

LEMMA WorkerQuiet ==
    ASSUME TypeOK, NEW l \in Workers, WorkerStep(l)
    PROVE  \/ Quiet
           \/ \E p \in Posts : PollSkip(l, p) \/ PollTake(l, p)
           \/ l \in SubmitLoops /\ \E o \in {"success", "failure"} : Submitted(l, o)
  <1> USE DEF replayVars, logVars, logOnlyVars, workVars
  <1>1. ASSUME NEW where \in {"await", "fetch", "poll", "sleep", "done"}, Go(l, where), pc[l] # "submit"
        PROVE  \A m \in SubmitLoops : (pc[m] = "submit" <=> pc'[m] = "submit")
    BY <1>1, Names DEF Go, TypeOK
  <1>2. CASE PollEmpty(l)
    BY <1>1, <1>2 DEF PollEmpty, HasQueue, Quiet
  <1>3. CASE Wake(l) \/ Notified(l)
    <2>1. \E where \in {"fetch", "poll", "done"} : Go(l, where)
      BY <1>3 DEF Wake, Notified, Again
    <2>2. pc[l] # "submit"
      BY <1>3 DEF Wake, Notified
    <2> QED  BY <1>1, <1>3, <2>1, <2>2 DEF Wake, Notified, Quiet
  <1>4. CASE GiveUp(l)
    BY <1>1, <1>4 DEF GiveUp, Return, Log!Cancel, Log!fileVars, Log!memoryVars, Quiet
  <1>5. CASE l \in SubmitLoops /\ Enqueue(l)
    <2>1. /\ pc[l] = "enqueue" /\ Go(l, "sleep")
          /\ current' = [current EXCEPT ![l] = NoPost]
          /\ queue' = Insert(current[l], {"comment"})
      BY <1>5 DEF Enqueue
    <2>2. \A m \in SubmitLoops : queue[m] \subseteq queue'[m]
      BY <2>1, Names DEF Insert
    <2>3. \A m \in SubmitLoops : pc[m] = "submit" => current'[m] = current[m]
      BY <2>1 DEF TypeOK
    <2> QED  BY <1>1, <1>5, <2>1, <2>2, <2>3 DEF Enqueue, Quiet
  <1> QED  BY <1>2, <1>3, <1>4, <1>5 DEF WorkerStep, SubmitterStep

LEMMA Steps ==
    ASSUME TypeOK, [Next]_vars
    PROVE  \/ Quiet \/ Start \/ ReplayLine \/ StartLoops \/ Stops \/ WriterStep \/ WriterFails
           \/ /\ phase = "running"
              /\ \/ \E p \in Posts : InsertNew(p)
                 \/ \E l \in Workers, p \in Posts : PollSkip(l, p) \/ PollTake(l, p)
                 \/ \E l \in SubmitLoops, o \in {"success", "failure"} : Submitted(l, o)
  <1> USE DEF replayVars, logVars, logOnlyVars, workVars, taskVars
  <1>1. CASE CtrlC \/ LoginFails
    BY <1>1 DEF CtrlC, LoginFails, Log!Cancel, Log!fileVars, Log!memoryVars, Quiet
  <1>2. CASE UNCHANGED vars
    BY <1>2 DEF vars, Quiet
  <1>3. CASE LoopStep
    BY <1>3, CollectorQuiet, WorkerQuiet DEF LoopStep
  <1> QED  BY <1>1, <1>2, <1>3 DEF Next, Fault, Stops

----------------------------------------------------------------------------
(* The invariant *)

\* What is known of a sequence of changes is known of each of them.
LEMMA KnownLine ==
    ASSUME NEW s \in Seq(Change), NEW posts, NEW works, KnowsOf(s, posts, works),
           NEW i \in 1..Len(s), s[i].field \notin {"new", "outline_com"}
    PROVE  works[s[i].post][s[i].field] = s[i].outcome
  <1>1. s[i] \in Change
    OBVIOUS
  <1>2. Has(s, OutcomeOf(s[i].field, s[i].post, s[i].outcome))
    BY <1>1, ChangeParts DEF Has
  <1> QED  BY <1>1, <1>2, ChangeParts DEF KnowsOf

LEMMA QuietRecovery == ASSUME TypeOK, RecoveryInv, Quiet PROVE RecoveryInv'
  <1> USE DEF Quiet
  <1>1. FileInv'
    BY DEF RecoveryInv, FileInv, Live, Reported, Knows
  <1>2. LinesKnown' /\ DataInv'
    BY DEF RecoveryInv, LinesKnown, DataInv
  <1>3. ReplayInv'
    <2>1. \A l \in SubmitLoops : seen \subseteq queue[l] => seen \subseteq queue'[l]
      OBVIOUS
    <2> QED  BY <2>1 DEF RecoveryInv, ReplayInv, Knows
  <1>4. NothingStranded'
    <2>1. \A f \in ResultFields, p \in Posts : InHand(LoopOf(f), p) => InHand(LoopOf(f), p)'
      BY FieldNames DEF InHand
    <2>2. seen \subseteq Posts
      BY DEF TypeOK
    <2> QED  BY <2>1, <2>2 DEF RecoveryInv, NothingStranded
  <1> QED  BY <1>1, <1>2, <1>3, <1>4 DEF RecoveryInv

\* A process that is down believes nothing.
LEMMA DownRecovery ==
    ASSUME Down, Ordered(lines')
    PROVE  RecoveryInv'
  <1>1. /\ phase' = "down" /\ replayed' = 0 /\ restored' = {} /\ seen' = {} /\ data' = NoWork
    BY DEF Down
  <1>2. \A p \in Posts : data'[p] = NewWork
    BY <1>1 DEF NoWork
  <1>3. \A f \in WorkFields : NewWork[f] = "waiting"
    BY DEF NewWork
  <1>4. FileInv' /\ LinesKnown' /\ ReplayInv' /\ NothingStranded'
    BY <1>1 DEF FileInv, Live, LinesKnown, ReplayInv, NothingStranded
  <1>5. DataInv'
    BY <1>1, <1>2, <1>3, Names, FieldNames DEF DataInv, IsDone
  <1> QED  BY <1>4, <1>5 DEF RecoveryInv

LEMMA StopRecovery == ASSUME TypeOK, TypeOK', RecoveryInv, Stops PROVE RecoveryInv'
  <1>1. Down /\ (IsCut \/ lines' = lines)
    BY StopFile DEF Stops, ReplayFails, Exit, Kill, PowerLoss, logVars, logOnlyVars
  <1>2. lines \in Seq(Change) /\ lines' \in Seq(Change)
    BY DEF TypeOK, Log!TypeOK
  <1>3. Ordered(lines')
    BY <1>1, <1>2, OrderedPrefix DEF IsCut, RecoveryInv, FileInv
  <1> QED  BY <1>1, <1>3, DownRecovery

\* The writer changes what is in the file, and not what is reported until it fails.
LEMMA WriterRecovery ==
    ASSUME TypeOK, TypeOK', RecoveryInv, WriterStep \/ WriterFails
    PROVE  RecoveryInv'
  <1>1. /\ UNCHANGED <<phase, replayed, restored, seen, data, queue, pc, current>>
        /\ Log!WriterStep \/ Log!SendFails \/ Log!SyncFails
    BY DEF WriterStep, WriterFails, replayVars, workVars, taskVars
  <1>2. /\ lines \in Seq(Change) /\ lines' \in Seq(Change)
        /\ uncommitted \in Seq(Change) /\ Reported \in Seq(Change)
    BY SeqTypes DEF TypeOK, Log!TypeOK
  <1>3. phase = "running"
    <2>1. writer # "off"
      BY <1>1 DEF Log!WriterStep, Log!BeginCommit, Log!SendLine, Log!EndSend, Log!Sync,
                  Log!SelectNotified, Log!SelectCancelled, Log!SendFails, Log!SyncFails
    <2> QED  BY <2>1 DEF TypeOK
  <1>4. ASSUME IsCut PROVE Ordered(lines') /\ LinesKnown'
    <2>1. Ordered(lines')
      BY <1>2, <1>4, OrderedPrefix DEF IsCut, RecoveryInv, FileInv
    <2>2. LinesKnown'
      <3>1. \A i \in 1..Len(lines') : i \in 1..Len(lines) /\ lines'[i] = lines[i]
        BY <1>2, <1>4 DEF IsCut
      <3> QED  BY <1>1, <3>1 DEF RecoveryInv, LinesKnown
    <2> QED  BY <2>1, <2>2
  <1>5. ASSUME IsSent PROVE Ordered(lines') /\ LinesKnown'
    <2>1. Live
      BY <1>3, <1>5 DEF Live, IsSent
    <2>2. Tail(uncommitted) \in Seq(Change) /\ Reported = lines' \o Tail(uncommitted)
      BY <1>2, <1>5, ConcatHead DEF IsSent, Reported
    <2>3. Len(lines') <= Len(Reported) /\ \A i \in 1..Len(lines') : lines'[i] = Reported[i]
      BY <1>2, <2>2, ConcatProperties, LenProperties
    <2>4. Ordered(lines')
      BY <1>2, <2>1, <2>3, OrderedPrefix DEF RecoveryInv, FileInv
    <2>5. \A i \in 1..Len(lines') : i \in 1..Len(Reported) /\ lines'[i] = Reported[i]
      BY <1>2, <2>3
    <2>6. LinesKnown'
      BY <1>1, <1>2, <2>1, <2>5, KnownLine DEF RecoveryInv, FileInv, Knows, LinesKnown
    <2> QED  BY <2>4, <2>6
  <1>6. Ordered(lines') /\ LinesKnown'
    BY <1>1, <1>4, <1>5, WriterFile
  <1>7. Live' => Live /\ Reported' = Reported
    BY <1>1, WriterFile DEF Live
  <1>8. FileInv'
    BY <1>1, <1>6, <1>7 DEF RecoveryInv, FileInv, Knows
  <1>9. ReplayInv' /\ DataInv' /\ NothingStranded'
    BY <1>1, <1>3 DEF RecoveryInv, ReplayInv, DataInv, NothingStranded, InHand
  <1> QED  BY <1>6, <1>8, <1>9 DEF RecoveryInv

\* A start knows nothing yet.
LEMMA StartRecovery == ASSUME TypeOK, RecoveryInv, Start PROVE RecoveryInv'
  <1>1. /\ UNCHANGED <<lines, replayed, restored, seen, data, queue, pc, current>>
        /\ phase = "down" /\ phase' = "replay"
    BY DEF Start, logVars, logOnlyVars, workVars, taskVars
  <1>2. replayed = 0 /\ restored = {} /\ seen = {} /\ data = NoWork
    BY <1>1 DEF RecoveryInv, ReplayInv
  <1>3. lines \in Seq(Change)
    BY SeqTypes
  <1>4. KnowsOf(SubSeq(lines, 1, 0), {}, NoWork)
    <2>1. SubSeq(lines, 1, 0) = <<>>
      BY <1>3
    <2>2. \A c : ~Has(<<>>, c)
      BY DEF Has
    <2>3. \A p \in Posts, f \in WorkFields : NoWork[p][f] = "waiting"
      BY DEF NoWork, NewWork
    <2> QED  BY <2>1, <2>2, <2>3, Names DEF KnowsOf
  <1>5. ReplayInv'
    BY <1>1, <1>2, <1>3, <1>4 DEF ReplayInv, Knows
  <1>6. FileInv' /\ LinesKnown' /\ DataInv' /\ NothingStranded'
    BY <1>1 DEF RecoveryInv, FileInv, Live, LinesKnown, DataInv, NothingStranded
  <1> QED  BY <1>5, <1>6 DEF RecoveryInv

\* What a start has read is what the running process has reported.
LEMMA StartLoopsRecovery ==
    ASSUME TypeOK, LogProofs!OffIsEmpty, RecoveryInv, StartLoops
    PROVE  RecoveryInv'
  <1>1. /\ UNCHANGED <<lines, uncommitted, restored, seen, data, queue, pc, current>>
        /\ phase = "replay" /\ phase' = "running" /\ replayed = Len(lines)
        /\ writer = "off"
    BY DEF StartLoops, Log!Open, Log!fileVars, Log!memoryVars, workVars, taskVars
  <1>2. lines \in Seq(Change)
    BY SeqTypes
  <1>3. Reported' = lines
    <2>1. uncommitted = <<>>
      BY <1>1 DEF LogProofs!OffIsEmpty
    <2> QED  BY <1>1, <1>2, <2>1, ConcatEmptySeq DEF Reported
  <1>4. Knows(lines)
    <2>1. SubSeq(lines, 1, Len(lines)) = lines
      BY <1>2, SubSeqFull
    <2> QED  BY <1>1, <2>1 DEF RecoveryInv, ReplayInv
  <1>5. FileInv'
    BY <1>1, <1>3, <1>4 DEF RecoveryInv, FileInv, Knows
  <1>6. LinesKnown'
    BY <1>1, <1>2, <1>4, KnownLine DEF Knows, LinesKnown
  <1>7. NothingStranded'
    <2> SUFFICES ASSUME NEW p \in seen, NEW f \in ResultFields
                 PROVE  InHand(LoopOf(f), p)' \/ (f = "wikiwix" /\ p \in restored')
      BY <1>1 DEF NothingStranded
    <2>1. CASE LoopOf(f) = "wikiwix"
      BY <1>1, <2>1 DEF LoopOf, RecoveryInv, ReplayInv
    <2>2. CASE LoopOf(f) # "wikiwix"
      BY <1>1, <2>2, FieldNames DEF InHand, RecoveryInv, ReplayInv
    <2> QED  BY <2>1, <2>2
  <1>8. ReplayInv' /\ DataInv'
    BY <1>1 DEF RecoveryInv, ReplayInv, DataInv
  <1> QED  BY <1>5, <1>6, <1>7, <1>8 DEF RecoveryInv

\* What apply_change makes of the memory.
LEMMA ReplayRecovery == ASSUME TypeOK, RecoveryInv, ReplayLine PROVE RecoveryInv'
  <1> DEFINE c == lines[replayed + 1]
             s == SubSeq(lines, 1, replayed)
  <1>1. /\ phase = "replay" /\ phase' = "replay" /\ replayed' = replayed + 1
        /\ UNCHANGED <<lines, pc, current>>
        /\ IF c.field = "new" THEN ApplyNewPost(c.post) ELSE ApplyOutcome(c)
    BY DEF ReplayLine, logVars, logOnlyVars, taskVars
  <1>2. lines \in Seq(Change) /\ replayed \in 0..Len(lines) /\ replayed < Len(lines)
    BY SeqTypes DEF ReplayLine, RecoveryInv, ReplayInv
  <1>3. /\ c \in Change /\ s \in Seq(Change) /\ replayed' \in 0..Len(lines')
        /\ Len(s) = replayed /\ \A i \in 1..replayed : s[i] = lines[i]
        /\ SubSeq(lines', 1, replayed') = Append(s, c)
    <2>1. SubSeq(lines, 1, replayed + 1) = Append(SubSeq(lines, 1, replayed), lines[replayed + 1])
      BY <1>2
    <2> QED  BY <1>1, <1>2, <2>1
  <1>4. Ordered(lines) /\ Ordered(s)
    <2>1. Ordered(lines)
      BY DEF RecoveryInv, FileInv
    <2>2. Len(s) <= Len(lines) /\ \A i \in 1..Len(s) : s[i] = lines[i]
      BY <1>2, <1>3
    <2> HIDE DEF s
    <2> QED  BY <1>2, <1>3, <2>1, <2>2, OrderedPrefix
  <1>5. /\ KnowsOf(s, seen, data) /\ restored = seen
        /\ \A l \in SubmitLoops \ {"wikiwix"} : seen \subseteq queue[l]
    BY <1>1 DEF RecoveryInv, ReplayInv, Knows
  <1>6. /\ c.field = "new" => c = NewPost(c.post)
        /\ c.field # "new" => Has(s, NewPost(c.post))
        /\ c.field = "text" => HasOutcome(s, "screenshot", c.post)
        /\ c.field # "outline_com" => ~HasOutcome(s, c.field, c.post)
    <2>1. replayed + 1 \in 1..Len(lines) /\ replayed \in Nat
      BY <1>2
    <2>2. /\ c.field = "new" => c = NewPost(c.post)
          /\ c.field # "new" => \E j \in 1..replayed : lines[j] = NewPost(c.post)
          /\ c.field = "text" =>
                 \E j \in 1..replayed : lines[j].field = "screenshot" /\ lines[j].post = c.post
          /\ \A j \in 1..replayed :
                 lines[j].field = c.field /\ lines[j].post = c.post => c.field = "outline_com"
      BY <1>2, <1>4, <2>1, OrderedNext
    <2>3. Len(s) = replayed /\ \A i \in 1..replayed : s[i] = lines[i]
      BY <1>3
    <2> HIDE DEF c, s
    <2> QED  BY <2>2, <2>3 DEF Has, HasOutcome
  <1>7. FileInv' /\ LinesKnown' /\ NothingStranded'
    BY <1>1, <1>4 DEF FileInv, Live, LinesKnown, NothingStranded
  <1> HIDE DEF c, s
  <1>8. CASE c.field = "new"
    <2>1. /\ seen' = seen \cup {c.post} /\ restored' = restored \cup {c.post} /\ data' = data
          /\ queue' = Insert(c.post, SubmitLoops \ {"wikiwix"})
      BY <1>1, <1>8 DEF ApplyNewPost
    <2>2. KnowsOf(Append(s, c), seen', data')
      BY <1>3, <1>5, <1>6, <1>8, <2>1, ChangeParts, KnowsNew
    <2>3. \A l \in SubmitLoops \ {"wikiwix"} : seen' \subseteq queue'[l]
      BY <1>5, <2>1, Names DEF Insert
    <2>4. ReplayInv'
      BY <1>1, <1>3, <1>5, <2>1, <2>2, <2>3 DEF ReplayInv, Knows
    <2>5. DataInv'
      BY <1>5, <2>1 DEF RecoveryInv, DataInv
    <2> QED  BY <1>7, <2>4, <2>5 DEF RecoveryInv
  <1>9. CASE c.field # "new"
    <2>1. /\ c.post \in Posts /\ c.post \in seen /\ c.field \in ResultFields
          /\ c.outcome \in {"success", "failure"}
          /\ c = OutcomeOf(c.field, c.post, c.outcome)
      BY <1>3, <1>5, <1>6, <1>9, ChangeParts DEF KnowsOf
    <2>2. /\ seen' = seen /\ restored' = restored
          /\ data' = [data EXCEPT ![c.post][c.field] = c.outcome]
          /\ queue' = queue \/ queue' = Insert(c.post, {"comment"})
      BY <1>1, <1>9, <2>1 DEF ApplyOutcome
    <2>3. KnowsOf(Append(s, c), seen', data')
      <3>1. data \in [Posts -> [WorkFields -> Outcomes]]
        BY DEF TypeOK
      <3>2. KnowsOf(Append(s, OutcomeOf(c.field, c.post, c.outcome)), seen,
                    [data EXCEPT ![c.post][c.field] = c.outcome])
        BY <1>3, <1>5, <1>6, <2>1, <3>1, KnowsOutcome
      <3> QED  BY <2>1, <2>2, <3>2
    <2>4. \A l \in SubmitLoops \ {"wikiwix"} : seen' \subseteq queue'[l]
      BY <1>5, <2>2, Names DEF Insert
    <2>5. ReplayInv'
      BY <1>1, <1>3, <1>5, <2>2, <2>3, <2>4 DEF ReplayInv, Knows
    <2>6. DataInv'
      <3>1. /\ data'[c.post][c.field] = c.outcome
            /\ \A p \in Posts, f \in WorkFields :
                   p # c.post \/ f # c.field => data'[p][f] = data[p][f]
            /\ \A p \in Posts : p # c.post => data'[p] = data[p]
        BY <2>1, <2>2, Names DEF TypeOK
      <3>2. c.field = "text" => IsDone(data[c.post]["screenshot"])
        BY <1>3, <1>4, <1>5, <1>6, <2>1, ReportedIsKnown, Names, FieldNames
      <3>3. c.post \in restored'
        BY <1>5, <2>1, <2>2
      <3>4. IsDone(c.outcome)
        BY <2>1 DEF IsDone
      <3>5. \A p \in Posts : data'[p]["comment"] = data[p]["comment"]
        BY <2>1, <3>1, Names
      <3>6. ASSUME NEW p \in Posts, p = c.post
            PROVE  /\ IsDone(data'[p]["text"]) => IsDone(data'[p]["screenshot"])
                   /\ p \in seen' /\ p \in restored'
        BY <2>1, <2>2, <3>1, <3>2, <3>3, <3>4, <3>6, Names, FieldNames DEF RecoveryInv, DataInv
      <3> QED  BY <2>2, <3>1, <3>5, <3>6 DEF RecoveryInv, DataInv
    <2> QED  BY <1>7, <2>5, <2>6 DEF RecoveryInv
  <1> QED  BY <1>8, <1>9

----------------------------------------------------------------------------
(* The loops *)

\* Steps of a running process that leave the file and what is reported of it alone,
\* while the outcomes keep what has been reported.
LEMMA LoopRecovery ==
    ASSUME TypeOK, RecoveryInv, phase = "running", phase' = "running",
           UNCHANGED <<lines, tail, uncommitted, writer, restored, seen>>,
           \A p \in Posts, f \in ResultFields \ {"outline_com"} :
               \/ data'[p][f] = data[p][f]
               \/ ~IsDone(data[p][f]) /\ ~IsDone(data'[p][f]),
           DataInv', NothingStranded'
    PROVE  RecoveryInv'
  <1>1. Live => Knows(Reported)'
    <2>1. Live => KnowsOf(Reported, seen, data')
      BY DEF RecoveryInv, FileInv, Knows, KnowsOf, IsDone
    <2> QED  BY <2>1 DEF Knows, Reported
  <1>2. FileInv'
    BY <1>1 DEF RecoveryInv, FileInv, Live, Reported
  <1>3. LinesKnown'
    <2> SUFFICES ASSUME NEW i \in 1..Len(lines), lines[i].field \notin {"new", "outline_com"}
                 PROVE  data'[lines[i].post][lines[i].field] = lines[i].outcome
      BY DEF LinesKnown
    <2>1. lines[i] \in Change
      BY SeqTypes
    <2>2. data[lines[i].post][lines[i].field] = lines[i].outcome
      BY DEF RecoveryInv, LinesKnown
    <2> QED  BY <2>1, <2>2, ChangeParts DEF IsDone
  <1>4. ReplayInv'
    BY DEF ReplayInv
  <1> QED  BY <1>2, <1>3, <1>4 DEF RecoveryInv

\* A post that is skipped has its outcome, or is for comment_loop.
LEMMA SkipRecovery ==
    ASSUME TypeOK, RecoveryInv, phase = "running",
           NEW l \in Workers, NEW p \in Posts, PollSkip(l, p)
    PROVE  RecoveryInv'
  <1>1. /\ UNCHANGED <<phase, lines, tail, uncommitted, writer, restored, seen, data, current>>
        /\ pc[l] = "poll" /\ Skips(l, data[p])
        /\ queue' = [queue EXCEPT ![l] = @ \ {p}]
    BY DEF PollSkip, Pop, HasQueue, replayVars, logOnlyVars
  <1>2. \E where \in {"fetch", "done", "poll"} : Go(l, where)
    BY DEF PollSkip, Again
  <1>3. \A m \in SubmitLoops : pc[m] = "submit" => pc'[m] = "submit"
    BY <1>1, <1>2 DEF Go, TypeOK
  <1>4. \A m \in SubmitLoops : queue[m] \ {p} \subseteq queue'[m] /\ (m # l => queue'[m] = queue[m])
    BY <1>1, Names DEF TypeOK
  <1>5. l \in SubmitLoops => IsDone(data[p][l])
    BY <1>1, Names DEF Skips, IsDone, RecoveryInv, DataInv
  <1>6. DataInv'
    BY <1>1 DEF RecoveryInv, DataInv
  <1>7. NothingStranded'
    <2> SUFFICES ASSUME NEW q \in seen, NEW f \in ResultFields, ~IsDone(data[q][f])
                 PROVE  \/ InHand(LoopOf(f), q)'
                        \/ f = "wikiwix" /\ q \in restored
                        \/ f = "text" /\ q \in restored /\ IsDone(data[q]["screenshot"])
                        \/ f = "outline_com" /\ data[q][f] = "processing"
      BY <1>1 DEF NothingStranded
    <2>1. q \in Posts
      BY DEF TypeOK
    <2>2. CASE q = p /\ l = LoopOf(f)
      <3>1. f = "text" /\ l = "screenshot"
        BY <1>5, <2>2, FieldNames DEF LoopOf
      <3> QED  BY <1>5, <2>1, <2>2, <3>1, FieldNames DEF RecoveryInv, DataInv
    <2>3. CASE ~(q = p /\ l = LoopOf(f))
      <3>1. InHand(LoopOf(f), q) => InHand(LoopOf(f), q)'
        BY <1>1, <1>3, <1>4, <2>1, <2>3, FieldNames DEF InHand
      <3> QED  BY <3>1 DEF RecoveryInv, NothingStranded
    <2> QED  BY <2>2, <2>3
  <1> QED  BY <1>1, <1>6, <1>7, LoopRecovery

\* comment_loop marks the outcome of Outline.com, which no other loop then provides.
LEMMA CommentTakeRecovery ==
    ASSUME TypeOK, RecoveryInv, HandInv, phase = "running",
           NEW p \in Posts, PollTake("comment", p)
    PROVE  RecoveryInv'
  <1>1. /\ UNCHANGED <<phase, lines, tail, uncommitted, writer, restored, seen, current>>
        /\ p \in queue["comment"]
        /\ queue' = [queue EXCEPT !["comment"] = @ \ {p}]
        /\ data' = [data EXCEPT ![p]["outline_com"] = "processing"]
        /\ \A m \in SubmitLoops : pc'[m] = pc[m]
    BY Names DEF PollTake, Pop, Go, MarkedField, TypeOK, replayVars, logVars, logOnlyVars
  <1>2. "outline_com" \in WorkFields
    BY DEF WorkFields
  <1>3. /\ data'[p]["outline_com"] = "processing"
        /\ \A q \in Posts, f \in WorkFields :
               q # p \/ f # "outline_com" => data'[q][f] = data[q][f]
        /\ \A q \in Posts : q # p => data'[q] = data[q]
    BY <1>1, <1>2 DEF TypeOK
  <1>4. p \in seen
    BY <1>1, Names DEF HandInv, Known
  <1>5. DataInv'
    <2>1. /\ "comment" \in WorkFields /\ "text" \in WorkFields /\ "screenshot" \in WorkFields
      BY Names, FieldNames
    <2> QED  BY <1>1, <1>3, <1>4, <2>1 DEF RecoveryInv, DataInv
  <1>6. NothingStranded'
    <2>1. \A m \in SubmitLoops : queue'[m] = queue[m]
      BY <1>1, Names DEF TypeOK
    <2>2. \A q \in Posts, f \in ResultFields : InHand(LoopOf(f), q) => InHand(LoopOf(f), q)'
      BY <1>1, <2>1, FieldNames DEF InHand
    <2> SUFFICES ASSUME NEW q \in seen, NEW f \in ResultFields
                 PROVE  \/ IsDone(data'[q][f])
                        \/ InHand(LoopOf(f), q)'
                        \/ f = "wikiwix" /\ q \in restored
                        \/ f = "text" /\ q \in restored /\ IsDone(data'[q]["screenshot"])
                        \/ f = "outline_com" /\ data'[q][f] = "processing"
      BY <1>1 DEF NothingStranded
    <2>3. q \in Posts /\ f \in WorkFields /\ "screenshot" \in WorkFields
      BY Names, FieldNames DEF TypeOK
    <2>4. CASE q = p /\ f = "outline_com"
      BY <1>3, <2>4
    <2>5. CASE ~(q = p /\ f = "outline_com")
      <3>1. data'[q][f] = data[q][f] /\ data'[q]["screenshot"] = data[q]["screenshot"]
        BY <1>3, <2>3, <2>5
      <3> QED  BY <2>2, <2>3, <3>1 DEF RecoveryInv, NothingStranded
    <2> QED  BY <2>4, <2>5
  <1>7. \A q \in Posts, f \in ResultFields \ {"outline_com"} : data'[q][f] = data[q][f]
    BY <1>3, Names
  <1> QED  BY <1>1, <1>5, <1>6, <1>7, LoopRecovery

\* What a submit loop takes out of its queue is in its hand.
LEMMA SubmitTakeRecovery ==
    ASSUME TypeOK, RecoveryInv, HandInv, phase = "running",
           NEW l \in SubmitLoops, NEW p \in Posts, PollTake(l, p)
    PROVE  RecoveryInv'
  <1>1. /\ UNCHANGED <<phase, lines, tail, uncommitted, writer, restored, seen>>
        /\ p \in queue[l] /\ ~IsDone(data[p][l]) /\ pc[l] = "poll"
        /\ queue' = [queue EXCEPT ![l] = @ \ {p}]
        /\ data' = [data EXCEPT ![p][l] = "processing"]
        /\ pc' = [pc EXCEPT ![l] = "submit"]
        /\ current' = [current EXCEPT ![l] = p]
    BY Names DEF PollTake, Pop, HasQueue, Skips, Go, MarkedField, replayVars, logVars, logOnlyVars
  <1>2. /\ data'[p][l] = "processing"
        /\ \A q \in Posts, f \in WorkFields : q # p \/ f # l => data'[q][f] = data[q][f]
        /\ \A q \in Posts : q # p => data'[q] = data[q]
    BY <1>1, Names DEF TypeOK
  <1>3. /\ pc'[l] = "submit" /\ current'[l] = p
        /\ \A m \in SubmitLoops : m # l => pc'[m] = pc[m] /\ current'[m] = current[m]
        /\ \A m \in SubmitLoops : m # l => queue'[m] = queue[m]
        /\ queue'[l] = queue[l] \ {p}
    BY <1>1, Names DEF TypeOK
  <1>4. p \in seen
    BY <1>1, Names DEF HandInv, Known
  <1>5. DataInv'
    <2>1. "comment" \in WorkFields /\ "text" \in WorkFields /\ "screenshot" \in WorkFields
      BY Names, FieldNames
    <2>2. \A q \in Posts : /\ data'[q]["comment"] = data[q]["comment"]
                           /\ data'[q]["text"] = data[q]["text"]
      BY <1>2, <2>1, Names, FieldNames
    <2>3. \A q \in Posts : \/ data'[q]["screenshot"] = data[q]["screenshot"]
                           \/ /\ ~IsDone(data[q]["screenshot"]) /\ ~IsDone(data'[q]["screenshot"])
      BY <1>1, <1>2, <2>1 DEF IsDone
    <2> QED  BY <1>1, <1>2, <1>4, <2>2, <2>3 DEF RecoveryInv, DataInv
  <1>6. NothingStranded'
    <2>1. \A q \in Posts, m \in SubmitLoops : InHand(m, q) => InHand(m, q)'
      BY <1>1, <1>3 DEF InHand
    <2> SUFFICES ASSUME NEW q \in seen, NEW f \in ResultFields
                 PROVE  \/ IsDone(data'[q][f])
                        \/ InHand(LoopOf(f), q)'
                        \/ f = "wikiwix" /\ q \in restored
                        \/ f = "text" /\ q \in restored /\ IsDone(data'[q]["screenshot"])
                        \/ f = "outline_com" /\ data'[q][f] = "processing"
      BY <1>1 DEF NothingStranded
    <2>2. q \in Posts /\ f \in WorkFields /\ "screenshot" \in WorkFields /\ LoopOf(f) \in SubmitLoops
      BY Names, FieldNames DEF TypeOK
    <2>3. CASE q = p /\ LoopOf(f) = l
      BY <1>3, <2>3 DEF InHand
    <2>4. CASE ~(q = p /\ LoopOf(f) = l)
      <3>1. data'[q][f] = data[q][f]
        BY <1>2, <2>2, <2>4, FieldNames
      <3>2. f = "text" => data'[q]["screenshot"] = data[q]["screenshot"]
        BY <1>2, <2>2, <2>4 DEF LoopOf
      <3> QED  BY <2>1, <2>2, <3>1, <3>2 DEF RecoveryInv, NothingStranded
    <2> QED  BY <2>3, <2>4
  <1>7. \A q \in Posts, f \in ResultFields \ {"outline_com"} :
            \/ data'[q][f] = data[q][f]
            \/ ~IsDone(data[q][f]) /\ ~IsDone(data'[q][f])
    BY <1>1, <1>2, Names DEF IsDone
  <1> QED  BY <1>1, <1>5, <1>6, <1>7, LoopRecovery

\* A new post is reported before it is in a queue.
LEMMA InsertRecovery ==
    ASSUME TypeOK, RecoveryInv, phase = "running", NEW p \in Posts, InsertNew(p)
    PROVE  RecoveryInv'
  <1>1. /\ UNCHANGED <<phase, lines, tail, writer, restored, current>>
        /\ uncommitted' = uncommitted \o <<NewPost(p)>>
        /\ p \notin seen /\ seen' = seen \cup {p}
        /\ data' = [data EXCEPT ![p] = NewWork]
        /\ queue' = Insert(p, SubmitLoops)
        /\ \A l \in SubmitLoops : pc'[l] = pc[l]
    BY Names DEF InsertNew, NotSeen, EndOfListing, Go, TypeOK, Log!LogChanges, Log!fileVars, replayVars
  <1>2. data' = data
    BY <1>1 DEF RecoveryInv, DataInv, TypeOK
  <1>3. Reported' = Append(Reported, NewPost(p)) /\ Reported \in Seq(Change) /\ NewPost(p) \in Change
    <2>1. NewPost(p) \in Change
      BY DEF NewPost, Change
    <2> QED  BY <1>1, <2>1, SeqTypes, ConcatBatch DEF Reported
  <1>4. FileInv'
    <2>1. Ordered(lines)
      BY DEF RecoveryInv, FileInv
    <2>2. ASSUME Live PROVE Ordered(Reported') /\ Knows(Reported)'
      <3>1. Ordered(Reported) /\ KnowsOf(Reported, seen, data)
        BY <2>2 DEF RecoveryInv, FileInv, Knows
      <3>2. ~HasOutcome(Reported, "new", p)
        BY <1>1, <1>3, <3>1, ReportedIsKnown
      <3>3. Ordered(Append(Reported, NewPost(p)))
        BY <1>3, <3>1, <3>2, OrderedAppend, ChangesDiffer
      <3>4. KnowsOf(Append(Reported, NewPost(p)), seen \cup {p}, data)
        BY <1>3, <3>1, KnowsNew
      <3>5. Knows(Reported)' <=> KnowsOf(Reported', seen', data')
        BY DEF Knows
      <3> QED  BY <1>1, <1>2, <1>3, <3>3, <3>4, <3>5
    <2> QED  BY <1>1, <2>1, <2>2 DEF FileInv, Live
  <1>5. LinesKnown' /\ ReplayInv' /\ DataInv'
    BY <1>1, <1>2 DEF RecoveryInv, LinesKnown, ReplayInv, DataInv
  <1>6. NothingStranded'
    <2>1. \A m \in SubmitLoops : queue'[m] = queue[m] \cup {p}
      BY <1>1, Names DEF Insert
    <2>2. \A q \in Posts, f \in ResultFields :
              /\ InHand(LoopOf(f), q) => InHand(LoopOf(f), q)'
              /\ InHand(LoopOf(f), p)'
      BY <1>1, <2>1, FieldNames DEF InHand
    <2>3. seen \subseteq Posts
      BY DEF TypeOK
    <2> QED  BY <1>1, <1>2, <2>2, <2>3 DEF RecoveryInv, NothingStranded
  <1> QED  BY <1>4, <1>5, <1>6 DEF RecoveryInv

\* A submission that ends: the outcomes of its post were not known before.
Ends(l, p, o) ==
    /\ p \in Posts /\ p \in seen
    /\ UNCHANGED <<phase, lines, tail, writer, restored, seen, queue>>
    /\ \A f \in FieldsOf(l) : data'[p][f] = o /\ ~IsDone(data[p][f])
    /\ \A q \in Posts, f \in WorkFields : q # p \/ f \notin FieldsOf(l) => data'[q][f] = data[q][f]
    /\ \A q \in Posts : q # p => data'[q] = data[q]

LEMMA SubmittedEnds ==
    ASSUME TypeOK, RecoveryInv, HandInv, phase = "running",
           NEW l \in SubmitLoops, NEW o \in {"success", "failure"}, Submitted(l, o)
    PROVE  /\ Ends(l, current[l], o)
           /\ uncommitted' = uncommitted \o Report(l, current[l], o)
           /\ data' = [data EXCEPT ![current[l]] =
                          [f \in WorkFields |-> IF f \in FieldsOf(l) THEN o ELSE @[f]]]
           /\ pc[l] = "submit"
           /\ \A m \in SubmitLoops : m # l => pc'[m] = pc[m] /\ current'[m] = current[m]
  <1> DEFINE p == current[l]
  <1>1. /\ p \in Posts /\ p \in seen /\ data[p][l] = "processing" /\ pc[l] = "submit"
        /\ UNCHANGED <<phase, lines, tail, writer, restored, seen, queue>>
        /\ uncommitted' = uncommitted \o Report(l, p, o)
        /\ data' = [data EXCEPT ![p] = [f \in WorkFields |-> IF f \in FieldsOf(l) THEN o ELSE @[f]]]
    BY DEF Submitted, TypeOK, HandInv, Known, SubmitMarked, Log!LogChanges, Log!fileVars, replayVars
  <1>2. \A m \in SubmitLoops : m # l => pc'[m] = pc[m] /\ current'[m] = current[m]
    BY Names DEF Submitted, Go, TypeOK
  <1> HIDE DEF p
  <1>3. /\ data'[p] = [f \in WorkFields |-> IF f \in FieldsOf(l) THEN o ELSE data[p][f]]
        /\ \A q \in Posts : q # p => data'[q] = data[q]
    BY <1>1 DEF TypeOK
  <1>4. FieldsOf(l) \subseteq WorkFields
    BY Names, FieldNames
  <1>5. ASSUME NEW f \in FieldsOf(l) PROVE ~IsDone(data[p][f])
    <2>1. ~IsDone(data[p][l])
      BY <1>1 DEF IsDone
    <2>2. f = l \/ (f = "text" /\ l = "screenshot")
      BY DEF FieldsOf
    <2> QED  BY <1>1, <2>1, <2>2 DEF RecoveryInv, DataInv
  <1>6. Ends(l, p, o)
    BY <1>1, <1>3, <1>4, <1>5 DEF Ends
  <1> QED  BY <1>1, <1>2, <1>6 DEF p

\* What is reported of it is in order and becomes known.
LEMMA SubmittedFile ==
    ASSUME TypeOK, RecoveryInv, NEW l \in SubmitLoops, NEW p \in Posts,
           NEW o \in {"success", "failure"}, Ends(l, p, o),
           uncommitted' = uncommitted \o Report(l, p, o),
           data' = [data EXCEPT ![p] = [f \in WorkFields |-> IF f \in FieldsOf(l) THEN o ELSE @[f]]]
    PROVE  FileInv'
  <1>0. UNCHANGED <<phase, lines, tail, writer, seen>>
    BY DEF Ends
  <1>1. lines \in Seq(Change) /\ uncommitted \in Seq(Change) /\ Reported \in Seq(Change)
    BY SeqTypes
  <1>2. \A f \in ResultFields : OutcomeOf(f, p, o) \in Change
    BY DEF OutcomeOf, Change
  <1>3. data \in [Posts -> [WorkFields -> Outcomes]]
    BY DEF TypeOK
  <1>4. ASSUME Live PROVE Ordered(Reported') /\ KnowsOf(Reported', seen, data')
    <2>1. Ordered(Reported) /\ KnowsOf(Reported, seen, data)
      BY <1>4 DEF RecoveryInv, FileInv, Knows
    <2>2. Has(Reported, NewPost(p))
      BY <2>1 DEF KnowsOf, Ends
    <2>3. ASSUME NEW f \in FieldsOf(l), f # "outline_com" PROVE ~HasOutcome(Reported, f, p)
      <3>1. f \in ResultFields /\ ~IsDone(data[p][f])
        BY FieldNames DEF Ends
      <3> QED  BY <1>1, <2>1, <2>3, <3>1, ReportedIsKnown
    <2> DEFINE x == OutcomeOf(l, p, o)
               first == [data EXCEPT ![p][l] = o]
    <2>4. /\ x \in Change /\ x.field = l /\ x.post = p
          /\ l \in ResultFields /\ l \in FieldsOf(l) /\ l # "new" /\ l # "text"
      BY <1>2, Names, FieldNames, ChangesDiffer
    <2>5. Ordered(Append(Reported, x))
      <3> HIDE DEF x
      <3> QED  BY <1>1, <2>1, <2>2, <2>3, <2>4, OrderedAppend
    <2>6. KnowsOf(Append(Reported, x), seen, first)
      BY <1>1, <1>3, <2>1, <2>3, <2>4, KnowsOutcome
    <2>7. CASE l # "screenshot"
      <3>1. Reported' = Append(Reported, x)
        BY <1>0, <1>1, <2>4, <2>7, ConcatBatch DEF Report, Reported
      <3>2. data' = first
        BY <1>3, <2>4, <2>7, Names DEF FieldsOf
      <3> QED  BY <2>5, <2>6, <3>1, <3>2
    <2>8. CASE l = "screenshot"
      <3> DEFINE y == OutcomeOf("text", p, o)
                 s == Append(Reported, x)
      <3>1. /\ y \in Change /\ s \in Seq(Change)
            /\ y.field = "text" /\ y.post = p
        BY <1>1, <1>2, <2>4, FieldNames, ChangesDiffer
      <3>2. Reported' = Append(s, y)
        <4>1. uncommitted' = uncommitted \o <<x, y>>
          BY <2>8 DEF Report
        <4>2. lines \o (uncommitted \o <<x, y>>) = Append(Append(lines \o uncommitted, x), y)
          <5>1. x \in Change /\ y \in Change
            BY <2>4, <3>1
          <5> HIDE DEF x, y
          <5> QED  BY <1>1, <5>1, ConcatBatch
        <4> HIDE DEF x, y
        <4> QED  BY <1>0, <4>1, <4>2 DEF Reported
      <3>3. /\ Has(s, NewPost(p)) /\ HasOutcome(s, "screenshot", p)
            /\ ~HasOutcome(s, "text", p)
        BY <1>1, <2>2, <2>3, <2>4, <2>8, HasAppend, ChangesDiffer DEF FieldsOf
      <3>4. Ordered(Append(s, y))
        <4>1. Ordered(s)
          BY <2>5
        <4> HIDE DEF s, y
        <4> QED  BY <3>1, <3>3, <4>1, OrderedAppend
      <3>5. first \in [Posts -> [WorkFields -> Outcomes]]
        BY <1>3 DEF Outcomes
      <3>6. KnowsOf(Append(s, y), seen, [first EXCEPT ![p]["text"] = o])
        BY <2>6, <3>1, <3>3, <3>5, FieldNames, KnowsOutcome
      <3>7. data' = [first EXCEPT ![p]["text"] = o]
        <4> DEFINE after == [first EXCEPT ![p]["text"] = o]
        <4>1. \A q \in Posts : q # p => data'[q] = after[q]
          BY <1>3, <3>5
        <4>2. data'[p] = [f \in WorkFields |-> IF f \in FieldsOf(l) THEN o ELSE data[p][f]]
          BY <1>3
        <4>3. after[p] = [first[p] EXCEPT !["text"] = o] /\ first[p] = [data[p] EXCEPT ![l] = o]
          BY <1>3, <3>5
        <4>4. data'[p] = after[p]
          <5>1. /\ data[p] \in [WorkFields -> Outcomes] /\ l \in WorkFields /\ "text" \in WorkFields
            BY <1>3, Names, FieldNames
          <5>2. FieldsOf(l) = {l, "text"}
            BY <2>8 DEF FieldsOf
          <5>3. after[p] = [f \in WorkFields |-> IF f \in {l, "text"} THEN o ELSE data[p][f]]
            <6> HIDE DEF after, first
            <6> QED  BY <4>3, <5>1
          <5> QED  BY <4>2, <5>2, <5>3
        <4> QED  BY <1>3, <3>5, <4>1, <4>4
      <3> QED  BY <3>2, <3>4, <3>6, <3>7
    <2> QED  BY <2>7, <2>8
  <1>5. Knows(Reported)' <=> KnowsOf(Reported', seen', data')
    BY DEF Knows
  <1> QED  BY <1>0, <1>4, <1>5 DEF RecoveryInv, FileInv, Live

LEMMA SubmittedRecovery ==
    ASSUME TypeOK, RecoveryInv, HandInv, phase = "running",
           NEW l \in SubmitLoops, NEW o \in {"success", "failure"}, Submitted(l, o)
    PROVE  RecoveryInv'
  <1> DEFINE p == current[l]
  <1>1. /\ Ends(l, p, o) /\ p \in Posts /\ pc[l] = "submit"
        /\ \A m \in SubmitLoops : m # l => pc'[m] = pc[m] /\ current'[m] = current[m]
    <2>1. /\ Ends(l, current[l], o) /\ pc[l] = "submit"
          /\ \A m \in SubmitLoops : m # l => pc'[m] = pc[m] /\ current'[m] = current[m]
      BY SubmittedEnds
    <2>2. current[l] \in Posts
      BY <2>1 DEF Ends
    <2> QED  BY <2>1, <2>2
  <1>2. FileInv'
    BY <1>1, SubmittedEnds, SubmittedFile
  <1>3. /\ UNCHANGED <<phase, lines, restored, seen, queue>> /\ p \in seen
        /\ \A f \in FieldsOf(l) : data'[p][f] = o /\ ~IsDone(data[p][f])
        /\ \A q \in Posts, f \in WorkFields : q # p \/ f \notin FieldsOf(l) => data'[q][f] = data[q][f]
        /\ \A q \in Posts : q # p => data'[q] = data[q]
    BY <1>1 DEF Ends
  <1> HIDE DEF p
  <1>4. IsDone(o)
    BY DEF IsDone
  <1>5. LinesKnown'
    <2> SUFFICES ASSUME NEW i \in 1..Len(lines), lines[i].field \notin {"new", "outline_com"}
                 PROVE  data'[lines[i].post][lines[i].field] = lines[i].outcome
      BY <1>3 DEF LinesKnown
    <2>1. lines[i] \in Change
      BY SeqTypes
    <2>2. /\ data[lines[i].post][lines[i].field] = lines[i].outcome
          /\ lines[i].post \in Posts /\ lines[i].field \in WorkFields
          /\ IsDone(lines[i].outcome)
      BY <2>1, ChangeParts, Names DEF RecoveryInv, LinesKnown, IsDone
    <2> QED  BY <1>3, <2>2
  <1>6. DataInv'
    <2>1. "comment" \in WorkFields /\ "text" \in WorkFields /\ "screenshot" \in WorkFields
      BY Names, FieldNames
    <2>2. \A q \in Posts : data'[q]["comment"] = data[q]["comment"]
      BY <1>3, <2>1, Names, FieldNames
    <2>3. CASE l = "screenshot"
      <3>1. data'[p]["text"] = o /\ data'[p]["screenshot"] = o
        BY <1>3, <2>3 DEF FieldsOf
      <3> QED  BY <1>3, <1>4, <2>2, <3>1 DEF RecoveryInv, DataInv
    <2>4. CASE l # "screenshot"
      <3>1. "text" \notin FieldsOf(l) /\ "screenshot" \notin FieldsOf(l)
        BY <2>4, FieldNames DEF FieldsOf
      <3>2. \A q \in Posts : /\ data'[q]["text"] = data[q]["text"]
                             /\ data'[q]["screenshot"] = data[q]["screenshot"]
        BY <1>3, <2>1, <3>1
      <3> QED  BY <1>3, <2>2, <3>2 DEF RecoveryInv, DataInv
    <2> QED  BY <2>3, <2>4
  <1>7. NothingStranded'
    <2> SUFFICES ASSUME NEW q \in seen, NEW f \in ResultFields
                 PROVE  \/ IsDone(data'[q][f])
                        \/ InHand(LoopOf(f), q)'
                        \/ f = "wikiwix" /\ q \in restored
                        \/ f = "text" /\ q \in restored /\ IsDone(data'[q]["screenshot"])
                        \/ f = "outline_com" /\ data'[q][f] = "processing"
      BY <1>3 DEF NothingStranded
    <2>1. q \in Posts /\ f \in WorkFields /\ "screenshot" \in WorkFields /\ LoopOf(f) \in SubmitLoops
      BY Names, FieldNames DEF TypeOK
    <2>2. CASE q = p /\ LoopOf(f) = l
      BY <1>3, <1>4, <2>2, FieldNames
    <2>3. CASE ~(q = p /\ LoopOf(f) = l)
      <3>1. data'[q][f] = data[q][f]
        BY <1>3, <2>1, <2>3, FieldNames
      <3>2. f = "text" => data'[q]["screenshot"] = data[q]["screenshot"]
        BY <1>3, <2>1, <2>3, FieldNames DEF LoopOf, FieldsOf
      <3>3. InHand(LoopOf(f), q) => InHand(LoopOf(f), q)'
        BY <1>1, <1>3, <2>1, <2>3 DEF InHand, p
      <3> QED  BY <2>1, <3>1, <3>2, <3>3 DEF RecoveryInv, NothingStranded
    <2> QED  BY <2>2, <2>3
  <1>8. ReplayInv'
    BY <1>3 DEF ReplayInv
  <1> QED  BY <1>2, <1>5, <1>6, <1>7, <1>8 DEF RecoveryInv

----------------------------------------------------------------------------
(* The theorems *)

LEMMA RecoveryStep ==
    ASSUME TypeOK, TypeOK', LogProofs!OffIsEmpty, HandInv, RecoveryInv, [Next]_vars
    PROVE  RecoveryInv'
  <1>1. ASSUME phase = "running",
               \E l \in Workers, p \in Posts : PollSkip(l, p) \/ PollTake(l, p)
        PROVE  RecoveryInv'
    BY <1>1, SkipRecovery, CommentTakeRecovery, SubmitTakeRecovery DEF Workers
  <1>2. ASSUME phase = "running", \E p \in Posts : InsertNew(p) PROVE RecoveryInv'
    BY <1>2, InsertRecovery
  <1>3. ASSUME phase = "running",
               \E l \in SubmitLoops, o \in {"success", "failure"} : Submitted(l, o)
        PROVE  RecoveryInv'
    BY <1>3, SubmittedRecovery
  <1>4. CASE Quiet
    BY <1>4, QuietRecovery
  <1>5. CASE Start \/ ReplayLine \/ StartLoops
    BY <1>5, StartRecovery, ReplayRecovery, StartLoopsRecovery
  <1>6. CASE Stops
    BY <1>6, StopRecovery
  <1>7. CASE WriterStep \/ WriterFails
    BY <1>7, WriterRecovery
  <1> QED  BY <1>1, <1>2, <1>3, <1>4, <1>5, <1>6, <1>7, Steps

LEMMA RecoveryInit == Init => RecoveryInv
  <1> SUFFICES ASSUME Init PROVE RecoveryInv
    OBVIOUS
  <1>1. /\ phase = "down" /\ replayed = 0 /\ restored = {} /\ seen = {} /\ data = NoWork
        /\ lines = <<>>
    BY DEF Init, Log!Init
  <1>2. Ordered(lines)
    BY <1>1 DEF Ordered
  <1>3. FileInv /\ LinesKnown /\ ReplayInv /\ NothingStranded
    BY <1>1, <1>2 DEF FileInv, Live, LinesKnown, ReplayInv, NothingStranded
  <1>4. DataInv
    <2>1. \A p \in Posts : data[p] = NewWork
      BY <1>1 DEF NoWork
    <2>2. \A f \in WorkFields : NewWork[f] = "waiting"
      BY DEF NewWork
    <2> QED  BY <1>1, <2>1, <2>2, Names, FieldNames DEF DataInv, IsDone
  <1> QED  BY <1>3, <1>4 DEF RecoveryInv

\* The strengthening of the properties below that is inductive.
LEMMA RecoveryInductive == Spec => []RecoveryInv
  <1>1. LogProofs!IInv => LogProofs!OffIsEmpty
    BY DEF LogProofs!IInv
  <1>2. TypeOK /\ TypeOK' /\ LogProofs!OffIsEmpty /\ HandInv /\ RecoveryInv /\ [Next]_vars
            => RecoveryInv'
    BY RecoveryStep
  <1> QED
    BY <1>1, <1>2, RecoveryInit, TypeCorrect, HandsInductive, LogInductive, PTL DEF Spec

\* In the file, through every fault and restart, a post is announced once and before
\* its outcomes, and each of these is there once at most (state.rs:274-375).
THEOREM FileStaysWellFormed == Spec => []FileIsWellFormed
  <1>1. RecoveryInv => FileIsWellFormed
    BY DEF RecoveryInv, FileInv, Ordered, FileIsWellFormed
  <1> QED  BY <1>1, RecoveryInductive, PTL

\* What the loops believe is what a restart would believe (reddit.rs:468-474,
\* state.rs:276-358, 614-619).
THEOREM RestartsKeepTheMemory == Spec => []MemoryIsRecoverable
  <1>1. RecoveryInv => MemoryIsRecoverable
    BY DEF RecoveryInv, FileInv, Live, Knows, KnowsOf, Has, MemoryIsRecoverable, IsReported
  <1> QED  BY <1>1, RecoveryInductive, PTL

\* An outcome that is missing has somebody who will provide it, but for the three
\* exceptions of NothingStranded (state.rs:280-299, 318-329, comment.rs:36).
THEOREM NobodyIsStranded == Spec => []NothingStranded
  BY RecoveryInductive, PTL DEF RecoveryInv

\* While the process lives, only comment_loop takes an outcome back (comment.rs:36).
THEOREM OutcomesStay == Spec => OutcomesAreFinal
  <1>1. ASSUME TypeOK, HandInv, RecoveryInv, [Next]_vars, phase = "running", phase' = "running",
               NEW p \in Posts, NEW f \in ResultFields, IsDone(data[p][f])
        PROVE  \/ data'[p][f] = data[p][f]
               \/ f = "outline_com" /\ p \in queue["comment"] \ queue'["comment"]
    <2> USE <1>1
    <2>1. CASE Start \/ ReplayLine \/ StartLoops
      BY <2>1 DEF Start, ReplayLine, StartLoops
    <2>2. CASE Stops
      BY <2>2 DEF Stops, ReplayFails, Exit, Kill, PowerLoss, Down
    <2>3. CASE Quiet \/ WriterStep \/ WriterFails
      BY <2>3 DEF Quiet, WriterStep, WriterFails, workVars
    <2>4. ASSUME NEW q \in Posts, InsertNew(q) PROVE data' = data
      BY <2>4 DEF InsertNew, NotSeen, RecoveryInv, DataInv, TypeOK
    <2>5. ASSUME NEW l \in Workers, NEW q \in Posts, PollSkip(l, q) PROVE data' = data
      BY <2>5 DEF PollSkip
    <2>6. ASSUME NEW q \in Posts, PollTake("comment", q)
          PROVE  \/ data'[p][f] = data[p][f]
                 \/ f = "outline_com" /\ p \in queue["comment"] \ queue'["comment"]
      <3>1. /\ data' = [data EXCEPT ![q]["outline_com"] = "processing"]
            /\ q \in queue["comment"] /\ queue' = [queue EXCEPT !["comment"] = @ \ {q}]
        BY <2>6 DEF PollTake, Pop, MarkedField
      <3> QED  BY <3>1, Names DEF TypeOK
    <2>7. ASSUME NEW l \in SubmitLoops, NEW q \in Posts, PollTake(l, q)
          PROVE  data'[p][f] = data[p][f]
      <3>1. data' = [data EXCEPT ![q][l] = "processing"] /\ ~IsDone(data[q][l])
        BY <2>7, Names DEF PollTake, Skips, MarkedField
      <3> QED  BY <3>1, Names DEF TypeOK
    <2>8. ASSUME NEW l \in SubmitLoops, NEW o \in {"success", "failure"}, Submitted(l, o)
          PROVE  data'[p][f] = data[p][f]
      <3>1. Ends(l, current[l], o)
        BY <2>8, SubmittedEnds
      <3> QED  BY <3>1, Names DEF Ends
    <2> QED  BY <2>1, <2>2, <2>3, <2>4, <2>5, <2>6, <2>7, <2>8, Steps DEF Workers
  <1>2. TypeOK /\ HandInv /\ RecoveryInv /\ [Next]_vars =>
            [phase = "running" /\ phase' = "running" =>
                \A p \in Posts : \A f \in ResultFields :
                    IsDone(data[p][f]) =>
                        \/ data'[p][f] = data[p][f]
                        \/ f = "outline_com" /\ p \in queue["comment"] \ queue'["comment"]]_vars
    BY <1>1
  <1> QED  BY <1>2, RecoveryInductive, TypeCorrect, HandsInductive, PTL DEF Spec, OutcomesAreFinal

\* Whatever happened before, a submission whose outcome is in the file is not begun
\* again (state.rs:580-585, 614-619).
THEOREM NothingSubmittedAgain == Spec => NotSubmittedAgain
  <1>1. ASSUME TypeOK, HandInv, RecoveryInv, [Next]_vars,
               NEW l \in SubmitLoops \ {"outline_com"}, pc'[l] = "submit", pc[l] # "submit",
               NEW i \in 1..Len(lines)
        PROVE  ~(lines[i].field = l /\ lines[i].post = current'[l])
    <2> USE <1>1
    <2>1. CASE Quiet
      BY <2>1 DEF Quiet
    <2>2. CASE Start \/ ReplayLine \/ StartLoops \/ WriterStep \/ WriterFails
      BY <2>2 DEF Start, ReplayLine, StartLoops, WriterStep, WriterFails, taskVars
    <2>3. CASE Stops
      BY <2>3, Names DEF Stops, ReplayFails, Exit, Kill, PowerLoss, Down, FirstStates
    <2>4. ASSUME NEW q \in Posts, InsertNew(q) PROVE FALSE
      BY <2>4, Names DEF InsertNew, EndOfListing, Go, TypeOK
    <2>5. ASSUME NEW m \in Workers, NEW q \in Posts, PollSkip(m, q) PROVE FALSE
      BY <2>5, Names DEF PollSkip, Again, Go, TypeOK
    <2>6. ASSUME NEW q \in Posts, PollTake("comment", q) PROVE FALSE
      BY <2>6, Names DEF PollTake, Go, TypeOK
    <2>7. ASSUME NEW m \in SubmitLoops, NEW q \in Posts, PollTake(m, q), phase = "running"
          PROVE  ~(lines[i].field = l /\ lines[i].post = current'[l])
      <3>1. /\ pc' = [pc EXCEPT ![m] = "submit"] /\ current' = [current EXCEPT ![m] = q]
            /\ ~IsDone(data[q][m])
        BY <2>7, Names DEF PollTake, Skips, Go
      <3>2. m = l /\ current'[l] = q
        BY <3>1, Names DEF TypeOK
      <3>3. lines[i] \in Change
        BY SeqTypes
      <3>4. lines[i].field \notin {"new", "outline_com"} =>
                data[lines[i].post][lines[i].field] = lines[i].outcome
        BY <2>7 DEF RecoveryInv, LinesKnown
      <3>5. l # "new"
        BY Names, FieldNames
      <3> QED  BY <3>1, <3>2, <3>3, <3>4, <3>5, ChangeParts DEF IsDone
    <2>8. ASSUME NEW m \in SubmitLoops, NEW o \in {"success", "failure"}, Submitted(m, o) PROVE FALSE
      BY <2>8, Names DEF Submitted, Go, TypeOK
    <2> QED  BY <2>1, <2>2, <2>3, <2>4, <2>5, <2>6, <2>7, <2>8, Steps DEF Workers
  <1>2. TypeOK /\ HandInv /\ RecoveryInv /\ [Next]_vars =>
            [\A l \in SubmitLoops \ {"outline_com"} :
                pc'[l] = "submit" /\ pc[l] # "submit" =>
                    \A i \in 1..Len(lines) :
                        ~(lines[i].field = l /\ lines[i].post = current'[l])]_vars
    BY <1>1
  <1> QED  BY <1>2, RecoveryInductive, TypeCorrect, HandsInductive, PTL DEF Spec, NotSubmittedAgain

============================================================================
