----------------------------- MODULE LocksProofs -----------------------------
(***************************************************************************)
(* That the loops of Locks never wait for each other in a circle, for any  *)
(* set of posts and any choice of archives.  The locks can be numbered so  *)
(* that whoever waits for one has only smaller ones; in a circle of        *)
(* waiting loops, the one that waits for the greatest lock would have to   *)
(* wait for a greater one.                                                 *)
(***************************************************************************)
EXTENDS Locks, SequenceTheorems, FiniteSetTheorems, TLAPS

\* collect_loop alone goes through CollectOrder, and is not past its end.
CollectInv ==
    /\ \A l \in Loops : pc[l] \in {"lock", "announce"} => l = "collect"
    /\ pc["collect"] = "lock" => taken < 5
    /\ pc["collect"] = "announce" => listing > 0

IInv == TypeOK /\ CollectInv

LEMMA LoopNames == "collect" \in Loops /\ "changelog" \in Loops /\ "screenshot" \in Loops
BY DEF Loops, Workers, Submitters

LEMMA CountPosts == Cardinality(Posts) \in Nat
BY PostsAssumption, FS_CardinalityType

LEMMA WithoutType ==
    ASSUME NEW s \in Seq(Loops), NEW l
    PROVE  Without(l, s) \in Seq(Loops)
<1>1. CASE \E i \in 1..Len(s) : s[i] = l
  <2> DEFINE at == CHOOSE i \in 1..Len(s) : s[i] = l
  <2>1. at \in 1..Len(s)
    BY <1>1
  <2>2. SubSeq(s, 1, at - 1) \in Seq(Loops) /\ SubSeq(s, at + 1, Len(s)) \in Seq(Loops)
    <3>1. Len(s) \in Nat /\ at \in Int /\ 1 <= at /\ at <= Len(s)
      BY <2>1, LenProperties
    <3>2. \A m \in 1..Len(s) : s[m] \in Loops
      BY ElementOfSeq
    <3> HIDE DEF at
    <3>3. \A m, n \in Int : 1 <= m /\ n <= Len(s) => SubSeq(s, m, n) \in Seq(Loops)
      <4> SUFFICES ASSUME NEW m \in Int, NEW n \in Int, 1 <= m, n <= Len(s)
                   PROVE  SubSeq(s, m, n) \in Seq(Loops)
        OBVIOUS
      <4>1. \A i \in m..n : i \in 1..Len(s)
        BY <3>1
      <4>2. \A i \in m..n : s[i] \in Loops
        BY <4>1, <3>2
      <4>. QED
        BY <4>2, SubSeqProperties, Zenon
    <3>4. at - 1 \in Int /\ at + 1 \in Int /\ at - 1 <= Len(s) /\ 1 <= at + 1 /\ Len(s) \in Int
      BY <3>1
    <3>. QED
      BY <3>1, <3>3, <3>4
  <2>3. SubSeq(s, 1, at - 1) \o SubSeq(s, at + 1, Len(s)) \in Seq(Loops)
    BY <2>2, ConcatProperties
  <2>. QED
    BY <1>1, <2>3 DEF Without
<1>2. CASE ~ \E i \in 1..Len(s) : s[i] = l
  BY <1>2 DEF Without
<1>. QED
  BY <1>1, <1>2

\* A loop moves to a place that suits it.
LEMMA MoveType ==
    ASSUME IInv, NEW l \in Loops, NEW where \in Waits \cup Busy,
           NEW p \in Posts \cup {NoPost}, NEW n \in 0..5,
           Move(l, where, p, n)
    PROVE  /\ pc' \in [Loops -> Waits \cup Busy]
           /\ work' \in [Loops -> Posts \cup {NoPost}]
           /\ taken' \in 0..5
           /\ line' \in [Locks -> Seq(Loops)]
           /\ \A m \in Loops : pc'[m] = IF m = l THEN where ELSE pc[m]
           /\ taken' = n
<1> DEFINE wanted == WantedAt(l, where, p, n)
<1>1. \A k \in Locks : Without(l, line[k]) \in Seq(Loops)
  BY WithoutType DEF IInv, TypeOK
<1>2. \A k \in Locks : Append(Without(l, line[k]), l) \in Seq(Loops)
  BY <1>1, AppendProperties
<1>3. line' \in [Locks -> Seq(Loops)]
  BY <1>1, <1>2 DEF Move, LinesAfter
<1>4. pc' = [pc EXCEPT ![l] = where] /\ work' = [work EXCEPT ![l] = p] /\ taken' = n
  BY DEF Move
<1>. QED
  BY <1>3, <1>4 DEF IInv, TypeOK

\* The invariant survives a step of a loop that stays out of CollectOrder.
LEMMA OutsideStep ==
    ASSUME IInv, NEW l \in Loops, NEW where \in Waits \cup Busy,
           NEW p \in Posts \cup {NoPost}, NEW n \in 0..5,
           where \notin {"lock", "announce"}, l = "collect" \/ n = taken,
           Move(l, where, p, n),
           listing' \in 0..Cardinality(Posts), l = "collect" \/ listing' = listing,
           cancelled' \in BOOLEAN
    PROVE  IInv'
<1>1. /\ pc' \in [Loops -> Waits \cup Busy]
      /\ work' \in [Loops -> Posts \cup {NoPost}]
      /\ taken' \in 0..5
      /\ line' \in [Locks -> Seq(Loops)]
      /\ \A m \in Loops : pc'[m] = IF m = l THEN where ELSE pc[m]
      /\ taken' = n
  BY MoveType
<1>2. CollectInv'
  BY <1>1, LoopNames DEF IInv, CollectInv
<1>. QED
  BY <1>1, <1>2 DEF IInv, TypeOK, CollectOrder

LEMMA InitInv == Init => IInv
<1> SUFFICES ASSUME Init PROVE IInv
  OBVIOUS
<1>1. line \in [Locks -> Seq(Loops)]
  <2>1. <<"changelog">> \in Seq(Loops) /\ <<>> \in Seq(Loops)
    BY LoopNames
  <2>. QED
    BY <2>1 DEF Init
<1>2. 0 \in 0..Cardinality(Posts)
  BY CountPosts
<1>3. pc \in [Loops -> Waits \cup Busy]
  BY DEF Init, Waits, Busy
<1>4. CollectInv
  BY LoopNames DEF Init, CollectInv
<1>5. work \in [Loops -> Posts \cup {NoPost}]
  BY DEF Init
<1>6. 0 \in 0..Len(CollectOrder)
  BY DEF CollectOrder
<1>7. TypeOK
  BY <1>1, <1>2, <1>3, <1>5, <1>6 DEF Init, TypeOK
<1>. QED
  BY <1>4, <1>7 DEF IInv

\* A step that keeps post and locks, or leaves them, without entering CollectOrder.
LEMMA GoStep ==
    ASSUME IInv, NEW l \in Loops, NEW where \in Waits \cup Busy,
           where \notin {"lock", "announce"},
           Go(l, where) \/ Leave(l, where),
           listing' \in 0..Cardinality(Posts), l = "collect" \/ listing' = listing,
           cancelled' \in BOOLEAN
    PROVE  IInv'
<1>1. taken \in 0..5 /\ work[l] \in Posts \cup {NoPost}
  BY DEF IInv, TypeOK, CollectOrder
<1>2. CASE Go(l, where)
  BY <1>1, <1>2, OutsideStep DEF Go
<1>3. CASE Leave(l, where)
  <2> DEFINE n == IF l = "collect" THEN 0 ELSE taken
  <2>1. n \in 0..5 /\ (l = "collect" \/ n = taken)
    BY <1>1
  <2>2. Move(l, where, NoPost, n)
    BY <1>3 DEF Leave
  <2> HIDE DEF n
  <2>. QED
    BY <2>1, <2>2, OutsideStep
<1>. QED
  BY <1>2, <1>3

LEMMA WorkerStep ==
    ASSUME IInv, NEW l \in Loops,
           \/ Poll(l) \/ PopNothing(l) \/ (\E p \in Posts : PopPost(l, p))
           \/ Skip(l) \/ Mark(l) \/ Submitted(l) \/ Report(l)
           \/ Log(l, "enqueue") \/ Log(l, "idle") \/ Enqueue(l)
    PROVE  IInv'
<1>0. listing \in 0..Cardinality(Posts) /\ cancelled \in BOOLEAN
  BY DEF IInv, TypeOK
<1>1. CASE Poll(l)
  BY <1>0, <1>1, GoStep DEF Poll, Waits
<1>2. CASE PopNothing(l)
  BY <1>0, <1>2, GoStep DEF PopNothing, Busy
<1>3. CASE \E p \in Posts : PopPost(l, p)
  <2>1. PICK p \in Posts : PopPost(l, p)
    BY <1>3
  <2>2. Move(l, "mark", p, taken) /\ listing' = listing /\ cancelled' = cancelled
    BY <2>1 DEF PopPost
  <2>3. taken \in 0..5 /\ "mark" \in Waits \cup Busy
    BY DEF IInv, TypeOK, CollectOrder, Waits
  <2>. QED
    BY <1>0, <2>2, <2>3, OutsideStep
<1>4. CASE Skip(l)
  <2>1. Leave(l, "done") \/ Leave(l, "pop")
    BY <1>4 DEF Skip
  <2>2. "done" \in Waits \cup Busy /\ "pop" \in Waits \cup Busy
    BY DEF Waits, Busy
  <2>3. listing' = listing /\ cancelled' = cancelled
    BY <1>4 DEF Skip
  <2>. QED
    BY <1>0, <2>1, <2>2, <2>3, GoStep
<1>5. CASE Mark(l)
  <2>1. Leave(l, "idle") \/ Go(l, "submit")
    BY <1>5 DEF Mark
  <2>2. "idle" \in Waits \cup Busy /\ "submit" \in Waits \cup Busy
    BY DEF Waits, Busy
  <2>3. listing' = listing /\ cancelled' = cancelled
    BY <1>5 DEF Mark
  <2>. QED
    BY <1>0, <2>1, <2>2, <2>3, GoStep
<1>6. CASE Submitted(l)
  BY <1>0, <1>6, GoStep DEF Submitted, Waits
<1>7. CASE Report(l)
  BY <1>0, <1>7, GoStep DEF Report, Waits
<1>8. CASE Log(l, "enqueue")
  BY <1>0, <1>8, GoStep DEF Log, Waits
<1>9. CASE Log(l, "idle")
  BY <1>0, <1>9, GoStep DEF Log, Busy
<1>10. CASE Enqueue(l)
  BY <1>0, <1>10, GoStep DEF Enqueue, Busy
<1>. QED
  BY <1>1, <1>2, <1>3, <1>4, <1>5, <1>6, <1>7, <1>8, <1>9, <1>10

LEMMA TokenStep ==
    ASSUME IInv, NEW l \in Loops,
           \/ Request(l) \/ TokenUsable(l) \/ TokenExpired(l) \/ Renewed(l)
           \/ LogToken(l) \/ RenewFails(l) \/ TimeOut(l) \/ GiveUp(l)
    PROVE  IInv'
<1>0. listing \in 0..Cardinality(Posts) /\ cancelled \in BOOLEAN
  BY DEF IInv, TypeOK
<1>1. CASE Request(l)
  BY <1>0, <1>1, GoStep DEF Request, Waits
<1>2. CASE TokenUsable(l)
  BY <1>0, <1>2, GoStep DEF TokenUsable, AfterLogin, Busy
<1>3. CASE TokenExpired(l)
  BY <1>0, <1>3, GoStep DEF TokenExpired, Busy
<1>4. CASE Renewed(l)
  BY <1>0, <1>4, GoStep DEF Renewed, Waits
<1>5. CASE LogToken(l)
  BY <1>0, <1>5, GoStep DEF LogToken, AfterLogin, Busy
<1>6. CASE RenewFails(l)
  BY <1>0, <1>6, GoStep DEF RenewFails, AfterGivingUp, Busy, Waits
<1>7. CASE TimeOut(l)
  BY <1>0, <1>7, GoStep DEF TimeOut, Waits
<1>8. CASE GiveUp(l)
  BY <1>0, <1>8, GoStep DEF GiveUp, Busy
<1>. QED
  BY <1>1, <1>2, <1>3, <1>4, <1>5, <1>6, <1>7, <1>8

\* collect_loop goes through CollectOrder.
LEMMA CollectStep ==
    ASSUME IInv,
           \/ FetchedNothing \/ (\E n \in 0..Cardinality(Posts) : Fetched(n))
           \/ LockNext \/ Announce
    PROVE  IInv'
<1>0. /\ listing \in 0..Cardinality(Posts) /\ cancelled \in BOOLEAN /\ taken \in 0..5
      /\ {"lock", "announce", "idle"} \subseteq Waits \cup Busy
      /\ NoPost \in Posts \cup {NoPost}
  BY DEF IInv, TypeOK, CollectOrder, Waits, Busy
<1>1. CASE FetchedNothing
  BY <1>0, <1>1, GoStep, LoopNames DEF FetchedNothing
<1>2. CASE \E n \in 0..Cardinality(Posts) : Fetched(n)
  <2>1. PICK n \in 0..Cardinality(Posts) : Fetched(n)
    BY <1>2
  <2>2. Move("collect", "lock", NoPost, 0) /\ listing' = n /\ cancelled' = cancelled
    BY <2>1 DEF Fetched
  <2>. QED
    BY <1>0, <2>2, MoveType, LoopNames DEF IInv, TypeOK, CollectInv, CollectOrder
<1>3. CASE LockNext
  <2>1. pc["collect"] = "lock" /\ taken < 5 /\ taken + 1 \in 0..5
    BY <1>0, <1>3 DEF LockNext, IInv, CollectInv
  <2>2. listing' = listing /\ cancelled' = cancelled
    BY <1>3 DEF LockNext
  <2>3. CASE taken + 1 < 5
    <3>1. Move("collect", "lock", NoPost, taken + 1)
      BY <1>3, <2>3 DEF LockNext, CollectOrder
    <3>. QED
      BY <1>0, <2>1, <2>2, <2>3, <3>1, MoveType, LoopNames
      DEF IInv, TypeOK, CollectInv, CollectOrder
  <2>4. CASE ~(taken + 1 < 5) /\ listing > 0
    <3>1. Move("collect", "announce", NoPost, taken + 1)
      BY <1>3, <2>4 DEF LockNext, CollectOrder
    <3>. QED
      BY <1>0, <2>1, <2>2, <2>4, <3>1, MoveType, LoopNames
      DEF IInv, TypeOK, CollectInv, CollectOrder
  <2>5. CASE ~(taken + 1 < 5) /\ ~(listing > 0)
    <3>1. Leave("collect", "idle")
      BY <1>3, <2>5 DEF LockNext, CollectOrder
    <3>. QED
      BY <1>0, <2>2, <3>1, GoStep, LoopNames
  <2>. QED
    BY <2>3, <2>4, <2>5
<1>4. CASE Announce
  <2>1. pc["collect"] = "announce" /\ listing > 0 /\ listing' = listing - 1
        /\ cancelled' = cancelled
    BY <1>4 DEF Announce, IInv, CollectInv
  <2>2. listing' \in 0..Cardinality(Posts)
    BY <1>0, <2>1, CountPosts
  <2>3. CASE listing > 1
    <3>1. Move("collect", "announce", work["collect"], taken)
      BY <1>4, <2>3 DEF Announce, Go
    <3>2. work["collect"] \in Posts \cup {NoPost}
      BY LoopNames DEF IInv, TypeOK
    <3>. QED
      BY <1>0, <2>1, <2>2, <2>3, <3>1, <3>2, MoveType, LoopNames
      DEF IInv, TypeOK, CollectInv, CollectOrder
  <2>4. CASE ~(listing > 1)
    <3>1. Leave("collect", "idle")
      BY <1>4, <2>4 DEF Announce
    <3>. QED
      BY <1>0, <2>1, <2>2, <3>1, GoStep, LoopNames
  <2>. QED
    BY <2>3, <2>4
<1>. QED
  BY <1>1, <1>2, <1>3, <1>4

LEMMA WriterStep ==
    ASSUME IInv, BeginCommit \/ TakeChanges \/ Drained \/ Synced \/ Notified
    PROVE  IInv'
<1>0. listing \in 0..Cardinality(Posts) /\ cancelled \in BOOLEAN
  BY DEF IInv, TypeOK
<1>. QED
  BY <1>0, GoStep, LoopNames DEF BeginCommit, TakeChanges, Drained, Synced, Notified, Waits, Busy

LEMMA NextInv == IInv /\ [Next]_vars => IInv'
<1> SUFFICES ASSUME IInv, [Next]_vars PROVE IInv'
  OBVIOUS
<1>1. CASE Cancel
  BY <1>1 DEF Cancel, IInv, TypeOK, CollectInv
<1>2. CASE \E l \in Loops : LockStep(l) \/ TimedStep(l) \/ OuterStep(l) \/ GiveUp(l)
  BY <1>2, WorkerStep, TokenStep, CollectStep, WriterStep
  DEF LockStep, TimedStep, OuterStep
<1>3. CASE UNCHANGED vars
  BY <1>3 DEF vars, IInv, TypeOK, CollectInv
<1>. QED
  BY <1>1, <1>2, <1>3 DEF Next

LEMMA Invariance == Spec => []IInv
BY InitInv, NextInv, PTL DEF Spec

\* The places, posts, locks and lines stay what they are declared to be: nobody goes
\* past the last lock of collect_loop's order or its last new post.
THEOREM TypeCorrect == Spec => []TypeOK
<1>1. IInv => TypeOK
  BY DEF IInv
<1>. QED
  BY <1>1, Invariance, PTL

----------------------------------------------------------------------------
(* The order of the locks *)

\* The order in which the loops take the locks, collect_loop's first.
Rank(k) ==
    CASE k = Seen -> 1
      [] k = Inner("screenshot") -> 2
      [] k = Inner("outline_com") -> 3
      [] k = Inner("wikiwix") -> 4
      [] k = Inner("google_cache") -> 5
      [] k = Inner("comment") -> 6
      [] k \in {Data(p) : p \in Posts \cup {NoPost}} -> 7
      [] k = Token -> 8
      [] k = Changelog -> 9
      [] k = Uncommitted -> 10
      [] OTHER -> 0

LEMMA Names ==
    /\ \A p, q : Inner(q)[1] = "inner" /\ Inner(q)[2] = q /\ Data(p)[1] = "data"
    /\ Seen[1] = "seen_posts" /\ Token[1] = "reddit_token" /\ Changelog[1] = "changelog"
    /\ Uncommitted[1] = "uncommitted_changes" /\ NoLock[1] = "none"
BY DEF Inner, Data, Seen, Token, Changelog, Uncommitted, NoLock

LEMMA Ranks ==
    /\ Rank(Seen) = 1
    /\ Rank(Inner("screenshot")) = 2
    /\ Rank(Inner("outline_com")) = 3
    /\ Rank(Inner("wikiwix")) = 4
    /\ Rank(Inner("google_cache")) = 5
    /\ Rank(Inner("comment")) = 6
    /\ \A q : Rank(Inner(q)) < 7
    /\ \A p \in Posts \cup {NoPost} : Rank(Data(p)) = 7
    /\ Rank(Token) = 8
    /\ Rank(Changelog) = 9
    /\ Rank(Uncommitted) = 10
<1> DEFINE datas == {Data(p) : p \in Posts \cup {NoPost}}
<1>1. \A k \in datas : k[1] = "data"
  BY Names
<1>2. /\ Inner("screenshot") # Inner("outline_com") /\ Inner("screenshot") # Inner("wikiwix")
      /\ Inner("screenshot") # Inner("google_cache") /\ Inner("screenshot") # Inner("comment")
      /\ Inner("outline_com") # Inner("wikiwix") /\ Inner("outline_com") # Inner("google_cache")
      /\ Inner("outline_com") # Inner("comment") /\ Inner("wikiwix") # Inner("google_cache")
      /\ Inner("wikiwix") # Inner("comment") /\ Inner("google_cache") # Inner("comment")
  BY DEF Inner
<1>3. \A q : /\ Inner(q) \notin datas /\ Inner(q) # Seen /\ Inner(q) # Token
             /\ Inner(q) # Changelog /\ Inner(q) # Uncommitted
  BY <1>1, Names
<1>4. /\ Seen # Token /\ Seen # Changelog /\ Seen # Uncommitted /\ Token # Changelog
      /\ Token # Uncommitted /\ Changelog # Uncommitted
      /\ {Seen, Token, Changelog, Uncommitted} \cap datas = {}
  BY <1>1, Names
<1> HIDE DEF datas
<1>5. \A k : Rank(k) =
         CASE k = Seen -> 1
           [] k = Inner("screenshot") -> 2
           [] k = Inner("outline_com") -> 3
           [] k = Inner("wikiwix") -> 4
           [] k = Inner("google_cache") -> 5
           [] k = Inner("comment") -> 6
           [] k \in datas -> 7
           [] k = Token -> 8
           [] k = Changelog -> 9
           [] k = Uncommitted -> 10
           [] OTHER -> 0
  BY DEF Rank, datas
<1>6. \A p \in Posts \cup {NoPost} : Data(p) \in datas
  BY DEF datas
<1>7. \A k \in datas : Rank(k) = 7
  BY <1>3, <1>4, <1>5
<1>8. \A q : Rank(Inner(q)) < 7
  BY <1>3, <1>5
<1>. QED
  BY <1>2, <1>3, <1>4, <1>5, <1>6, <1>7, <1>8

\* The order of collect_loop is that of the ranks.
LEMMA CollectRanks == \A i \in 1..5 : Rank(CollectOrder[i]) = i
<1>1. SUFFICES ASSUME NEW i \in 1..5 PROVE Rank(CollectOrder[i]) = i
  OBVIOUS
<1>2. i = 1 \/ i = 2 \/ i = 3 \/ i = 4 \/ i = 5
  OBVIOUS
<1>. QED
  BY <1>2, Ranks DEF CollectOrder

\* A loop that waits for a lock has only those before it.
LEMMA Ordered ==
    ASSUME IInv, NEW l \in Loops, NEW h \in Held(l), Wanted(l) # NoLock
    PROVE  Rank(h) < Rank(Wanted(l)) /\ Rank(Wanted(l)) \in 1..10
<1>0. taken \in 0..5 /\ work[l] \in Posts \cup {NoPost} /\ pc[l] \in Waits \cup Busy
  BY DEF IInv, TypeOK, CollectOrder
<1>1. CASE pc[l] = "mark"
  <2>1. h = Inner(l) /\ Wanted(l) = Data(work[l])
    BY <1>1 DEF Held, Wanted, WantedAt
  <2>. QED
    BY <1>0, <2>1, Ranks
<1>2. CASE pc[l] = "log"
  <2>1. h = Data(work[l]) /\ Wanted(l) = Uncommitted
    BY <1>2 DEF Held, Wanted, WantedAt
  <2>. QED
    BY <1>0, <2>1, Ranks
<1>3. CASE pc[l] = "logtoken"
  <2>1. h = Token /\ Wanted(l) = Uncommitted
    BY <1>3 DEF Held, Wanted, WantedAt
  <2>. QED
    BY <2>1, Ranks
<1>4. CASE pc[l] = "lock"
  <2>1. taken + 1 \in 1..5
    BY <1>0, <1>4 DEF IInv, CollectInv
  <2>2. Wanted(l) = CollectOrder[taken + 1]
    BY <1>4 DEF Wanted, WantedAt
  <2>3. PICK i \in 1..taken : h = CollectOrder[i]
    BY <1>4 DEF Held
  <2>. QED
    BY <1>0, <2>1, <2>2, <2>3, CollectRanks
<1>5. CASE pc[l] = "announce"
  <2>1. Wanted(l) = Uncommitted
    BY <1>5 DEF Wanted, WantedAt
  <2>2. PICK i \in 1..taken : h = CollectOrder[i]
    BY <1>5 DEF Held
  <2>. QED
    BY <1>0, <2>1, <2>2, CollectRanks, Ranks
<1>6. CASE pc[l] = "send"
  <2>1. h = Changelog /\ Wanted(l) = Uncommitted
    BY <1>6 DEF Held, Wanted, WantedAt
  <2>. QED
    BY <2>1, Ranks
<1>7. CASE pc[l] \in {"renew", "sync", "drain"}
  BY <1>7 DEF Wanted, WantedAt
<1>. QED
  BY <1>1, <1>2, <1>3, <1>4, <1>5, <1>6, <1>7 DEF Held

LEMMA NoLockIsHeld == ASSUME IInv, NEW l \in Loops PROVE NoLock \notin Held(l)
<1>1. \A i \in 1..5 : CollectOrder[i] # NoLock
  <2> SUFFICES ASSUME NEW i \in 1..5 PROVE CollectOrder[i] # NoLock
    OBVIOUS
  <2>1. i = 1 \/ i = 2 \/ i = 3 \/ i = 4 \/ i = 5
    OBVIOUS
  <2>. QED
    BY <2>1, Names DEF CollectOrder
<1>2. taken \in 0..5
  BY DEF IInv, TypeOK, CollectOrder
<1>3. NoLock \notin {CollectOrder[i] : i \in 1..taken}
  BY <1>1, <1>2
<1>4. Inner(l) # NoLock /\ Data(work[l]) # NoLock
      /\ NoLock \notin {Token, Changelog, Uncommitted}
  BY Names
<1>. QED
  BY <1>3, <1>4 DEF Held

\* Among ranks there is a greatest one.
LEMMA NoGreatest ==
    ASSUME NEW S \in SUBSET (1..10), \A r \in S : \E s \in S : r < s
    PROVE  S = {}
<1>1. 10 \notin S
  OBVIOUS
<1>2. 9 \notin S
  BY <1>1
<1>3. 8 \notin S
  BY <1>1, <1>2
<1>4. 7 \notin S
  BY <1>1, <1>2, <1>3
<1>5. 6 \notin S
  BY <1>1, <1>2, <1>3, <1>4
<1>6. \A n \in S : n < 6
  BY <1>1, <1>2, <1>3, <1>4, <1>5
<1>7. 5 \notin S /\ 4 \notin S
  BY <1>6
<1>8. 3 \notin S /\ 2 \notin S
  BY <1>6, <1>7
<1>. QED
  BY <1>6, <1>7, <1>8

LEMMA InvNoDeadlock == IInv => NoDeadlock
<1> SUFFICES ASSUME IInv, NEW group \in SUBSET Loops, group # {},
                    \A l \in group : \E m \in group : WaitsFor(l, m)
             PROVE  FALSE
  BY DEF NoDeadlock
<1>1. \A l \in group : \E m \in group : /\ Rank(Wanted(l)) < Rank(Wanted(m))
                                       /\ Rank(Wanted(m)) \in 1..10
  <2> TAKE l \in group
  <2>1. PICK m \in group : Wanted(l) \in Held(m)
    BY DEF WaitsFor
  <2>2. PICK n \in group : Wanted(m) \in Held(n)
    BY DEF WaitsFor
  <2>3. Wanted(m) # NoLock
    BY <2>2, NoLockIsHeld
  <2>. QED
    BY <2>1, <2>3, Ordered
<1> DEFINE ranks == {Rank(Wanted(l)) : l \in {m \in group : Rank(Wanted(m)) \in 1..10}}
<1>2. ranks # {} /\ ranks \subseteq 1..10
  BY <1>1
<1>3. \A r \in ranks : \E s \in ranks : r < s
  BY <1>1
<1>. QED
  BY <1>2, <1>3, NoGreatest

\* No loops wait for each other in a circle, however many posts there are and whichever
\* loops run: the locks are taken in one order (reddit.rs:457-461, state.rs:571-604,
\* state.rs:362-370, reddit.rs:101-104).
THEOREM DeadlockFree == Spec => []NoDeadlock
BY Invariance, InvNoDeadlock, PTL

============================================================================
