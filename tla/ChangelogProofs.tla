-------------------------- MODULE ChangelogProofs --------------------------
(***************************************************************************)
(* Theorems about Changelog.tla, for every set of changes and of batches.  *)
(***************************************************************************)
EXTENDS Changelog, SequenceTheorems, TLAPS

\* The queue is never longer than its permit admits: between the moment the queue
\* is found empty and the wait, a change that arrives leaves a permit behind
\* (state.rs:258-269, 394-400).
PermitOrEmpty == writer \in {"sync", "select"} /\ ~logPermit => uncommitted = <<>>

\* The wait begins when everything that was sent has been synced (state.rs:379).
WaitIsSynced == writer = "select" => synced = Len(lines)

\* A process begins with an empty queue (state.rs:207-223).
OffIsEmpty == writer = "off" => uncommitted = <<>>

IInv == TypeOK /\ PermitOrEmpty /\ WaitIsSynced /\ OffIsEmpty

----------------------------------------------------------------------------
\* What the end of the file is cut to keeps the type of the file variables.
LEMMA GarbleType ==
    ASSUME TypeOK, Garble
    PROVE  lines' \in Seq(Change) /\ tail' = "garbled" /\ synced' \in 0..Len(lines')
  <1>1. Terminated \in 0..Len(lines) /\ DurablyTerminated \in 0..Terminated
    BY DEF TypeOK, Terminated, DurablyTerminated
  <1> QED  BY <1>1 DEF TypeOK, Garble

LEMMA ForgetType ==
    ASSUME Forget
    PROVE  /\ uncommitted' \in Seq(Change)
           /\ logPermit' \in BOOLEAN
           /\ writer' \in WriterStates
           /\ cancelled' \in BOOLEAN
  BY EmptySeq DEF Forget, WriterStates

\* The variables keep their types.
LEMMA TypeStep == TypeOK /\ [Next]_vars => TypeOK'
  <1> SUFFICES ASSUME TypeOK, [Next]_vars PROVE TypeOK'
    OBVIOUS
  <1> USE DEF WriterStates
  <1>1. CASE Open
    BY <1>1 DEF TypeOK, Open, fileVars, memoryVars
  <1>2. ASSUME NEW changes \in Batches, LogChanges(changes) PROVE TypeOK'
    BY <1>2, BatchesAssumption DEF TypeOK, LogChanges, fileVars
  <1>3. CASE Cancel
    BY <1>3 DEF TypeOK, Cancel, fileVars, memoryVars
  <1>4. CASE BeginCommit
    BY <1>4 DEF TypeOK, BeginCommit, fileVars, memoryVars
  <1>5. CASE SendLine
    <2>1. /\ Head(uncommitted) \in Change
          /\ uncommitted' \in Seq(Change)
      BY <1>5 DEF TypeOK, SendLine
    <2>2. CASE tail = "clean"
      BY <1>5, <2>1, <2>2 DEF TypeOK, SendLine, AppendLine
    <2>3. CASE tail # "clean"
      BY <1>5, <2>1, <2>3, GarbleType DEF TypeOK, SendLine, AppendLine, Tails
    <2> QED  BY <2>2, <2>3
  <1>6. CASE EndSend
    BY <1>6 DEF TypeOK, EndSend, fileVars, memoryVars
  <1>7. CASE Sync
    BY <1>7 DEF TypeOK, Sync, memoryVars
  <1>8. CASE SelectNotified
    BY <1>8 DEF TypeOK, SelectNotified, fileVars
  <1>9. CASE SelectCancelled
    BY <1>9 DEF TypeOK, SelectCancelled, Finish, fileVars, memoryVars
  <1>10. CASE SendFails
    <2>1. /\ Head(uncommitted) \in Change
          /\ uncommitted' \in Seq(Change)
          /\ logPermit' \in BOOLEAN /\ writer' = "done" /\ cancelled' = TRUE
      BY <1>10 DEF TypeOK, SendFails, Finish
    <2>2. CASE UNCHANGED fileVars
      BY <2>1, <2>2 DEF TypeOK, fileVars
    <2>3. CASE Garble
      BY <2>1, <2>3, GarbleType DEF TypeOK, Tails
    <2>4. CASE tail' = "unterminated" /\ lines' = Append(lines, Head(uncommitted)) /\ UNCHANGED synced
      BY <2>1, <2>4 DEF TypeOK, Tails
    <2> QED  BY <1>10, <2>2, <2>3, <2>4 DEF SendFails, AppendTorn
  <1>11. CASE SyncFails
    BY <1>11 DEF TypeOK, SyncFails, Finish, fileVars, memoryVars
  <1>12. CASE Stop
    BY <1>12, ForgetType DEF TypeOK, Stop, fileVars
  <1>13. CASE PowerLoss
    <2>1. CASE synced' = Len(lines) /\ UNCHANGED <<lines, tail>>
      BY <1>13, <2>1, ForgetType DEF TypeOK, PowerLoss
    <2>2. ASSUME NEW n \in synced..(Len(lines) - 1),
                 lines' = SubSeq(lines, 1, n),
                 tail' \in {"clean", "garbled"},
                 synced' = n
          PROVE  TypeOK'
      BY <1>13, <2>2, ForgetType DEF TypeOK, PowerLoss, Tails
    <2>3. ASSUME NEW n \in synced..(Len(lines) - 1),
                 lines' = SubSeq(lines, 1, n + 1),
                 tail' = "unterminated",
                 synced' = n + 1
          PROVE  TypeOK'
      <3>1. n + 1 \in 1..Len(lines)
        BY DEF TypeOK
      <3>2. lines' \in Seq(Change) /\ Len(lines') = n + 1
        BY <2>3, <3>1, SubSeqProperties DEF TypeOK
      <3> QED  BY <1>13, <2>3, <3>1, <3>2, ForgetType DEF PowerLoss, TypeOK, Tails
    <2> QED  BY <1>13, <2>1, <2>2, <2>3 DEF PowerLoss
  <1>14. CASE UNCHANGED vars
    BY <1>14 DEF TypeOK, vars
  <1> QED
    BY <1>1, <1>2, <1>3, <1>4, <1>5, <1>6, <1>7, <1>8, <1>9, <1>10, <1>11, <1>12,
       <1>13, <1>14 DEF Next, WriterStep

LEMMA InitInv == Init => IInv
  <1>1. <<>> \in Seq(Change) /\ Len(<<>>) = 0
    BY EmptySeq
  <1>2. ASSUME Init PROVE TypeOK
    <2>1. lines \in Seq(Change) /\ uncommitted \in Seq(Change) /\ Len(lines) = 0
      BY <1>1, <1>2 DEF Init
    <2>2. synced \in 0..Len(lines)
      BY <2>1, <1>2 DEF Init
    <2> QED  BY <2>1, <2>2, <1>2 DEF Init, TypeOK, Tails, WriterStates
  <1>3. Init => PermitOrEmpty /\ WaitIsSynced /\ OffIsEmpty
    BY DEF Init, PermitOrEmpty, WaitIsSynced, OffIsEmpty
  <1> QED  BY <1>2, <1>3 DEF IInv

\* Type correctness of the file and its writer (state.rs:242-401).
THEOREM TypeCorrect == Spec => []TypeOK
  <1>1. Init => TypeOK
    BY InitInv DEF IInv
  <1> QED  BY <1>1, TypeStep, PTL DEF Spec

----------------------------------------------------------------------------
\* Only commit_changes and its sync bring the writer to the wait, and only with an
\* empty queue; what arrives in the meantime leaves a permit.
LEMMA PermitStep == IInv /\ [Next]_vars => (PermitOrEmpty /\ WaitIsSynced /\ OffIsEmpty)'
  <1> SUFFICES ASSUME IInv, [Next]_vars PROVE (PermitOrEmpty /\ WaitIsSynced /\ OffIsEmpty)'
    OBVIOUS
  <1> USE DEF IInv, PermitOrEmpty, WaitIsSynced, OffIsEmpty
  <1>1. CASE Open
    BY <1>1 DEF Open
  <1>2. ASSUME NEW changes \in Batches, LogChanges(changes)
        PROVE  (PermitOrEmpty /\ WaitIsSynced /\ OffIsEmpty)'
    BY <1>2 DEF LogChanges, fileVars
  <1>3. CASE Cancel \/ UNCHANGED vars
    BY <1>3 DEF Cancel, vars, fileVars, memoryVars
  <1>4. CASE BeginCommit \/ SendLine
    BY <1>4 DEF BeginCommit, SendLine
  <1>5. CASE EndSend
    BY <1>5 DEF EndSend, memoryVars
  <1>6. CASE Sync
    BY <1>6 DEF Sync, memoryVars
  <1>7. CASE SelectNotified
    BY <1>7 DEF SelectNotified
  <1>8. CASE SelectCancelled \/ SendFails \/ SyncFails
    BY <1>8 DEF SelectCancelled, SendFails, SyncFails, Finish
  <1>9. CASE Stop \/ PowerLoss
    BY <1>9 DEF Stop, PowerLoss, Forget
  <1> QED
    BY <1>1, <1>2, <1>3, <1>4, <1>5, <1>6, <1>7, <1>8, <1>9 DEF Next, WriterStep

LEMMA InvStep == IInv /\ [Next]_vars => IInv'
  BY TypeStep, PermitStep DEF IInv

\* The conjunction is inductive.
THEOREM Inductive == Spec => []IInv
  BY InitInv, InvStep, PTL DEF Spec

LEMMA InvIdle == IInv => IdleMeansDurable
  BY DEF IInv, PermitOrEmpty, WaitIsSynced, IdleMeansDurable

\* Whatever the order of reports, notifications and commits: when changelog_loop
\* waits without a permit, nothing is left in memory and the file is on the disk.
THEOREM IdleIsDurable == Spec => []IdleMeansDurable
  BY InvIdle, Inductive, PTL

----------------------------------------------------------------------------
(* The refinement *)

\* Prefixes of sequences.
LEMMA PrefixOfConcat ==
    ASSUME NEW S, NEW s \in Seq(S), NEW t \in Seq(S), NEW n \in 0..Len(s)
    PROVE  SubSeq(s \o t, 1, n) = SubSeq(s, 1, n)
  <1>1. /\ s \o t \in Seq(S)
        /\ n <= Len(s \o t)
        /\ \A i \in 1..n : (s \o t)[i] = s[i] /\ s[i] \in S
    BY ConcatProperties, LenProperties, ElementOfSeq
  <1>2. /\ SubSeq(s \o t, 1, n) \in Seq(S)
        /\ Len(SubSeq(s \o t, 1, n)) = n
        /\ \A i \in 1..n : SubSeq(s \o t, 1, n)[i] = s[i]
    BY <1>1, SubSeqProperties
  <1>3. /\ SubSeq(s, 1, n) \in Seq(S)
        /\ Len(SubSeq(s, 1, n)) = n
        /\ \A i \in 1..n : SubSeq(s, 1, n)[i] = s[i]
    BY <1>1, SubSeqProperties
  <1> QED  BY <1>2, <1>3, SeqEqual

LEMMA PrefixOfPrefix ==
    ASSUME NEW S, NEW s \in Seq(S), NEW m \in 0..Len(s), NEW n \in 0..m
    PROVE  SubSeq(SubSeq(s, 1, m), 1, n) = SubSeq(s, 1, n)
  <1>1. /\ SubSeq(s, 1, m) \in Seq(S)
        /\ Len(SubSeq(s, 1, m)) = m
        /\ \A i \in 1..m : SubSeq(s, 1, m)[i] = s[i] /\ s[i] \in S
    BY SubSeqProperties, ElementOfSeq
  <1>2. /\ SubSeq(SubSeq(s, 1, m), 1, n) \in Seq(S)
        /\ Len(SubSeq(SubSeq(s, 1, m), 1, n)) = n
        /\ \A i \in 1..n : SubSeq(SubSeq(s, 1, m), 1, n)[i] = s[i]
    BY <1>1, SubSeqProperties
  <1>3. /\ SubSeq(s, 1, n) \in Seq(S)
        /\ Len(SubSeq(s, 1, n)) = n
        /\ \A i \in 1..n : SubSeq(s, 1, n)[i] = s[i]
    BY <1>1, SubSeqProperties
  <1> QED  BY <1>2, <1>3, SeqEqual

\* The journal is a sequence of changes that contains the terminated lines, and
\* no more of them than there are can be durable.
LEMMA JournalType ==
    ASSUME TypeOK
    PROVE  /\ Pending \in Seq(Change)
           /\ Terminated \in 0..Len(lines)
           /\ DurablyTerminated \in 0..Terminated
           /\ SubSeq(lines, 1, Terminated) \in Seq(Change)
           /\ Len(SubSeq(lines, 1, Terminated)) = Terminated
           /\ Journalled \in Seq(Change)
           /\ Terminated <= Len(Journalled)
           /\ \A n \in 0..Terminated : SubSeq(Journalled, 1, n) = SubSeq(lines, 1, n)
  <1>1. Pending \in Seq(Change)
    BY EmptySeq DEF TypeOK, Pending
  <1>2. Terminated \in 0..Len(lines) /\ DurablyTerminated \in 0..Terminated
    BY DEF TypeOK, Terminated, DurablyTerminated
  <1>3. /\ SubSeq(lines, 1, Terminated) \in Seq(Change)
        /\ Len(SubSeq(lines, 1, Terminated)) = Terminated
    BY <1>2, SubSeqProperties, ElementOfSeq DEF TypeOK
  <1>4. Journalled \in Seq(Change) /\ Terminated <= Len(Journalled)
    BY <1>1, <1>2, <1>3, ConcatProperties, LenProperties DEF Journalled
  <1>5. ASSUME NEW n \in 0..Terminated
        PROVE  SubSeq(Journalled, 1, n) = SubSeq(lines, 1, n)
    <2>1. SubSeq(Journalled, 1, n) = SubSeq(SubSeq(lines, 1, Terminated), 1, n)
      BY <1>1, <1>3, PrefixOfConcat DEF Journalled
    <2>2. SubSeq(SubSeq(lines, 1, Terminated), 1, n) = SubSeq(lines, 1, n)
      BY <1>2, PrefixOfPrefix DEF TypeOK
    <2> QED  BY <2>1, <2>2
  <1> QED  BY <1>1, <1>2, <1>3, <1>4, <1>5

\* What cuts the journal at a line that is not durable yet is a loss.
LEMMA CutIsLoss ==
    ASSUME TypeOK,
           NEW n \in DurablyTerminated..Terminated,
           Journalled' = SubSeq(lines, 1, n),
           DurablyTerminated' \in {DurablyTerminated, n}
    PROVE  J!Lose
  <1>1. n \in 0..Terminated /\ n \in DurablyTerminated..Len(Journalled)
    BY JournalType, LenProperties
  <1>2. Journalled' = SubSeq(Journalled, 1, n)
    BY <1>1, JournalType
  <1> QED  BY <1>1, <1>2 DEF J!Lose

\* The writer is done: what is still in the queue is lost.
LEMMA FinishIsLoss ==
    ASSUME TypeOK, writer' = "done",
           SubSeq(lines, 1, Terminated)' = SubSeq(lines, 1, Terminated),
           DurablyTerminated' = DurablyTerminated,
           SubSeq(lines, 1, Terminated)' \in Seq(Change)
    PROVE  J!Lose
  <1>1. Pending' = <<>>
    BY DEF Pending
  <1>2. Journalled' = SubSeq(lines, 1, Terminated)
    BY <1>1, ConcatEmptySeq DEF Journalled
  <1> QED  BY <1>2, JournalType, CutIsLoss

\* A garbled tail hides no line that was read before it.
LEMMA GarbleKeeps ==
    ASSUME TypeOK, Garble
    PROVE  /\ SubSeq(lines, 1, Terminated)' = SubSeq(lines, 1, Terminated)
           /\ DurablyTerminated' = DurablyTerminated
           /\ Pending' = <<>>
           /\ SubSeq(lines, 1, Terminated)' \in Seq(Change)
  <1>1. Terminated \in 0..Len(lines) /\ DurablyTerminated \in 0..Terminated
    BY JournalType
  <1>2. lines' \in Seq(Change) /\ Len(lines') = Terminated /\ tail' = "garbled"
    BY JournalType DEF Garble
  <1>3. Terminated' = Terminated
    BY <1>2 DEF Terminated
  <1>4. SubSeq(lines, 1, Terminated)' = SubSeq(lines, 1, Terminated)
    BY <1>1, <1>3, PrefixOfPrefix DEF Garble, TypeOK
  <1>5. DurablyTerminated' = DurablyTerminated
    BY <1>1, <1>3 DEF Garble, DurablyTerminated
  <1>6. Pending' = <<>>
    BY <1>2 DEF Pending
  <1> QED  BY <1>4, <1>5, <1>6, JournalType

\* One more line, before and after.
LEMMA AppendedLine ==
    ASSUME TypeOK, NEW change \in Change, tail = "clean", lines' = Append(lines, change)
    PROVE  /\ Terminated = Len(lines)
           /\ Len(lines') = Len(lines) + 1
           /\ lines' = lines \o <<change>>
           /\ SubSeq(lines, 1, Len(lines)) = lines
           /\ SubSeq(lines', 1, Len(lines)) = lines
           /\ SubSeq(lines', 1, Len(lines')) = lines'
  <1>1. /\ lines \in Seq(Change) /\ Len(lines) \in Nat
        /\ <<change>> \in Seq(Change)
        /\ Terminated = Len(lines)
    BY LenProperties DEF TypeOK, Terminated
  <1>2. /\ lines' \in Seq(Change)
        /\ Len(lines') = Len(lines) + 1
        /\ lines' = lines \o <<change>>
    BY <1>1, AppendProperties, AppendIsConcat
  <1>3. SubSeq(lines, 1, Len(lines)) = lines /\ SubSeq(lines', 1, Len(lines')) = lines'
    BY <1>1, <1>2, SubSeqFull
  <1>4. SubSeq(lines \o <<change>>, 1, Len(lines)) = SubSeq(lines, 1, Len(lines))
    BY <1>1, PrefixOfConcat
  <1> QED  BY <1>1, <1>2, <1>3, <1>4

\* Sending a line moves a change from the queue to the file, or into a tail that
\* nobody will read, and changes nothing for a reader.
LEMMA SendLineStutters == ASSUME IInv, SendLine PROVE UNCHANGED J!vars
  <1> DEFINE h == Head(uncommitted)
             t == Tail(uncommitted)
  <1>1. h \in Change /\ t \in Seq(Change) /\ uncommitted = <<h>> \o t
    BY DEF IInv, TypeOK, SendLine
  <1>2. CASE tail = "clean"
    <2>1. lines' = Append(lines, h) /\ tail' = "clean" /\ synced' = synced /\ uncommitted' = t
          /\ writer = "send" /\ writer' = "send"
      BY <1>2 DEF SendLine, AppendLine
    <2>2. /\ SubSeq(lines, 1, Terminated) = lines
          /\ Terminated' = Len(lines')
          /\ SubSeq(lines, 1, Terminated)' = lines \o <<h>>
      BY <1>1, <1>2, <2>1, AppendedLine DEF IInv, Terminated
    <2>3. Pending = <<h>> \o t /\ Pending' = t
      BY <1>1, <1>2, <2>1 DEF Pending
    <2>4. (lines \o <<h>>) \o t = lines \o (<<h>> \o t)
      BY <1>1, ConcatAssociative DEF IInv, TypeOK
    <2>5. Journalled' = Journalled
      BY <2>2, <2>3, <2>4 DEF Journalled
    <2>6. DurablyTerminated' = DurablyTerminated
      BY <1>1, <1>2, <2>1, <2>2, AppendedLine DEF IInv, TypeOK, DurablyTerminated
    <2> QED  BY <2>5, <2>6 DEF J!vars
  <1>3. CASE tail # "clean"
    <2>1. Garble /\ Pending = <<>>
      BY <1>3 DEF SendLine, AppendLine, Pending
    <2>2. Journalled' = Journalled
      BY <2>1, GarbleKeeps DEF IInv, Journalled
    <2> QED  BY <2>1, <2>2, GarbleKeeps DEF IInv, J!vars
  <1> QED  BY <1>2, <1>3

\* A failed send loses the change it took from the queue and all that follow it.
LEMMA SendFailsLoses == ASSUME IInv, SendFails PROVE J!Lose
  <1> DEFINE h == Head(uncommitted)
  <1>1. h \in Change /\ writer' = "done"
    BY DEF IInv, TypeOK, SendFails, Finish
  <1>2. CASE UNCHANGED fileVars
    <2>1. Terminated' = Terminated /\ DurablyTerminated' = DurablyTerminated /\ lines' = lines
      BY <1>2 DEF fileVars, Terminated, DurablyTerminated
    <2> QED  BY <1>1, <2>1, JournalType, FinishIsLoss DEF IInv
  <1>3. CASE Garble
    BY <1>1, <1>3, GarbleKeeps, FinishIsLoss DEF IInv
  <1>4. CASE tail = "clean" /\ tail' = "unterminated" /\ lines' = Append(lines, h) /\ UNCHANGED synced
    <2>1. Terminated' = Terminated /\ SubSeq(lines, 1, Terminated)' = SubSeq(lines, 1, Terminated)
      BY <1>1, <1>4, AppendedLine DEF IInv, TypeOK, Terminated
    <2>2. DurablyTerminated' = DurablyTerminated
      BY <1>4, <2>1 DEF DurablyTerminated
    <2> QED  BY <1>1, <2>1, <2>2, JournalType, FinishIsLoss DEF IInv
  <1> QED  BY <1>2, <1>3, <1>4 DEF SendFails, AppendTorn

\* Reporting a change extends the journal, unless nobody is going to read it.
LEMMA LogChangesAccepts ==
    ASSUME IInv, NEW changes \in Batches, LogChanges(changes)
    PROVE  J!Accept \/ UNCHANGED J!vars
  <1>1. /\ changes \in Seq(Change)
        /\ Terminated' = Terminated /\ DurablyTerminated' = DurablyTerminated
        /\ lines' = lines /\ tail' = tail /\ writer' = writer /\ writer # "off"
        /\ uncommitted' = uncommitted \o changes
    BY BatchesAssumption DEF LogChanges, fileVars, Terminated, DurablyTerminated
  <1>2. CASE writer = "done" \/ tail # "clean"
    BY <1>1, <1>2 DEF Pending, Journalled, J!vars
  <1>3. CASE writer # "done" /\ tail = "clean"
    <2>1. Pending = uncommitted /\ Pending' = uncommitted \o changes
      BY <1>1, <1>3 DEF Pending
    <2>2. Journalled' = Journalled \o changes
      <3> DEFINE terminated == SubSeq(lines, 1, Terminated)
      <3>1. terminated \in Seq(Change) /\ uncommitted \in Seq(Change)
        BY JournalType DEF IInv, TypeOK
      <3>2. (terminated \o uncommitted) \o changes = terminated \o (uncommitted \o changes)
        <4> HIDE DEF terminated
        <4>1. changes \in Seq(Change)
          BY <1>1
        <4> QED  BY <3>1, <4>1, ConcatAssociative
      <3>3. terminated' = terminated
        BY <1>1
      <3>4. Journalled = terminated \o uncommitted
        BY <2>1 DEF Journalled
      <3>5. Journalled' = terminated \o (uncommitted \o changes)
        BY <2>1, <3>3 DEF Journalled
      <3> QED  BY <3>2, <3>4, <3>5
    <2>3. /\ Journalled \in Seq(Change) /\ Journalled \o changes \in Seq(Change)
          /\ Len(Journalled) \in Nat /\ Len(changes) \in Nat
          /\ Len(Journalled \o changes) = Len(Journalled) + Len(changes)
      BY <1>1, JournalType, ConcatProperties, LenProperties DEF IInv
    <2>4. SubSeq(Journalled \o changes, 1, Len(Journalled)) = SubSeq(Journalled, 1, Len(Journalled))
      BY <1>1, <2>3, PrefixOfConcat
    <2>5. SubSeq(Journalled, 1, Len(Journalled)) = Journalled
      BY <2>3, SubSeqFull
    <2> QED  BY <1>1, <2>2, <2>3, <2>4, <2>5 DEF J!Accept
  <1> QED  BY <1>2, <1>3

\* The machine stops: what was not synced is lost from some line on.
LEMMA PowerLossLoses == ASSUME IInv, PowerLoss PROVE J!Lose
  <1>0. TypeOK /\ writer' = "off"
    BY DEF IInv, PowerLoss, Forget
  <1>1. Pending' = <<>>
    BY <1>0 DEF Pending
  <1>2. CASE synced' = Len(lines) /\ UNCHANGED <<lines, tail>>
    <2>1. Terminated' = Terminated /\ lines' = lines /\ DurablyTerminated' = Terminated
      BY <1>0, <1>2, JournalType DEF Terminated, DurablyTerminated
    <2>2. Journalled' = SubSeq(lines, 1, Terminated)
      BY <1>0, <1>1, <2>1, JournalType, ConcatEmptySeq DEF Journalled
    <2>3. Terminated \in DurablyTerminated..Terminated
      BY <1>0, JournalType
    <2> QED  BY <1>0, <2>1, <2>2, <2>3, CutIsLoss
  <1>3. ASSUME NEW n \in synced..(Len(lines) - 1),
               \/ lines' = SubSeq(lines, 1, n) /\ tail' \in {"clean", "garbled"} /\ synced' = n
               \/ lines' = SubSeq(lines, 1, n + 1) /\ tail' = "unterminated" /\ synced' = n + 1
        PROVE  J!Lose
    <2>1. n \in Nat /\ n < Len(lines) /\ n \in DurablyTerminated..Terminated
      BY <1>0 DEF TypeOK, Terminated, DurablyTerminated
    <2>2. /\ SubSeq(lines, 1, n) \in Seq(Change) /\ Len(SubSeq(lines, 1, n)) = n
          /\ Len(SubSeq(lines, 1, n + 1)) = n + 1
      BY <1>0, <2>1, SubSeqProperties, ElementOfSeq DEF TypeOK
    <2>3. Terminated' = n /\ DurablyTerminated' = n
      BY <1>3, <2>1, <2>2 DEF Terminated, DurablyTerminated
    <2>4. SubSeq(lines', 1, n) = SubSeq(lines, 1, n)
      BY <1>0, <1>3, <2>1, PrefixOfPrefix DEF TypeOK
    <2>5. Journalled' = SubSeq(lines, 1, n)
      BY <1>1, <2>2, <2>3, <2>4, ConcatEmptySeq DEF Journalled
    <2> QED  BY <1>0, <2>1, <2>3, <2>5, CutIsLoss
  <1> QED  BY <1>2, <1>3 DEF PowerLoss

\* Every step of the file and its writer is a step of the journal or none.
LEMMA JournalStep == IInv /\ [Next]_vars => [J!Next]_(J!vars)
  <1> SUFFICES ASSUME IInv, [Next]_vars PROVE J!Next \/ UNCHANGED J!vars
    BY DEF J!vars
  <1> USE DEF J!Next
  <1>1. CASE UNCHANGED <<lines, tail, synced, uncommitted>>
             /\ (writer \in {"off", "done"} <=> writer' \in {"off", "done"})
    BY <1>1 DEF J!vars, Journalled, Pending, Terminated, DurablyTerminated
  <1>2. CASE Open
    <2>1. uncommitted = <<>> /\ writer = "off" /\ UNCHANGED <<lines, tail, synced, uncommitted>>
      BY <1>2 DEF IInv, OffIsEmpty, Open, fileVars, memoryVars
    <2> QED  BY <2>1 DEF J!vars, Journalled, Pending, Terminated, DurablyTerminated
  <1>3. ASSUME NEW changes \in Batches, LogChanges(changes) PROVE J!Next \/ UNCHANGED J!vars
    BY <1>3, LogChangesAccepts
  <1>4. CASE Cancel \/ BeginCommit \/ EndSend \/ SelectNotified \/ UNCHANGED vars
    BY <1>1, <1>4
       DEF Cancel, BeginCommit, EndSend, SelectNotified, vars, fileVars, memoryVars
  <1>5. CASE SendLine
    BY <1>5, SendLineStutters
  <1>6. CASE Sync
    <2>1. lines' = lines /\ Terminated' = Terminated /\ Journalled' = Journalled
      BY <1>6 DEF Sync, memoryVars, Terminated, Pending, Journalled
    <2>2. DurablyTerminated' = Terminated
      BY <1>6, <2>1, JournalType DEF IInv, Sync, DurablyTerminated
    <2>3. Terminated \in DurablyTerminated..Len(Journalled)
      BY JournalType, LenProperties DEF IInv
    <2> QED  BY <2>1, <2>2, <2>3 DEF J!Persist
  <1>7. CASE SelectCancelled \/ SyncFails
    <2>1. writer' = "done" /\ lines' = lines /\ Terminated' = Terminated
          /\ DurablyTerminated' = DurablyTerminated
      BY <1>7 DEF SelectCancelled, SyncFails, Finish, fileVars, Terminated, DurablyTerminated
    <2> QED  BY <2>1, JournalType, FinishIsLoss DEF IInv
  <1>8. CASE SendFails
    BY <1>8, SendFailsLoses
  <1>9. CASE Stop
    <2>1. writer' = "off" /\ lines' = lines /\ Terminated' = Terminated
          /\ DurablyTerminated' = DurablyTerminated
      BY <1>9 DEF Stop, Forget, fileVars, Terminated, DurablyTerminated
    <2>2. Journalled' = SubSeq(lines, 1, Terminated)
      BY <2>1, JournalType, ConcatEmptySeq DEF IInv, Journalled, Pending
    <2> QED  BY <2>1, <2>2, JournalType, CutIsLoss DEF IInv
  <1>10. CASE PowerLoss
    BY <1>10, PowerLossLoses
  <1> QED
    BY <1>2, <1>3, <1>4, <1>5, <1>6, <1>7, <1>8, <1>9, <1>10 DEF Next, WriterStep

LEMMA JournalInit == Init => J!Init
  <1> SUFFICES ASSUME Init PROVE J!Init
    OBVIOUS
  <1>1. <<>> \in Seq(Change) /\ Terminated = 0 /\ DurablyTerminated = 0 /\ Pending = <<>>
    BY EmptySeq DEF Init, Terminated, DurablyTerminated, Pending
  <1>2. SubSeq(lines, 1, 0) = <<>>
    BY SubSeqEmpty
  <1>3. Journalled = <<>>
    BY <1>1, <1>2, ConcatEmptySeq DEF Journalled
  <1> QED  BY <1>1, <1>3 DEF J!Init

\* The queue, the task that drains it and the file, with everything that can go
\* wrong with them, implement the journal: a start reads a prefix of what was
\* accepted, in order, with everything that was synced (state.rs:242-401).
THEOREM JournalImplemented == Spec => ImplementsJournal
  BY JournalInit, JournalStep, Inductive, PTL DEF Spec, ImplementsJournal, J!Spec


----------------------------------------------------------------------------
(* What is durable is durable for good *)

\* The lines that are sure to be read stay, each in its place.
DurableStays ==
    \A n \in 1..DurablyTerminated : n \in 1..DurablyTerminated' /\ lines'[n] = lines[n]

LEMMA LongerStays ==
    ASSUME TypeOK, TypeOK', DurablyTerminated <= DurablyTerminated',
           \A n \in 1..DurablyTerminated : lines'[n] = lines[n]
    PROVE  DurableStays
  <1>1. DurablyTerminated \in Nat /\ DurablyTerminated' \in Nat
    BY DEF TypeOK, DurablyTerminated, Terminated
  <1> QED  BY <1>1 DEF DurableStays

LEMMA GarbleStays == ASSUME TypeOK, TypeOK', Garble PROVE DurableStays
  <1>1. Terminated \in 0..Len(lines) /\ DurablyTerminated \in 0..Terminated /\ lines \in Seq(Change)
    BY JournalType DEF TypeOK
  <1>2. \A n \in 1..Terminated : SubSeq(lines, 1, Terminated)[n] = lines[n]
    BY <1>1
  <1>3. DurablyTerminated' = DurablyTerminated
    BY GarbleKeeps
  <1> QED  BY <1>1, <1>2, <1>3, LongerStays DEF Garble

LEMMA AppendStays ==
    ASSUME TypeOK, TypeOK', NEW change \in Change, tail = "clean",
           lines' = Append(lines, change), synced' = synced
    PROVE  DurableStays
  <1>1. Terminated = Len(lines) /\ Len(lines') = Len(lines) + 1
    BY AppendedLine
  <1>2. lines \in Seq(Change) /\ synced \in 0..Len(lines)
    BY DEF TypeOK
  <1>3. Terminated' \in {Len(lines), Len(lines) + 1}
    BY <1>1, <1>2 DEF Terminated
  <1>4. DurablyTerminated' = synced /\ DurablyTerminated = synced
    BY <1>1, <1>2, <1>3 DEF DurablyTerminated
  <1>5. \A n \in 1..synced : lines'[n] = lines[n]
    BY <1>2
  <1> QED  BY <1>2, <1>4, <1>5, LongerStays

LEMMA PowerLossStays == ASSUME TypeOK, TypeOK', PowerLoss PROVE DurableStays
  <1>1. lines \in Seq(Change) /\ synced \in 0..Len(lines)
        /\ DurablyTerminated \in 0..synced /\ Terminated \in 0..Len(lines)
    BY DEF TypeOK, DurablyTerminated, Terminated
  <1>2. CASE synced' = Len(lines) /\ UNCHANGED <<lines, tail>>
    <2>1. Terminated' = Terminated
      BY <1>2 DEF Terminated
    <2> QED  BY <1>1, <1>2, <2>1, LongerStays DEF DurablyTerminated
  <1>3. ASSUME NEW n \in synced..(Len(lines) - 1),
               \/ lines' = SubSeq(lines, 1, n) /\ tail' \in {"clean", "garbled"} /\ synced' = n
               \/ lines' = SubSeq(lines, 1, n + 1) /\ tail' = "unterminated" /\ synced' = n + 1
        PROVE  DurableStays
    <2>1. n \in Nat /\ n < Len(lines) /\ DurablyTerminated <= n
      BY <1>1
    <2>2. /\ Len(SubSeq(lines, 1, n)) = n /\ Len(SubSeq(lines, 1, n + 1)) = n + 1
          /\ \A i \in 1..n : SubSeq(lines, 1, n)[i] = lines[i]
          /\ \A i \in 1..n : SubSeq(lines, 1, n + 1)[i] = lines[i]
      BY <1>1, <2>1
    <2>3. Terminated' = n /\ DurablyTerminated' = n
      BY <1>3, <2>1, <2>2 DEF Terminated, DurablyTerminated
    <2>4. \A i \in 1..n : lines'[i] = lines[i]
      BY <1>3, <2>2
    <2> QED  BY <1>1, <2>1, <2>3, <2>4, LongerStays
  <1> QED  BY <1>2, <1>3 DEF PowerLoss

LEMMA DurableStep == ASSUME TypeOK, TypeOK', [Next]_vars PROVE DurableStays
  <1>1. CASE UNCHANGED <<lines, tail, synced>>
    BY <1>1 DEF DurableStays, DurablyTerminated, Terminated
  <1>2. CASE SendLine \/ SendFails
    <2>1. Head(uncommitted) \in Change
      BY <1>2 DEF TypeOK, SendLine, SendFails
    <2>2. CASE Garble
      BY <2>2, GarbleStays
    <2>3. CASE tail = "clean" /\ lines' = Append(lines, Head(uncommitted)) /\ synced' = synced
      BY <2>1, <2>3, AppendStays
    <2> QED  BY <1>1, <1>2, <2>2, <2>3 DEF SendLine, AppendLine, SendFails, AppendTorn, fileVars
  <1>3. CASE Sync
    <2>1. lines' = lines /\ Terminated' = Terminated /\ synced' = Len(lines)
      BY <1>3 DEF Sync, Terminated
    <2>2. Terminated \in 0..Len(lines) /\ DurablyTerminated \in 0..Terminated
      BY JournalType
    <2>3. DurablyTerminated' = Terminated
      BY <2>1, <2>2 DEF DurablyTerminated
    <2> QED  BY <2>1, <2>2, <2>3, LongerStays
  <1>4. CASE PowerLoss
    BY <1>4, PowerLossStays
  <1> QED
    BY <1>1, <1>2, <1>3, <1>4
    DEF Next, Open, LogChanges, Cancel, WriterStep, BeginCommit, EndSend, SelectNotified,
        SelectCancelled, SyncFails, Finish, Stop, Forget, vars, fileVars, memoryVars

\* No crash, failed write or power loss, and no number of them, takes back or moves a
\* line that was synced with its newline (state.rs:242-271, 361-401).
THEOREM DurableIsForGood ==
    ASSUME NEW n \in Nat \ {0}, NEW change
    PROVE  Spec => [](n <= DurablyTerminated /\ lines[n] = change
                          => [](n <= DurablyTerminated /\ lines[n] = change))
  <1> DEFINE Durable == n <= DurablyTerminated /\ lines[n] = change
  <1>1. TypeOK /\ TypeOK' /\ Durable /\ [Next]_vars => Durable'
    <2> SUFFICES ASSUME TypeOK, TypeOK', Durable, [Next]_vars PROVE Durable'
      OBVIOUS
    <2>1. DurableStays
      BY DurableStep
    <2>2. DurablyTerminated \in Nat /\ DurablyTerminated' \in Nat
      BY DEF TypeOK, DurablyTerminated, Terminated
    <2> QED  BY <2>1, <2>2 DEF DurableStays
  <1> HIDE DEF Durable
  <1>2. Spec => [](Durable => []Durable)
    BY <1>1, TypeCorrect, PTL DEF Spec
  <1> QED  BY <1>2 DEF Durable

============================================================================
