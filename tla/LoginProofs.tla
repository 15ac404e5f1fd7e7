----------------------------- MODULE LoginProofs -----------------------------
(***************************************************************************)
(* Theorems about Login.tla, for every set of codes, all lifetimes of      *)
(* tokens and every length of the changelog.                               *)
(***************************************************************************)
EXTENDS Login, SequenceTheorems, WellFoundedInduction, TLAPS

LogProofs == INSTANCE ChangelogProofs
               WITH Change <- LoginChange, Batches <- {<<change>> : change \in LoginChange}

\* What a start can live on: every token can be refreshed, and the code of client
\* data is spent unless a token stands before it, which makes the code needless.
HasToken(s) == \E i \in 1..Len(s) : s[i].kind = "token"

Good(s, codes) ==
    \A i \in 1..Len(s) :
        /\ s[i].kind = "token" => s[i].token.refresh # NoCode
        /\ s[i].kind = "client" =>
               s[i].code \in codes \/ \E j \in 1..Len(s) : j < i /\ s[j].kind = "token"

\* Only who exchanges a code has no refresh token.
LoginInv ==
    /\ token.access => token.refresh # NoCode
    /\ \A c \in Callers :
           /\ pc[c] = "exchange" => token.refresh = NoCode
           /\ pc[c] \in {"refresh", "log"} => token.refresh # NoCode

\* What is read back keeps this when it is interrupted anywhere.
FileInv ==
    /\ Good(lines, spent)
    /\ (mode = "run" \/ pc["init"] \in {"request", "commit"})
           /\ writer # "done" /\ tail # "garbled" => Good(Reported, spent)

RunInv == mode = "run" /\ token.refresh = NoCode => code \in spent \cup {NoCode}

\* init keeps its client data to itself until it is logged in.
BeforeLogin == {"wait", "refresh", "exchange", "log"}

InitInv ==
    mode = "init" =>
        /\ pc["init"] # "commit" => writer = "commit"
        /\ pc["init"] = "setup" => uncommitted = <<>>
        /\ pc["init"] \in BeforeLogin => uncommitted = <<ClientData(code)>>
        /\ pc["init"] \in {"setup", "wait"} => token = LastToken(lines)
        /\ pc["init"] \in BeforeLogin /\ token.refresh # NoCode =>
               HasToken(lines) \/ code \in spent
        /\ pc["init"] \in {"request", "commit"} /\ writer # "done" /\ tail # "garbled" =>
               /\ LastToken(Reported) = token /\ token.refresh # NoCode
               /\ LastCode(Reported) = code
        /\ writer \in {"sync", "select"} => uncommitted = <<>>

IInv == LogProofs!IInv /\ TypeOK /\ LoginInv /\ FileInv /\ RunInv /\ InitInv /\ TokenIsRecoverable

(***************************************************************************)
(* The last change of a kind                                               *)
(***************************************************************************)

LEMMA HasGreatest ==
    ASSUME NEW n \in Nat, NEW S \in SUBSET (1..n), S # {}
    PROVE  \E i \in S : \A j \in S : j <= i
  <1> DEFINE T == {n - i : i \in S}
  <1>1. T \subseteq Nat /\ T # {}
    <2>1. \A i \in S : n - i \in Nat
      OBVIOUS
    <2> QED  BY <2>1
  <1> HIDE DEF T
  <1>2. PICK x \in T : \A y \in T : ~ (<<y, x>> \in OpToRel(<, Nat))
    BY <1>1, NatLessThanWellFounded, WFMin
  <1>3. ASSUME NEW y \in T PROVE x <= y
    <2>1. x \in Nat /\ y \in Nat
      BY <1>1
    <2>2. y < x => <<y, x>> \in OpToRel(<, Nat)
      BY <2>1 DEF OpToRel
    <2>3. ~ (y < x)
      BY <1>2, <2>2, Zenon
    <2> QED  BY <2>1, <2>3
  <1>4. PICK i \in S : x = n - i
    BY DEF T
  <1>5. \A j \in S : n - j \in T
    BY DEF T
  <1> QED  BY <1>3, <1>4, <1>5

\* The positions LastToken and LastCode look at.
At(s, kind) == {i \in 1..Len(s) : s[i].kind = kind}
Last(s, kind) == CHOOSE i \in At(s, kind) : \A j \in At(s, kind) : j <= i

LEMMA LastDef ==
    ASSUME NEW s
    PROVE  /\ LastToken(s) = IF At(s, "token") = {} THEN NoToken ELSE s[Last(s, "token")].token
           /\ LastCode(s) = IF At(s, "client") = {} THEN NoCode ELSE s[Last(s, "client")].code
  BY DEF LastToken, LastCode, Last, At

LEMMA LastIs ==
    ASSUME NEW s \in Seq(LoginChange)
    PROVE  /\ HasToken(s) => \E i \in 1..Len(s) : s[i].kind = "token" /\ LastToken(s) = s[i].token
           /\ ~HasToken(s) => LastToken(s) = NoToken
           /\ \/ \E i \in 1..Len(s) : s[i].kind = "client" /\ LastCode(s) = s[i].code
              \/ LastCode(s) = NoCode
           /\ LastToken(s) \in Token /\ LastCode(s) \in Codes \cup {NoCode}
  <1>0. Len(s) \in Nat /\ \A i \in 1..Len(s) : s[i] \in LoginChange
    BY LenProperties, ElementOfSeq
  <1>1. ASSUME NEW kind, At(s, kind) # {}
        PROVE  Last(s, kind) \in At(s, kind)
    <2>1. At(s, kind) \in SUBSET (1..Len(s))
      BY DEF At
    <2>2. \E i \in At(s, kind) : \A j \in At(s, kind) : j <= i
      BY <1>0, <1>1, <2>1, HasGreatest
    <2> QED  BY <2>2 DEF Last
  <1>2. HasToken(s) => \E i \in 1..Len(s) : s[i].kind = "token" /\ LastToken(s) = s[i].token
    BY <1>1, LastDef DEF HasToken, At
  <1>3. ~HasToken(s) => LastToken(s) = NoToken
    BY LastDef DEF HasToken, At
  <1>4. \/ \E i \in 1..Len(s) : s[i].kind = "client" /\ LastCode(s) = s[i].code
        \/ LastCode(s) = NoCode
    BY <1>1, LastDef DEF At
  <1>5. LastToken(s) \in Token
    <2>1. NoToken \in Token /\ \A x \in LoginChange : x.token \in Token
      BY DEF LoginChange, NoToken, Token
    <2> QED  BY <1>0, <1>2, <1>3, <2>1
  <1>6. LastCode(s) \in Codes \cup {NoCode}
    BY <1>0, <1>4 DEF LoginChange
  <1> QED  BY <1>2, <1>3, <1>4, <1>5, <1>6

\* One more change is the last of its kind, and not of the other.
LEMMA LastAppend ==
    ASSUME NEW s \in Seq(LoginChange), NEW x \in LoginChange
    PROVE  /\ LastToken(Append(s, x)) = IF x.kind = "token" THEN x.token ELSE LastToken(s)
           /\ LastCode(Append(s, x)) = IF x.kind = "client" THEN x.code ELSE LastCode(s)
  <1> DEFINE t == Append(s, x)
             n == Len(s)
  <1>1. /\ n \in Nat /\ Len(t) = n + 1 /\ t[n + 1] = x
        /\ \A i \in 1..n : t[i] = s[i]
    BY LenProperties, AppendProperties
  <1> HIDE DEF t
  <1>2. ASSUME NEW kind, x.kind # kind
        PROVE  At(t, kind) = At(s, kind)
    BY <1>1, <1>2 DEF At
  <1>3. ASSUME NEW kind, x.kind = kind
        PROVE  At(t, kind) # {} /\ Last(t, kind) = n + 1
    <2>1. n + 1 \in At(t, kind) /\ \A j \in At(t, kind) : j \in Int /\ j <= n + 1
      BY <1>1, <1>3 DEF At
    <2>2. \A i \in At(t, kind) : (\A j \in At(t, kind) : j <= i) => i = n + 1
      BY <1>1, <2>1
    <2> QED  BY <2>1, <2>2 DEF Last
  <1>4. ASSUME NEW kind, x.kind # kind, At(s, kind) # {}
        PROVE  t[Last(t, kind)] = s[Last(s, kind)]
    <2>1. At(s, kind) \in SUBSET (1..n)
      BY DEF At
    <2>2. \E i \in At(s, kind) : \A j \in At(s, kind) : j <= i
      BY <1>1, <1>4, <2>1, HasGreatest
    <2>3. Last(t, kind) = Last(s, kind)
      BY <1>2, <1>4 DEF Last
    <2> QED  BY <1>1, <2>1, <2>2, <2>3 DEF Last
  <1>5. CASE x.kind = "token"
    <2>1. LastToken(t) = x.token
      BY <1>1, <1>3, <1>5, LastDef
    <2>2. LastCode(t) = LastCode(s)
      BY <1>2, <1>4, <1>5, LastDef
    <2> QED  BY <1>5, <2>1, <2>2 DEF t
  <1>6. CASE x.kind = "client"
    <2>1. LastCode(t) = x.code
      BY <1>1, <1>3, <1>6, LastDef
    <2>2. LastToken(t) = LastToken(s)
      BY <1>2, <1>4, <1>6, LastDef
    <2> QED  BY <1>6, <2>1, <2>2 DEF t
  <1>7. x.kind \in {"client", "token"}
    BY DEF LoginChange
  <1> QED  BY <1>5, <1>6, <1>7

(***************************************************************************)
(* What a file may be                                                      *)
(***************************************************************************)

LEMMA GoodPrefix ==
    ASSUME NEW s \in Seq(LoginChange), NEW t \in Seq(LoginChange), NEW codes, Good(s, codes),
           Len(t) <= Len(s), \A i \in 1..Len(t) : t[i] = s[i]
    PROVE  Good(t, codes)
  <1>1. Len(s) \in Nat /\ Len(t) \in Nat
    BY LenProperties
  <1> QED  BY <1>1 DEF Good

LEMMA GoodGrows ==
    ASSUME NEW s, NEW codes, NEW more, codes \subseteq more, Good(s, codes)
    PROVE  Good(s, more)
  BY DEF Good

LEMMA GoodAppend ==
    ASSUME NEW s \in Seq(LoginChange), NEW codes, Good(s, codes), NEW x \in LoginChange,
           x.kind = "token" => x.token.refresh # NoCode,
           x.kind = "client" => x.code \in codes \/ HasToken(s)
    PROVE  Good(Append(s, x), codes)
  <1>1. /\ Len(s) \in Nat /\ Len(Append(s, x)) = Len(s) + 1 /\ Append(s, x)[Len(s) + 1] = x
        /\ \A i \in 1..Len(s) : Append(s, x)[i] = s[i]
    BY LenProperties, AppendProperties
  <1> HIDE DEF LoginChange
  <1> QED  BY <1>1 DEF Good, HasToken

\* What a start finds in such a file.
LEMMA GoodStart ==
    ASSUME NEW s \in Seq(LoginChange), NEW codes, Good(s, codes)
    PROVE  /\ HasToken(s) => LastToken(s).refresh # NoCode
           /\ ~HasToken(s) => LastToken(s) = NoToken /\ LastCode(s) \in codes \cup {NoCode}
  BY LastIs DEF Good, HasToken

LEMMA Reported1 ==
    ASSUME NEW s \in Seq(LoginChange), NEW u \in Seq(LoginChange), NEW x \in LoginChange
    PROVE  /\ s \o <<>> = s
           /\ s \o (u \o <<x>>) = Append(s \o u, x)
           /\ u # <<>> => Append(s, Head(u)) \o Tail(u) = s \o u
  <1>1. s \o <<>> = s
    BY ConcatEmptySeq
  <1>2. s \o (u \o <<x>>) = Append(s \o u, x)
    <2>1. s \o (u \o <<x>>) = (s \o u) \o <<x>>
      BY ConcatAssociative
    <2>2. (s \o u) \in Seq(LoginChange)
      BY ConcatProperties
    <2> QED  BY <2>1, <2>2, AppendIsConcat
  <1>3. ASSUME u # <<>> PROVE Append(s, Head(u)) \o Tail(u) = s \o u
    <2>1. Head(u) \in LoginChange /\ Tail(u) \in Seq(LoginChange) /\ u = <<Head(u)>> \o Tail(u)
      BY <1>3
    <2>2. Append(s, Head(u)) = s \o <<Head(u)>>
      BY <2>1, AppendIsConcat
    <2>3. <<Head(u)>> \in Seq(LoginChange)
      BY <2>1
    <2>4. (s \o <<Head(u)>>) \o Tail(u) = s \o (<<Head(u)>> \o Tail(u))
      BY <2>1, <2>3, ConcatAssociative
    <2> QED  BY <2>1, <2>2, <2>4
  <1> QED  BY <1>1, <1>2, <1>3


(***************************************************************************)
(* The changelog within the two programs                                   *)
(***************************************************************************)

\* What is reported is what Changelog.tla assumes of its batches.
LEMMA Batched ==
    /\ {<<change>> : change \in LoginChange} \subseteq Seq(LoginChange) \ {<<>>}
    /\ \A c \in Codes : ClientData(c) \in LoginChange
    /\ \A t \in Token : RedditToken(t) \in LoginChange
  <1>1. ASSUME NEW b \in {<<change>> : change \in LoginChange}
        PROVE  b \in Seq(LoginChange) \ {<<>>}
    <2>1. PICK change \in LoginChange : b = <<change>>
      BY <1>1
    <2>2. <<change>> \in Seq(LoginChange) /\ <<change>> # <<>>
      OBVIOUS
    <2> QED  BY <2>1, <2>2
  <1>2. NoToken \in Token
    BY DEF NoToken, Token
  <1>3. \A c \in Codes : ClientData(c) \in LoginChange
    BY <1>2 DEF LoginChange, ClientData
  <1>4. \A t \in Token : RedditToken(t) \in LoginChange
    BY DEF LoginChange, RedditToken
  <1> QED  BY <1>1, <1>3, <1>4

\* The two instances of Changelog.tla are the same specification.
LEMMA SameType ==
    /\ LogProofs!TypeOK <=> Log!TypeOK
    /\ LogProofs!TypeOK' <=> Log!TypeOK'
  BY DEF LogProofs!TypeOK, Log!TypeOK, LogProofs!Tails, Log!Tails,
         LogProofs!WriterStates, Log!WriterStates

LEMMA SameStep == [LogProofs!Next]_(LogProofs!vars) <=> [Log!Next]_(Log!vars)
  BY DEF LogProofs!Next, Log!Next, LogProofs!vars, Log!vars,
         LogProofs!fileVars, Log!fileVars, LogProofs!memoryVars, Log!memoryVars,
         LogProofs!Open, Log!Open, LogProofs!LogChanges, Log!LogChanges,
         LogProofs!Cancel, Log!Cancel, LogProofs!WriterStep, Log!WriterStep,
         LogProofs!BeginCommit, Log!BeginCommit, LogProofs!SendLine, Log!SendLine,
         LogProofs!AppendLine, Log!AppendLine, LogProofs!Garble, Log!Garble,
         LogProofs!Terminated, Log!Terminated,
         LogProofs!DurablyTerminated, Log!DurablyTerminated,
         LogProofs!EndSend, Log!EndSend, LogProofs!Sync, Log!Sync,
         LogProofs!SelectNotified, Log!SelectNotified,
         LogProofs!SelectCancelled, Log!SelectCancelled, LogProofs!Finish, Log!Finish,
         LogProofs!SendFails, Log!SendFails, LogProofs!AppendTorn, Log!AppendTorn,
         LogProofs!SyncFails, Log!SyncFails, LogProofs!Stop, Log!Stop,
         LogProofs!Forget, Log!Forget, LogProofs!PowerLoss, Log!PowerLoss

\* A step of the login is a step of its changelog, or leaves it alone.
LEMMA LogStep == ASSUME TypeOK, [Next]_vars PROVE [Log!Next]_(Log!vars)
  <1> USE DEF Log!Next, Log!vars, logVars
  <1>1. ASSUME NEW m, Start(m) PROVE [Log!Next]_(Log!vars)
    BY <1>1 DEF Start
  <1>2. ASSUME NEW c \in Codes, Setup(c) PROVE [Log!Next]_(Log!vars)
    BY <1>2, Batched DEF Setup
  <1>3. ASSUME NEW c, Call(c) \/ DropRequest(c) PROVE [Log!Next]_(Log!vars)
    BY <1>3 DEF Call, DropRequest
  <1>4. ASSUME NEW c, DropLogin(c) \/ LoginError(c) PROVE [Log!Next]_(Log!vars)
    BY <1>4 DEF DropLogin, LoginError
  <1>5. ASSUME NEW c, Acquire(c) \/ Respond(c) PROVE [Log!Next]_(Log!vars)
    BY <1>5 DEF Acquire, Respond
  <1>6. ASSUME NEW c, NEW life, NEW access, Refreshed(c, life) \/ Exchanged(c, life, access)
        PROVE  [Log!Next]_(Log!vars)
    BY <1>6 DEF Refreshed, Exchanged
  <1>7. ASSUME NEW c, Report(c) PROVE [Log!Next]_(Log!vars)
    BY <1>7, Batched DEF Report, TypeOK
  <1>8. CASE WriterStep
    BY <1>8 DEF WriterStep
  <1>9. CASE CtrlC \/ ExitInit \/ ExitRun
    BY <1>9 DEF CtrlC, ExitInit, ExitRun
  <1>10. CASE Fault
    BY <1>10 DEF Fault, Kill, PowerLoss, WriterFails
  <1>11. CASE Tick \/ UNCHANGED vars
    BY <1>11 DEF Tick, vars
  <1>12. ASSUME NEW c, CallerStep(c) PROVE [Log!Next]_(Log!vars)
    BY <1>4, <1>5, <1>6, <1>7, <1>12 DEF CallerStep
  <1> HIDE DEF Log!Next, Log!vars
  <1> QED
    BY <1>1, <1>2, <1>3, <1>4, <1>8, <1>9, <1>10, <1>11, <1>12 DEF Next

LEMMA LogInvStep == TypeOK /\ LogProofs!IInv /\ [Next]_vars => LogProofs!IInv'
  BY Batched, LogStep, SameStep, LogProofs!InvStep

(***************************************************************************)
(* Types                                                                   *)
(***************************************************************************)

CallersType ==
    /\ pc \in [Callers -> CallerStates]
    /\ \A c \in RunCallers : pc[c] \notin {"setup", "commit"} /\ (mode # "run" => pc[c] = "idle")
    /\ mode # "init" => pc["init"] = "idle"
    /\ \A c, d \in Callers : pc[c] \in LoginStates /\ pc[d] \in LoginStates => c = d

\* A caller goes on; at most one of them is logging in.
LEMMA GoType ==
    ASSUME CallersType, NEW c \in Callers, NEW where \in CallerStates, Go(c, where),
           mode' = mode,
           c \in RunCallers => mode = "run" /\ where \notin {"setup", "commit"},
           c = "init" => mode = "init",
           where \in LoginStates => \A d \in Callers : pc[d] \in LoginStates => d = c
    PROVE  CallersType'
  <1>1. pc' = [pc EXCEPT ![c] = where] /\ pc \in [Callers -> CallerStates]
    BY DEF Go, CallersType
  <1>2. /\ pc' \in [Callers -> CallerStates] /\ pc'[c] = where
        /\ \A d \in Callers : d # c => pc'[d] = pc[d]
    BY <1>1
  <1>3. "init" \in Callers /\ RunCallers \subseteq Callers /\ "init" \notin RunCallers
    BY DEF Callers, RunCallers
  <1> HIDE DEF Callers, RunCallers, CallerStates
  <1>4. ASSUME NEW d \in RunCallers
        PROVE  pc'[d] \notin {"setup", "commit"} /\ (mode' # "run" => pc'[d] = "idle")
    BY <1>2, <1>3, <1>4 DEF CallersType
  <1>5. mode' # "init" => pc'["init"] = "idle"
    BY <1>2, <1>3 DEF CallersType
  <1>6. \A d, e \in Callers : pc'[d] \in LoginStates /\ pc'[e] \in LoginStates => d = e
    BY <1>2 DEF CallersType
  <1> QED  BY <1>2, <1>4, <1>5, <1>6 DEF CallersType

\* Who makes a step is not idle, and runs in its own program.
LEMMA CallerMode ==
    ASSUME CallersType, NEW c \in Callers, pc[c] # "idle"
    PROVE  /\ c \in RunCallers => mode = "run"
           /\ c = "init" => mode = "init"
           /\ c # "init" => c \in RunCallers
           /\ pc[c] \in LoginStates => \A d \in Callers : pc[d] \in LoginStates => d = c
  BY DEF CallersType, Callers

\* The turn of ensure_logged_in ends with a token that may be used, or with a
\* request for one, by the refresh token if there is any.
LEMMA TurnEnds ==
    ASSUME NEW c, NEW t \in Token, NEW then, Turn(c, t, then), entered' \in Nat
    PROVE  /\ token' \in Token /\ token'.refresh = t.refresh
           /\ token'.access => t.access
           /\ \/ Go(c, then) /\ token' = t /\ t.access
              \/ Go(c, "exchange") /\ t.refresh = NoCode
              \/ Go(c, "refresh") /\ t.refresh # NoCode
  <1>1. CASE Usable(t, entered')
    BY <1>1 DEF Turn, Usable
  <1>2. CASE ~Usable(t, entered')
    <2>1. token' = IF t.access THEN [t EXCEPT !.access = FALSE, !.expires = 0] ELSE t
      BY <1>2 DEF Turn
    <2>2. token' \in Token /\ token'.refresh = t.refresh /\ (token'.access => t.access)
      <3>1. CASE t.access
        <4>1. token' = [t EXCEPT !.access = FALSE, !.expires = 0]
          BY <2>1, <3>1
        <4> QED  BY <3>1, <4>1 DEF Token
      <3>2. CASE ~t.access
        BY <2>1, <3>2
      <3> QED  BY <3>1, <3>2
    <2>3. Go(c, IF t.refresh = NoCode THEN "exchange" ELSE "refresh")
      BY <1>2 DEF Turn
    <2> QED  BY <2>2, <2>3
  <1> QED  BY <1>1, <1>2


\* The variables that are not the changelog's.
MemoryType ==
    /\ mode \in {"down", "init", "run"}
    /\ writer = "off" <=> mode = "down"
    /\ token \in Token
    /\ code \in Codes \cup {NoCode}
    /\ CallersType
    /\ entered \in Nat
    /\ clock \in Nat
    /\ spent \subseteq Codes

LEMMA Types == TypeOK <=> Log!TypeOK /\ MemoryType
  BY DEF TypeOK, MemoryType, CallersType

\* A step of the changelog's neither begins nor ends a process unless it is one of these.
LEMMA KeepsRunning ==
    /\ \A changes : Log!LogChanges(changes) => writer' = writer /\ writer # "off"
    /\ Log!Cancel => writer' = writer
    /\ Log!WriterStep \/ Log!SendFails \/ Log!SyncFails => writer # "off" /\ writer' # "off"
  BY DEF Log!LogChanges, Log!Cancel, Log!WriterStep, Log!BeginCommit, Log!SendLine, Log!EndSend,
         Log!Sync, Log!SelectNotified, Log!SelectCancelled, Log!Finish, Log!SendFails,
         Log!SyncFails

LEMMA DownType == MemoryType /\ Down /\ writer' = "off" => MemoryType'
  <1> SUFFICES ASSUME MemoryType, Down, writer' = "off" PROVE MemoryType'
    OBVIOUS
  <1>1. NoToken \in Token
    BY DEF NoToken, Token
  <1>2. CallersType'
    BY DEF Down, CallersType, Callers, RunCallers, CallerStates, LoginStates
  <1> QED  BY <1>1, <1>2 DEF Down, MemoryType

LEMMA CallerType ==
    ASSUME MemoryType, NEW c \in Callers, CallerStep(c)
    PROVE  MemoryType'
  <1>0. /\ pc[c] # "idle" /\ mode' = mode
        /\ code' = code /\ clock' = clock
    BY DEF CallerStep, Acquire, Refreshed, Exchanged, LoginError, Report, Respond
  <1> USE DEF MemoryType
  <1>1. /\ c \in RunCallers => mode = "run"
        /\ c = "init" => mode = "init"
        /\ c # "init" => c \in RunCallers
        /\ pc[c] \in LoginStates => \A d \in Callers : pc[d] \in LoginStates => d = c
    BY <1>0, CallerMode
  <1>2. ASSUME NEW where \in LoginStates \cup {"idle", "request"}, Go(c, where),
               where \in LoginStates => \A d \in Callers : pc[d] \in LoginStates => d = c
        PROVE  CallersType'
    BY <1>0, <1>1, <1>2, GoType DEF CallerStates, LoginStates
  <1>3. ASSUME NEW t \in Token, NEW then \in LoginStates \cup {"request"}, Turn(c, t, then),
               \A d \in Callers : pc[d] \in LoginStates => d = c, entered' \in Nat
        PROVE  CallersType' /\ token' \in Token
    BY <1>2, <1>3, TurnEnds DEF LoginStates
  <1>4. CASE Acquire(c)
    <2>1. /\ Turn(c, token, "request") /\ entered' = clock /\ spent' = spent
          /\ writer' = writer
          /\ \A d \in Callers : pc[d] \notin LoginStates
      BY <1>4 DEF Acquire, logVars
    <2>2. CallersType' /\ token' \in Token
      BY <1>3, <2>1
    <2> QED  BY <1>0, <2>1, <2>2
  <1>5. ASSUME NEW life \in Lifetimes, Refreshed(c, life) PROVE MemoryType'
    <2> DEFINE t == [token EXCEPT !.access = TRUE, !.expires = entered + life]
    <2>1. /\ Turn(c, t, "log") /\ entered' = entered /\ spent' = spent /\ writer' = writer
          /\ pc[c] \in LoginStates
      BY <1>5 DEF Refreshed, logVars, LoginStates
    <2>2. t \in Token
      <3>1. entered + life \in Nat
        BY TimeAssumption
      <3> QED  BY <3>1 DEF Token
    <2> HIDE DEF t
    <2>3. CallersType' /\ token' \in Token
      BY <1>1, <1>3, <2>1, <2>2 DEF LoginStates
    <2> QED  BY <1>0, <2>1, <2>3
  <1>6. ASSUME NEW life \in Lifetimes, NEW access \in BOOLEAN, Exchanged(c, life, access)
        PROVE  MemoryType'
    <2> DEFINE t == [access |-> access, refresh |-> code, expires |-> entered + life]
    <2>1. /\ Turn(c, t, "log") /\ entered' = entered /\ spent' = spent \cup {code}
          /\ code \in Codes /\ writer' = writer /\ pc[c] \in LoginStates
      BY <1>6 DEF Exchanged, logVars, LoginStates
    <2>2. t \in Token
      <3>1. entered + life \in Nat
        BY TimeAssumption
      <3> QED  BY <3>1 DEF Token
    <2> HIDE DEF t
    <2>3. CallersType' /\ token' \in Token
      BY <1>1, <1>3, <2>1, <2>2 DEF LoginStates
    <2> QED  BY <1>0, <2>1, <2>3
  <1>7. CASE LoginError(c)
    <2>1. Go(c, "idle") /\ spent' \in {spent, spent \cup {code}} /\ (code = NoCode => spent' = spent)
          /\ UNCHANGED <<token, entered>> /\ writer' = writer
      BY <1>7, KeepsRunning DEF LoginError
    <2>2. CallersType'
      BY <1>2, <2>1 DEF LoginStates
    <2> QED  BY <1>0, <2>1, <2>2
  <1>8. CASE Report(c)
    <2>1. Go(c, "request") /\ UNCHANGED <<token, entered, spent>> /\ writer' = writer
      BY <1>8, KeepsRunning DEF Report
    <2>2. CallersType'
      BY <1>2, <2>1 DEF LoginStates
    <2> QED  BY <1>0, <2>1, <2>2
  <1>9. CASE Respond(c)
    <2>1. UNCHANGED <<token, entered, spent>> /\ writer' = writer
      BY <1>9 DEF Respond, logVars
    <2>2. CallersType'
      <3>1. CASE Go(c, "idle")
        BY <1>2, <3>1 DEF LoginStates
      <3>2. CASE c = "init" /\ Go(c, "commit")
        BY <1>0, <1>1, <3>2, GoType DEF CallerStates, LoginStates, RunCallers
      <3> QED  BY <1>9, <3>1, <3>2 DEF Respond
    <2> QED  BY <1>0, <2>1, <2>2
  <1> QED  BY <1>4, <1>5, <1>6, <1>7, <1>8, <1>9 DEF CallerStep

LEMMA TypeStep == TypeOK /\ [Next]_vars => TypeOK'
  <1> SUFFICES ASSUME TypeOK, [Next]_vars PROVE TypeOK'
    OBVIOUS
  <1>1. Log!TypeOK'
    <2>1. [LogProofs!Next]_(LogProofs!vars)
      BY LogStep, SameStep
    <2> QED  BY <2>1, Batched, Types, SameType, LogProofs!TypeStep
  <1>2. SUFFICES MemoryType'
    BY <1>1, Types DEF TypeOK, MemoryType, CallersType
  <1>3. MemoryType /\ Log!TypeOK
    BY Types
  <1>4. CASE UNCHANGED <<writer, mode, code, token, pc, entered, clock, spent>>
    BY <1>3, <1>4 DEF MemoryType, CallersType
  <1>5. ASSUME NEW m \in {"init", "run"}, Start(m) PROVE MemoryType'
    <2>1. lines \in Seq(LoginChange) /\ mode = "down" /\ writer' # "off"
      BY <1>3, <1>5 DEF Start, Log!Open, Log!TypeOK, MemoryType
    <2>2. token' \in Token /\ code' \in Codes \cup {NoCode}
      BY <1>5, <2>1, LastIs DEF Start
    <2>3. CallersType'
      BY <1>3, <1>5, <2>1
         DEF Start, MemoryType, CallersType, Go, Callers, RunCallers, CallerStates, LoginStates
    <2> QED  BY <1>3, <1>5, <2>1, <2>2, <2>3 DEF Start, MemoryType
  <1>6. ASSUME NEW c \in Codes \ spent, Setup(c) PROVE MemoryType'
    <2>1. "init" \in Callers /\ mode = "init" /\ "init" \notin RunCallers
      BY <1>3, <1>6 DEF Setup, Callers, RunCallers, MemoryType, CallersType
    <2>2. CallersType'
      BY <1>3, <1>6, <2>1, GoType DEF Setup, MemoryType, CallerStates, LoginStates
    <2> QED  BY <1>3, <1>6, <2>2, KeepsRunning DEF Setup, MemoryType
  <1>7. ASSUME NEW c \in RunCallers, Call(c) \/ DropRequest(c) \/ DropLogin(c) PROVE MemoryType'
    <2>1. c \in Callers /\ c # "init" /\ mode' = mode /\ mode = "run" /\ writer' = writer
      BY <1>3, <1>7, KeepsRunning
         DEF Callers, RunCallers, Call, DropRequest, DropLogin, MemoryType, CallersType, logVars,
             LoginStates
    <2>2. \E where \in {"wait", "idle"} : Go(c, where)
      BY <1>7 DEF Call, DropRequest, DropLogin
    <2>3. CallersType'
      BY <1>3, <2>1, <2>2, GoType DEF MemoryType, CallerStates, LoginStates
    <2>4. UNCHANGED <<token, code, entered, clock>> /\ spent' \subseteq Codes
      BY <1>3, <1>7 DEF Call, DropRequest, DropLogin, MemoryType
    <2> QED  BY <1>3, <2>1, <2>3, <2>4 DEF MemoryType
  <1>8. ASSUME NEW c \in Callers, CallerStep(c) PROVE MemoryType'
    BY <1>3, <1>8, CallerType
  <1>9. CASE WriterStep \/ CtrlC \/ WriterFails
    BY <1>3, <1>9, KeepsRunning
       DEF WriterStep, CtrlC, WriterFails, MemoryType, CallersType, loginVars
  <1>10. CASE ExitInit \/ ExitRun \/ Kill \/ PowerLoss
    BY <1>3, <1>10, DownType DEF ExitInit, ExitRun, Kill, PowerLoss, Log!Stop, Log!PowerLoss, Log!Forget
  <1>11. CASE Tick
    BY <1>3, <1>11 DEF Tick, MemoryType, CallersType, logVars, loginVars
  <1> QED
    BY <1>4, <1>5, <1>6, <1>7, <1>8, <1>9, <1>10, <1>11
       DEF Next, Fault, vars, logVars, loginVars


(***************************************************************************)
(* The token, the codes and the file                                       *)
(***************************************************************************)

Rest == LoginInv /\ FileInv /\ RunInv /\ InitInv /\ TokenIsRecoverable

LEMMA Parts == IInv <=> LogProofs!IInv /\ TypeOK /\ Rest
  BY DEF IInv, Rest

\* What the lemmas below need of the types.
LEMMA SeqTypes ==
    ASSUME TypeOK
    PROVE  /\ lines \in Seq(LoginChange) /\ uncommitted \in Seq(LoginChange)
           /\ Reported \in Seq(LoginChange)
           /\ token \in Token /\ code \in Codes \cup {NoCode}
           /\ CallersType
  <1>1. lines \in Seq(LoginChange) /\ uncommitted \in Seq(LoginChange)
    BY DEF TypeOK, Log!TypeOK
  <1>2. Reported \in Seq(LoginChange)
    BY <1>1, ConcatProperties DEF Reported
  <1> QED  BY <1>1, <1>2 DEF TypeOK, CallersType

\* Steps that leave the login, the file and the queue alone.
LEMMA SameRest ==
    ASSUME Rest,
           UNCHANGED <<lines, tail, uncommitted, mode, writer, token, code>>,
           spent \subseteq spent',
           \A c \in Callers : pc'[c] = pc[c] \/ pc'[c] \in {"idle", "wait"},
           pc'["init"] = pc["init"] \/ (pc'["init"] = "idle" /\ pc["init"] # "commit"),
           cancelled' \/ (LoggingIn' = LoggingIn /\ cancelled' = cancelled)
    PROVE  Rest'
  <1>1. LoginInv'
    BY DEF Rest, LoginInv
  <1>2. FileInv'
    <2>1. Good(lines', spent')
      BY GoodGrows DEF Rest, FileInv
    <2>2. (mode' = "run" \/ pc'["init"] \in {"request", "commit"})
              /\ writer' # "done" /\ tail' # "garbled" => Good(Reported', spent')
      BY GoodGrows DEF Rest, FileInv, Reported
    <2> QED  BY <2>1, <2>2 DEF FileInv
  <1>3. RunInv'
    BY DEF Rest, RunInv
  <1>4. InitInv'
    BY DEF Rest, InitInv, Reported, BeforeLogin
  <1>5. TokenIsRecoverable'
    BY DEF Rest, TokenIsRecoverable, Reported
  <1> QED  BY <1>1, <1>2, <1>3, <1>4, <1>5 DEF Rest


\* Who has a place in init's dialogue is init.
LEMMA Names ==
    /\ "init" \in Callers /\ RunCallers \subseteq Callers /\ "init" \notin RunCallers
    /\ \A c \in Callers : c = "init" \/ c \in RunCallers
  BY DEF Callers, RunCallers

\* Requests that begin, end or are dropped, errors, Ctrl+C and the clock.
LEMMA QuietRest ==
    ASSUME IInv,
           \/ \E c \in RunCallers : Call(c) \/ DropRequest(c) \/ DropLogin(c)
           \/ \E c \in Callers : LoginError(c)
           \/ CtrlC \/ Tick \/ UNCHANGED vars
    PROVE  Rest'
  <1>0. Rest /\ CallersType /\ pc \in [Callers -> CallerStates]
    BY Parts, SeqTypes DEF CallersType
  <1>1. ASSUME NEW c \in RunCallers, Call(c) \/ DropRequest(c) PROVE Rest'
    <2>1. /\ UNCHANGED <<lines, tail, uncommitted, mode, writer, token, code, spent, cancelled>>
          /\ pc[c] \notin LoginStates
          /\ \E where \in {"wait", "idle"} : pc' = [pc EXCEPT ![c] = where]
      BY <1>1 DEF Call, DropRequest, logVars, Go, LoginStates
    <2>2. /\ \A d \in Callers : pc'[d] = pc[d] \/ pc'[d] \in {"idle", "wait"}
          /\ pc'["init"] = pc["init"]
          /\ \A d \in Callers : pc'[d] \in LoginStates <=> pc[d] \in LoginStates
      BY <1>0, <2>1, Names DEF LoginStates
    <2>3. LoggingIn' = LoggingIn
      BY <2>2 DEF LoggingIn
    <2> QED  BY <1>0, <2>1, <2>2, <2>3, SameRest
  <1>2. ASSUME NEW c \in Callers, DropLogin(c) \/ LoginError(c) PROVE Rest'
    <2>1. /\ UNCHANGED <<lines, tail, uncommitted, mode, writer, token, code>>
          /\ cancelled' /\ spent \subseteq spent'
          /\ pc' = [pc EXCEPT ![c] = "idle"] /\ pc[c] # "commit"
      BY <1>2 DEF DropLogin, LoginError, Go, LoginStates, Log!Cancel, Log!fileVars, Log!memoryVars
    <2>2. /\ \A d \in Callers : pc'[d] = pc[d] \/ pc'[d] \in {"idle", "wait"}
          /\ pc'["init"] = pc["init"] \/ (pc'["init"] = "idle" /\ pc["init"] # "commit")
      BY <1>0, <2>1, Names
    <2> QED  BY <1>0, <2>1, <2>2, SameRest
  <1>3. CASE CtrlC
    BY <1>0, <1>3, SameRest DEF CtrlC, Log!Cancel, Log!fileVars, Log!memoryVars, loginVars
  <1>4. CASE Tick \/ UNCHANGED vars
    BY <1>0, <1>4, SameRest DEF Tick, vars, logVars, loginVars, LoggingIn
  <1> QED  BY <1>1, <1>2, <1>3, <1>4, Names

\* What the next step of a login, in the midst of it or at its begin, leaves.
LEMMA LoginRest ==
    ASSUME IInv, NEW c \in Callers, NEW t \in Token, NEW then, Turn(c, t, then),
           UNCHANGED <<logVars, mode, code>>, entered' \in Nat, spent \subseteq spent',
           t.access => t.refresh # NoCode,
           \A d \in Callers : pc[d] \in LoginStates => d = c,
           \/ pc[c] = "wait" /\ then = "request" /\ t = token
           \/ pc[c] = "refresh" /\ then = "log" /\ t.refresh = token.refresh
           \/ /\ pc[c] = "exchange" /\ then = "log" /\ t.refresh # NoCode
              /\ mode = "init" /\ code \in spent'
    PROVE  Rest'
  <1>0. Rest /\ pc \in [Callers -> CallerStates] /\ CallersType
        /\ lines \in Seq(LoginChange) /\ Reported \in Seq(LoginChange)
    BY Parts, SeqTypes DEF CallersType
  <1>1. /\ token' \in Token /\ token'.refresh = t.refresh /\ (token'.access => t.access)
        /\ \/ pc' = [pc EXCEPT ![c] = then] /\ token' = t /\ t.access
           \/ pc' = [pc EXCEPT ![c] = "exchange"] /\ t.refresh = NoCode
           \/ pc' = [pc EXCEPT ![c] = "refresh"] /\ t.refresh # NoCode
    BY TurnEnds DEF Go
  <1>2. UNCHANGED <<lines, tail, uncommitted, writer, cancelled, Reported>>
    BY DEF logVars, Reported
  <1>3. /\ \A d \in Callers : d # c => pc'[d] = pc[d] /\ pc'[d] \notin LoginStates
        /\ \/ pc'[c] = then /\ token' = t /\ t.access
           \/ pc'[c] = "exchange" /\ t.refresh = NoCode
           \/ pc'[c] = "refresh" /\ t.refresh # NoCode
    BY <1>0, <1>1
  <1>4. LoginInv'
    BY <1>1, <1>3 DEF LoginInv, LoginStates
  <1>5. /\ c \in RunCallers => mode = "run"
        /\ c = "init" => mode = "init"
        /\ c = "init" \/ c \in RunCallers
    BY <1>0, CallerMode, Names
  <1>6. pc'["init"] = "request" /\ pc["init"] # "request" =>
            /\ c = "init" /\ pc[c] = "wait" /\ token' = token
            /\ Good(Reported, spent)
            /\ LastToken(Reported) = token /\ LastCode(Reported) = code
            /\ token.refresh # NoCode
    <2> SUFFICES ASSUME pc'["init"] = "request", pc["init"] # "request"
                 PROVE  /\ c = "init" /\ pc[c] = "wait" /\ token' = token
                        /\ Good(Reported, spent)
                        /\ LastToken(Reported) = token /\ LastCode(Reported) = code
                        /\ token.refresh # NoCode
      OBVIOUS
    <2>1. c = "init" /\ pc[c] = "wait" /\ token' = token /\ token.refresh # NoCode
      BY <1>3, Names
    <2>2. /\ mode = "init" /\ uncommitted = <<ClientData(code)>>
          /\ token = LastToken(lines) /\ (HasToken(lines) \/ code \in spent)
          /\ Good(lines, spent)
      BY <1>0, <1>5, <2>1 DEF Rest, InitInv, FileInv, BeforeLogin
    <2>3. HasToken(lines) /\ code \in Codes \cup {NoCode}
      <3>1. NoToken.refresh = NoCode
        BY DEF NoToken
      <3> QED  BY <1>0, <2>1, <2>2, <3>1, LastIs, SeqTypes DEF IInv
    <2>4. ClientData(code) \in LoginChange /\ ClientData(code).kind = "client"
          /\ ClientData(code).code = code
      BY <2>3 DEF ClientData, LoginChange, NoToken, Token
    <2>5. Reported = Append(lines, ClientData(code))
      BY <1>0, <2>2, <2>4, AppendIsConcat DEF Reported
    <2> QED  BY <1>0, <2>1, <2>2, <2>3, <2>4, <2>5, GoodAppend, LastAppend
  <1>7. FileInv'
    <2>1. Good(lines', spent')
      BY <1>0, <1>2, GoodGrows DEF Rest, FileInv
    <2>2. ASSUME (mode' = "run" \/ pc'["init"] \in {"request", "commit"}),
                 writer' # "done", tail' # "garbled"
          PROVE  Good(Reported', spent')
      <3>1. Good(Reported, spent)
        <4>1. CASE pc'["init"] = "request" /\ pc["init"] # "request"
          BY <1>6, <4>1
        <4>2. CASE ~ (pc'["init"] = "request" /\ pc["init"] # "request")
          <5>1. mode = "run" \/ pc["init"] \in {"request", "commit"}
            BY <1>3, <2>2, <4>2, Names
          <5> QED  BY <1>0, <1>2, <2>2, <5>1 DEF Rest, FileInv
        <4> QED  BY <4>1, <4>2
      <3> QED  BY <1>2, <3>1, GoodGrows
    <2> QED  BY <2>1, <2>2 DEF FileInv
  <1>8. RunInv'
    BY <1>0, <1>1 DEF Rest, RunInv
  <1>9. InitInv'
    <2> SUFFICES ASSUME mode = "init" PROVE InitInv'
      BY DEF InitInv
    <2>1. c = "init"
      BY <1>5
    <2>2. /\ pc["init"] \in BeforeLogin /\ pc["init"] # "commit" /\ pc["init"] # "request"
          /\ pc'["init"] \in {"refresh", "exchange", "log", "request"}
          /\ pc'["init"] = "request" <=> pc'["init"] \notin BeforeLogin
      BY <1>3, <2>1 DEF BeforeLogin
    <2>3. /\ writer = "commit" /\ uncommitted = <<ClientData(code)>>
          /\ token.refresh # NoCode => HasToken(lines) \/ code \in spent
          /\ writer \in {"sync", "select"} => uncommitted = <<>>
      BY <1>0, <2>2 DEF Rest, InitInv
    <2>4. token'.refresh # NoCode => HasToken(lines) \/ code \in spent'
      BY <1>1, <2>3
    <2>5. UNCHANGED <<code, mode>>
      OBVIOUS
    <2> QED  BY <1>2, <1>6, <2>2, <2>3, <2>4, <2>5 DEF InitInv
  <1>10. TokenIsRecoverable'
    <2> SUFFICES ASSUME mode = "run", writer # "done", tail # "garbled"
                 PROVE  /\ token'.refresh = LastToken(Reported).refresh
                        /\ ~LoggingIn' /\ ~cancelled => token' = LastToken(Reported)
      BY <1>2 DEF TokenIsRecoverable
    <2>1. /\ token.refresh = LastToken(Reported).refresh
          /\ ~LoggingIn /\ ~cancelled => token = LastToken(Reported)
      BY <1>0 DEF Rest, TokenIsRecoverable
    <2>2. token'.refresh = token.refresh
      BY <1>1
    <2>3. ~LoggingIn' => ~LoggingIn /\ token' = token
      <3>1. ~LoggingIn' => pc'[c] = "request"
        BY <1>3 DEF LoggingIn, LoginStates
      <3>2. pc'[c] = "request" => pc[c] = "wait" /\ token' = token
        BY <1>3
      <3>3. pc[c] = "wait" => ~LoggingIn
        BY DEF LoggingIn, LoginStates
      <3> QED  BY <3>1, <3>2, <3>3
    <2> QED  BY <2>1, <2>2, <2>3
  <1> QED  BY <1>4, <1>7, <1>8, <1>9, <1>10 DEF Rest


LEMMA TurnRest ==
    ASSUME IInv, NEW c \in Callers
    PROVE  /\ Acquire(c) => Rest'
           /\ \A life \in Lifetimes : Refreshed(c, life) => Rest'
           /\ \A life \in Lifetimes, access \in BOOLEAN : Exchanged(c, life, access) => Rest'
  <1>0. /\ Rest /\ CallersType /\ token \in Token /\ code \in Codes \cup {NoCode}
        /\ entered \in Nat /\ clock \in Nat
    BY Parts, SeqTypes DEF TypeOK
  <1>1. pc[c] \in LoginStates => \A d \in Callers : pc[d] \in LoginStates => d = c
    BY <1>0 DEF CallersType
  <1>2. ASSUME Acquire(c) PROVE Rest'
    <2>1. /\ Turn(c, token, "request") /\ UNCHANGED <<logVars, mode, code, spent>>
          /\ entered' \in Nat /\ pc[c] = "wait"
          /\ \A d \in Callers : pc[d] \in LoginStates => d = c
          /\ token.access => token.refresh # NoCode
      BY <1>0, <1>2 DEF Acquire, Rest, LoginInv
    <2> QED  BY <1>0, <2>1, LoginRest
  <1>3. ASSUME NEW life \in Lifetimes, Refreshed(c, life) PROVE Rest'
    <2> DEFINE t == [token EXCEPT !.access = TRUE, !.expires = entered + life]
    <2>1. t \in Token /\ t.refresh = token.refresh
      <3>1. entered + life \in Nat
        BY <1>0, TimeAssumption
      <3> QED  BY <1>0, <3>1 DEF Token
    <2>2. /\ Turn(c, t, "log") /\ UNCHANGED <<logVars, mode, code, spent>>
          /\ entered' \in Nat /\ pc[c] = "refresh" /\ pc[c] \in LoginStates
      BY <1>0, <1>3 DEF Refreshed, LoginStates
    <2>3. token.refresh # NoCode
      BY <1>0, <2>2 DEF Rest, LoginInv
    <2> HIDE DEF t
    <2> QED  BY <1>1, <2>1, <2>2, <2>3, LoginRest
  <1>4. ASSUME NEW life \in Lifetimes, NEW access \in BOOLEAN, Exchanged(c, life, access)
        PROVE  Rest'
    <2> DEFINE t == [access |-> access, refresh |-> code, expires |-> entered + life]
    <2>1. t \in Token /\ t.refresh = code
      <3>1. entered + life \in Nat
        BY <1>0, TimeAssumption
      <3> QED  BY <1>0, <3>1 DEF Token
    <2>2. /\ Turn(c, t, "log") /\ UNCHANGED <<logVars, mode, code>>
          /\ entered' \in Nat /\ pc[c] = "exchange" /\ pc[c] \in LoginStates
          /\ code \notin spent \cup {NoCode} /\ spent' = spent \cup {code}
      BY <1>0, <1>4 DEF Exchanged, LoginStates
    <2>3. mode = "init"
      <3>1. c \in RunCallers => mode = "run"
        BY <1>0, <2>2, CallerMode
      <3>2. mode # "run"
        BY <1>0, <2>2 DEF Rest, RunInv, LoginInv
      <3> QED  BY <1>0, <2>2, <3>1, <3>2, CallerMode
    <2> HIDE DEF t
    <2> QED  BY <1>1, <2>1, <2>2, <2>3, LoginRest
  <1> QED  BY <1>2, <1>3, <1>4

\* The report is the last thing a login does.
LEMMA ReportRest ==
    ASSUME IInv, NEW c \in Callers, Report(c)
    PROVE  Rest'
  <1>0. /\ Rest /\ CallersType /\ pc \in [Callers -> CallerStates]
        /\ lines \in Seq(LoginChange) /\ uncommitted \in Seq(LoginChange)
        /\ Reported \in Seq(LoginChange) /\ token \in Token /\ code \in Codes \cup {NoCode}
    BY Parts, SeqTypes DEF CallersType
  <1> DEFINE x == RedditToken(token)
  <1>1. /\ pc[c] = "log" /\ pc' = [pc EXCEPT ![c] = "request"]
        /\ uncommitted' = uncommitted \o <<x>> /\ writer \notin {"off", "send"}
        /\ UNCHANGED <<lines, tail, synced, writer, cancelled, token, mode, code, spent>>
    BY DEF Report, Go, Log!LogChanges, Log!fileVars
  <1>2. token.refresh # NoCode
    BY <1>0, <1>1 DEF Rest, LoginInv
  <1>3. x \in LoginChange /\ x.kind = "token" /\ x.token = token
    BY <1>0, Batched DEF RedditToken
  <1> HIDE DEF x
  <1>4. Reported' = Append(Reported, x)
    BY <1>0, <1>1, <1>3, Reported1 DEF Reported
  <1>5. LastToken(Reported') = token /\ LastCode(Reported') = LastCode(Reported)
    BY <1>0, <1>3, <1>4, LastAppend
  <1>6. /\ pc'[c] = "request" /\ \A d \in Callers : d # c => pc'[d] = pc[d]
        /\ \A d \in Callers : pc'[d] \notin LoginStates
    BY <1>0, <1>1 DEF CallersType, LoginStates
  <1>7. /\ c \in RunCallers => mode = "run"
        /\ c = "init" => mode = "init"
        /\ c = "init" \/ c \in RunCallers
    BY <1>0, <1>1, CallerMode, Names
  <1>8. mode = "init" =>
            /\ c = "init" /\ writer = "commit" /\ LastCode(Reported) = code
            /\ Good(Reported, spent)
    <2> SUFFICES ASSUME mode = "init"
                 PROVE  /\ c = "init" /\ writer = "commit" /\ LastCode(Reported) = code
                        /\ Good(Reported, spent)
      OBVIOUS
    <2>1. c = "init"
      BY <1>7
    <2>2. /\ writer = "commit" /\ uncommitted = <<ClientData(code)>>
          /\ HasToken(lines) \/ code \in spent
          /\ Good(lines, spent)
      BY <1>0, <1>1, <1>2, <2>1 DEF Rest, InitInv, FileInv, BeforeLogin
    <2>3. ClientData(code) \in LoginChange /\ ClientData(code).kind = "client"
          /\ ClientData(code).code = code
      BY <1>0 DEF ClientData, LoginChange, NoToken, Token
    <2>4. Reported = Append(lines, ClientData(code))
      BY <1>0, <2>2, <2>3, AppendIsConcat DEF Reported
    <2> QED  BY <1>0, <2>1, <2>2, <2>3, <2>4, GoodAppend, LastAppend
  <1>9. LoginInv'
    BY <1>0, <1>1, <1>6 DEF Rest, LoginInv, LoginStates
  <1>10. FileInv'
    <2>1. ASSUME (mode' = "run" \/ pc'["init"] \in {"request", "commit"}),
                 writer' # "done", tail' # "garbled"
          PROVE  Good(Reported', spent)
      <3>1. Good(Reported, spent)
        <4>1. CASE mode = "init"
          BY <1>8, <4>1
        <4>2. CASE mode = "run"
          BY <1>0, <1>1, <2>1, <4>2 DEF Rest, FileInv
        <4> QED  BY <1>7, <4>1, <4>2
      <3> QED  BY <1>0, <1>2, <1>3, <1>4, <3>1, GoodAppend
    <2> QED  BY <1>0, <1>1, <2>1 DEF Rest, FileInv
  <1>11. RunInv'
    BY <1>0, <1>1 DEF Rest, RunInv
  <1>12. InitInv'
    <2> SUFFICES ASSUME mode = "init" PROVE InitInv'
      BY <1>1 DEF InitInv
    <2>1. c = "init" /\ pc'["init"] = "request" /\ writer' = "commit"
      BY <1>1, <1>6, <1>8
    <2> QED  BY <1>1, <1>2, <1>5, <1>8, <2>1 DEF InitInv, BeforeLogin
  <1>13. TokenIsRecoverable'
    BY <1>1, <1>5 DEF TokenIsRecoverable
  <1> QED  BY <1>9, <1>10, <1>11, <1>12, <1>13 DEF Rest

LEMMA RespondRest ==
    ASSUME IInv, NEW c \in Callers, Respond(c)
    PROVE  Rest'
  <1>0. Rest /\ CallersType /\ pc \in [Callers -> CallerStates]
    BY Parts, SeqTypes DEF CallersType
  <1>1. /\ pc[c] = "request"
        /\ UNCHANGED <<lines, tail, uncommitted, writer, cancelled, token, mode, code, spent>>
        /\ \/ pc' = [pc EXCEPT ![c] = "idle"]
           \/ c = "init" /\ pc' = [pc EXCEPT ![c] = "commit"]
    BY DEF Respond, Go, logVars
  <1>2. CASE pc' = [pc EXCEPT ![c] = "idle"]
    <2>1. /\ \A d \in Callers : pc'[d] = pc[d] \/ pc'[d] \in {"idle", "wait"}
          /\ pc'["init"] = pc["init"] \/ (pc'["init"] = "idle" /\ pc["init"] # "commit")
          /\ \A d \in Callers : pc'[d] \in LoginStates <=> pc[d] \in LoginStates
      BY <1>0, <1>1, <1>2, Names DEF LoginStates
    <2>2. LoggingIn' = LoggingIn
      BY <2>1 DEF LoggingIn
    <2> QED  BY <1>0, <1>1, <2>1, <2>2, SameRest
  <1>3. CASE c = "init" /\ pc' = [pc EXCEPT ![c] = "commit"]
    <2>1. /\ mode = "init" /\ pc["init"] = "request" /\ pc'["init"] = "commit"
          /\ \A d \in Callers : d # "init" => pc'[d] = pc[d]
      BY <1>0, <1>1, <1>3, CallerMode
    <2>2. LoginInv'
      BY <1>0, <1>1, <2>1 DEF Rest, LoginInv
    <2>3. FileInv' /\ RunInv' /\ TokenIsRecoverable'
      BY <1>0, <1>1, <2>1 DEF Rest, FileInv, RunInv, TokenIsRecoverable, Reported
    <2>4. InitInv'
      BY <1>0, <1>1, <2>1 DEF Rest, InitInv, Reported, BeforeLogin
    <2> QED  BY <2>2, <2>3, <2>4 DEF Rest
  <1> QED  BY <1>1, <1>2, <1>3


\* The lines are a prefix of what they were, or one more.
IsCut == Len(lines') <= Len(lines) /\ \A i \in 1..Len(lines') : lines'[i] = lines[i]

IsSent ==
    /\ writer = "send" /\ tail = "clean" /\ uncommitted # <<>>
    /\ lines' = Append(lines, Head(uncommitted))

LEMMA Garbled ==
    ASSUME TypeOK, Log!Garble
    PROVE  IsCut /\ tail' = "garbled" /\ (tail # "unterminated" => lines' = lines)
  <1> DEFINE n == Log!Terminated
  <1>1. /\ lines \in Seq(LoginChange) /\ n \in 0..Len(lines)
        /\ tail # "unterminated" => n = Len(lines)
    BY DEF TypeOK, Log!TypeOK, Log!Terminated
  <1>2. lines' = SubSeq(lines, 1, n) /\ tail' = "garbled"
    BY DEF Log!Garble
  <1> HIDE DEF n
  <1>3. /\ Len(SubSeq(lines, 1, n)) = n
        /\ \A i \in 1..n : SubSeq(lines, 1, n)[i] = lines[i]
    BY <1>1
  <1>4. SubSeq(lines, 1, Len(lines)) = lines
    BY <1>1, SubSeqFull
  <1>5. IsCut
    BY <1>1, <1>2, <1>3 DEF IsCut
  <1> QED  BY <1>1, <1>2, <1>4, <1>5

\* What the writer makes of the file.
LEMMA WriterFile ==
    ASSUME TypeOK, Log!WriterStep \/ Log!SendFails \/ Log!SyncFails
    PROVE  /\ IsCut \/ IsSent
           /\ Log!WriterStep => /\ tail' # "garbled" => tail # "garbled" /\ Reported' = Reported
                                /\ writer' # "done" => writer # "done"
                                /\ writer' = "sync" => uncommitted' = <<>>
                                /\ writer' = "select" => writer = "sync" /\ uncommitted' = uncommitted
           /\ ~Log!WriterStep => writer' = "done"
  <1>0. lines \in Seq(LoginChange) /\ uncommitted \in Seq(LoginChange)
    BY DEF TypeOK, Log!TypeOK
  <1>1. CASE Log!SendLine
    <2>1. /\ writer = "send" /\ writer' = "send" /\ uncommitted # <<>>
          /\ uncommitted' = Tail(uncommitted) /\ Log!WriterStep
      BY <1>1 DEF Log!SendLine, Log!WriterStep
    <2>2. CASE tail = "clean"
      <3>1. lines' = Append(lines, Head(uncommitted)) /\ tail' = tail
        BY <1>1, <2>2 DEF Log!SendLine, Log!AppendLine
      <3>2. PICK x \in LoginChange : TRUE
        BY <1>0, <2>1
      <3>3. Reported' = Reported
        BY <1>0, <2>1, <3>1, <3>2, Reported1 DEF Reported
      <3> QED  BY <2>1, <2>2, <3>1, <3>3 DEF IsSent
    <2>3. CASE tail # "clean"
      <3>1. Log!Garble
        BY <1>1, <2>3 DEF Log!SendLine, Log!AppendLine
      <3> QED  BY <2>1, <3>1, Garbled
    <2> QED  BY <2>2, <2>3
  <1>2. CASE Log!SendFails
    <2>1. writer = "send" /\ uncommitted # <<>> /\ writer' = "done" /\ ~Log!WriterStep
      BY <1>2 DEF Log!SendFails, Log!Finish, Log!WriterStep, Log!BeginCommit, Log!SendLine,
                  Log!EndSend, Log!Sync, Log!SelectNotified, Log!SelectCancelled
    <2>2. IsCut \/ IsSent
      <3>1. CASE UNCHANGED lines
        BY <3>1 DEF IsCut
      <3>2. CASE Log!Garble
        BY <3>2, Garbled
      <3>3. CASE tail = "clean" /\ lines' = Append(lines, Head(uncommitted))
        BY <2>1, <3>3 DEF IsSent
      <3> QED  BY <1>2, <3>1, <3>2, <3>3 DEF Log!SendFails, Log!AppendTorn, Log!fileVars
    <2> QED  BY <2>1, <2>2
  <1>3. CASE Log!SyncFails
    <2>1. writer = "sync" /\ writer' = "done" /\ UNCHANGED lines /\ ~Log!WriterStep
      BY <1>3 DEF Log!SyncFails, Log!Finish, Log!fileVars, Log!WriterStep, Log!BeginCommit,
                  Log!SendLine, Log!EndSend, Log!Sync, Log!SelectNotified, Log!SelectCancelled
    <2> QED  BY <2>1 DEF IsCut
  <1>4. CASE Log!BeginCommit \/ Log!EndSend \/ Log!Sync \/ Log!SelectNotified \/ Log!SelectCancelled
    <2>1. UNCHANGED <<lines, tail, uncommitted>> /\ Log!WriterStep
      BY <1>4 DEF Log!BeginCommit, Log!EndSend, Log!Sync, Log!SelectNotified, Log!SelectCancelled,
                  Log!fileVars, Log!memoryVars, Log!WriterStep
    <2>2. /\ writer' # "done" => writer # "done"
          /\ writer' = "sync" => uncommitted' = <<>>
          /\ writer' = "select" => writer = "sync"
      BY <1>4, <2>1 DEF Log!BeginCommit, Log!EndSend, Log!Sync, Log!SelectNotified,
                        Log!SelectCancelled, Log!Finish
    <2> QED  BY <2>1, <2>2 DEF IsCut, Reported
  <1> QED  BY <1>1, <1>2, <1>3, <1>4 DEF Log!WriterStep

LEMMA WriterRest ==
    ASSUME IInv, WriterStep \/ WriterFails
    PROVE  Rest'
  <1>0. /\ Rest /\ TypeOK /\ lines \in Seq(LoginChange) /\ uncommitted \in Seq(LoginChange)
        /\ Reported \in Seq(LoginChange) /\ (mode = "run" => pc["init"] = "idle")
    BY Parts, SeqTypes DEF CallersType
  <1>1. /\ Log!WriterStep \/ Log!SendFails \/ Log!SyncFails
        /\ mode = "run" \/ pc["init"] = "commit"
        /\ UNCHANGED <<mode, code, token, pc, spent>>
    BY DEF WriterStep, WriterFails, Commits, loginVars
  <1>2. [Next]_vars
    BY DEF Next, Fault
  <1>3. lines' \in Seq(LoginChange) /\ uncommitted' \in Seq(LoginChange)
    BY <1>0, <1>2, TypeStep DEF TypeOK, Log!TypeOK
  <1>4. LoginInv' /\ RunInv'
    BY <1>0, <1>1 DEF Rest, LoginInv, RunInv
  <1>5. FileInv'
    <2>1. Good(lines', spent)
      <3>1. CASE IsCut
        BY <1>0, <1>3, <3>1, GoodPrefix DEF Rest, FileInv, IsCut
      <3>2. CASE IsSent
        <4>1. Good(Reported, spent) /\ Reported = lines' \o Tail(uncommitted)
          <5>1. PICK x \in LoginChange : TRUE
            BY <1>0, <3>2 DEF IsSent
          <5> QED  BY <1>0, <1>1, <3>2, <5>1, Reported1 DEF IsSent, Rest, FileInv, Reported
        <4>2. Tail(uncommitted) \in Seq(LoginChange)
          BY <1>0, <3>2 DEF IsSent
        <4>3. Len(lines') <= Len(Reported) /\ \A i \in 1..Len(lines') : lines'[i] = Reported[i]
          BY <1>3, <4>1, <4>2, ConcatProperties, LenProperties
        <4> QED  BY <1>0, <1>3, <4>1, <4>3, GoodPrefix
      <3> QED  BY <1>0, <1>1, <3>1, <3>2, WriterFile
    <2>2. ASSUME writer' # "done", tail' # "garbled" PROVE Good(Reported', spent)
      <3>1. Reported' = Reported /\ writer # "done" /\ tail # "garbled"
        BY <1>0, <1>1, <2>2, WriterFile
      <3> QED  BY <1>0, <1>1, <3>1 DEF Rest, FileInv
    <2> QED  BY <1>1, <2>1, <2>2 DEF FileInv
  <1>6. ASSUME writer' # "done"
        PROVE  /\ tail' # "garbled" => tail # "garbled" /\ Reported' = Reported
               /\ writer # "done"
               /\ writer' = "sync" => uncommitted' = <<>>
               /\ writer' = "select" => writer = "sync" /\ uncommitted' = uncommitted
    BY <1>0, <1>1, <1>6, WriterFile
  <1>7. InitInv'
    BY <1>0, <1>1, <1>6 DEF Rest, InitInv, BeforeLogin
  <1>8. TokenIsRecoverable'
    <2>1. LoggingIn' = LoggingIn
      BY <1>1 DEF LoggingIn
    <2>2. cancelled => cancelled'
      BY <1>1 DEF Log!WriterStep, Log!BeginCommit, Log!SendLine, Log!EndSend, Log!Sync,
                  Log!SelectNotified, Log!SelectCancelled, Log!Finish, Log!SendFails, Log!SyncFails
    <2> QED  BY <1>0, <1>1, <1>6, <2>1, <2>2 DEF Rest, TokenIsRecoverable
  <1> QED  BY <1>4, <1>5, <1>7, <1>8 DEF Rest

\* The end of a process takes nothing from the middle of the file.
LEMMA DownCuts ==
    ASSUME TypeOK, lines \in Seq(LoginChange), ExitInit \/ ExitRun \/ Kill \/ PowerLoss
    PROVE  IsCut
  <1>1. CASE UNCHANGED lines
    BY <1>1 DEF IsCut
  <1>2. ASSUME NEW n \in 0..Len(lines), lines' = SubSeq(lines, 1, n) PROVE IsCut
    <2>1. Len(SubSeq(lines, 1, n)) = n /\ \A i \in 1..n : SubSeq(lines, 1, n)[i] = lines[i]
      OBVIOUS
    <2> QED  BY <1>2, <2>1 DEF IsCut
  <1>3. CASE PowerLoss
    <2>1. synced \in 0..Len(lines)
      BY DEF TypeOK, Log!TypeOK
    <2>2. \A n \in synced..(Len(lines) - 1) : n \in 0..Len(lines) /\ n + 1 \in 0..Len(lines)
      BY <2>1
    <2>3. \/ UNCHANGED lines
          \/ \E n \in synced..(Len(lines) - 1) :
                 lines' = SubSeq(lines, 1, n) \/ lines' = SubSeq(lines, 1, n + 1)
      BY <1>3 DEF PowerLoss, Log!PowerLoss
    <2> QED  BY <1>1, <1>2, <2>2, <2>3
  <1> QED  BY <1>1, <1>3 DEF ExitInit, ExitRun, Kill, Log!Stop, Log!fileVars

LEMMA DownRest ==
    ASSUME IInv, ExitInit \/ ExitRun \/ Kill \/ PowerLoss
    PROVE  Rest'
  <1>0. Rest /\ TypeOK /\ lines \in Seq(LoginChange)
    BY Parts, SeqTypes
  <1>1. /\ mode' = "down" /\ token' = NoToken /\ spent' = spent
        /\ \A c \in Callers : pc'[c] = "idle"
    BY DEF ExitInit, ExitRun, Kill, PowerLoss, Down
  <1>2. IsCut
    BY <1>0, DownCuts
  <1>3. Good(lines', spent')
    <2>1. lines' \in Seq(LoginChange)
      <3>1. [Next]_vars
        BY DEF Next, Fault
      <3> QED  BY <1>0, <3>1, TypeStep DEF TypeOK, Log!TypeOK
    <2> QED  BY <1>0, <1>1, <1>2, <2>1, GoodPrefix DEF IsCut, Rest, FileInv
  <1>4. FileInv'
    BY <1>1, <1>3, Names DEF FileInv
  <1> QED
    BY <1>1, <1>4 DEF Rest, LoginInv, RunInv, InitInv, TokenIsRecoverable, NoToken

LEMMA StartRest ==
    ASSUME IInv, NEW m \in {"init", "run"}, Start(m)
    PROVE  Rest'
  <1>0. /\ Rest /\ TypeOK /\ CallersType /\ lines \in Seq(LoginChange)
    BY Parts, SeqTypes
  <1>1. /\ writer = "off" /\ writer' = "commit" /\ mode' = m /\ spent' = spent
        /\ UNCHANGED <<lines, tail, uncommitted>>
        /\ token' = LastToken(lines) /\ code' = LastCode(lines)
        /\ IF m = "init" THEN pc' = [pc EXCEPT !["init"] = "setup"] ELSE pc' = pc
    BY DEF Start, Go, Log!Open, Log!fileVars, Log!memoryVars
  <1>2. mode = "down" /\ \A c \in Callers : pc[c] = "idle"
    BY <1>0, <1>1, Names DEF TypeOK, CallersType
  <1>3. uncommitted = <<>> /\ Reported' = lines
    <2>1. uncommitted = <<>>
      BY <1>1 DEF IInv, LogProofs!IInv, LogProofs!OffIsEmpty
    <2> QED  BY <1>0, <1>1, <2>1, ConcatEmptySeq DEF Reported
  <1>4. Good(lines, spent)
    BY <1>0 DEF Rest, FileInv
  <1>5. /\ HasToken(lines) => token'.refresh # NoCode
        /\ ~HasToken(lines) => token' = NoToken /\ code' \in spent \cup {NoCode}
    BY <1>0, <1>1, <1>4, GoodStart
  <1>6. \A c \in Callers : pc'[c] \in {"idle", "setup"} /\ (pc'[c] = "setup" => m = "init")
    BY <1>0, <1>1, <1>2 DEF CallersType
  <1>7. LoginInv'
    BY <1>5, <1>6 DEF LoginInv, NoToken
  <1>8. FileInv'
    BY <1>1, <1>3, <1>4 DEF FileInv
  <1>9. RunInv'
    BY <1>1, <1>5 DEF RunInv
  <1>10. InitInv'
    BY <1>1, <1>3, <1>6, Names DEF InitInv, BeforeLogin
  <1>11. TokenIsRecoverable'
    BY <1>1, <1>3 DEF TokenIsRecoverable
  <1> QED  BY <1>7, <1>8, <1>9, <1>10, <1>11 DEF Rest

LEMMA SetupRest ==
    ASSUME IInv, NEW c \in Codes, Setup(c)
    PROVE  Rest'
  <1>0. /\ Rest /\ TypeOK /\ CallersType /\ lines \in Seq(LoginChange)
        /\ pc \in [Callers -> CallerStates]
    BY Parts, SeqTypes DEF CallersType
  <1>1. /\ pc["init"] = "setup" /\ mode = "init"
        /\ pc' = [pc EXCEPT !["init"] = "wait"] /\ code' = c
        /\ uncommitted' = uncommitted \o <<ClientData(c)>>
        /\ UNCHANGED <<lines, tail, writer, cancelled, token, mode, spent>>
    BY <1>0 DEF Setup, Go, Log!LogChanges, Log!fileVars, CallersType
  <1>2. writer = "commit" /\ uncommitted = <<>> /\ token = LastToken(lines) /\ Good(lines, spent)
    BY <1>0, <1>1 DEF Rest, InitInv, FileInv
  <1>3. uncommitted' = <<ClientData(code')>>
    BY <1>1, <1>2
  <1>4. /\ pc'["init"] = "wait" /\ \A d \in Callers : d # "init" => pc'[d] = pc[d]
    BY <1>0, <1>1, Names
  <1>5. token.refresh # NoCode => HasToken(lines)
    BY <1>0, <1>2, LastIs DEF NoToken
  <1>6. LoginInv'
    BY <1>0, <1>1, <1>4 DEF Rest, LoginInv
  <1>7. FileInv' /\ RunInv' /\ TokenIsRecoverable'
    BY <1>1, <1>2, <1>4 DEF FileInv, RunInv, TokenIsRecoverable
  <1>8. InitInv'
    BY <1>1, <1>2, <1>3, <1>4, <1>5 DEF InitInv, BeforeLogin
  <1> QED  BY <1>6, <1>7, <1>8 DEF Rest


(***************************************************************************)
(* The theorems                                                            *)
(***************************************************************************)

LEMMA InitInvariant == Init => IInv
  <1> SUFFICES ASSUME Init PROVE IInv
    OBVIOUS
  <1>1. LogProofs!IInv
    <2>1. LogProofs!Init
      BY DEF Init, Log!Init, LogProofs!Init
    <2> QED  BY <2>1, Batched, LogProofs!InitInv
  <1>2. Log!TypeOK
    BY <1>1, SameType DEF LogProofs!IInv
  <1>3. lines = <<>> /\ uncommitted = <<>> /\ writer = "off" /\ mode = "down"
    BY DEF Init, Log!Init
  <1>4. TypeOK
    <2>1. NoToken \in Token
      BY DEF NoToken, Token
    <2>2. CallersType
      BY <1>3 DEF Init, CallersType, Callers, RunCallers, CallerStates, LoginStates
    <2>3. MemoryType
      BY <1>3, <2>1, <2>2 DEF Init, MemoryType
    <2> QED  BY <1>2, <2>3, Types
  <1>5. LoginInv
    BY DEF Init, LoginInv, NoToken
  <1>6. FileInv
    <2>1. pc["init"] = "idle"
      BY Names DEF Init
    <2>2. Good(lines, spent)
      BY <1>3 DEF Good
    <2> QED  BY <1>3, <2>1, <2>2 DEF FileInv
  <1>7. RunInv /\ InitInv /\ TokenIsRecoverable
    BY <1>3 DEF RunInv, InitInv, TokenIsRecoverable
  <1> QED  BY <1>1, <1>4, <1>5, <1>6, <1>7 DEF IInv

LEMMA NextInv == IInv /\ [Next]_vars => IInv'
  <1> SUFFICES ASSUME IInv, [Next]_vars PROVE IInv'
    OBVIOUS
  <1>1. TypeOK' /\ LogProofs!IInv'
    BY TypeStep, LogInvStep DEF IInv
  <1>2. Rest'
    <2>1. ASSUME NEW c \in Callers, CallerStep(c) PROVE Rest'
      BY <2>1, TurnRest, ReportRest, RespondRest, QuietRest DEF CallerStep
    <2>2. CASE Fault
      BY <2>2, DownRest, WriterRest DEF Fault
    <2>3. CASE Start("init") \/ Start("run")
      BY <2>3, StartRest
    <2> QED
      BY <2>1, <2>2, <2>3, QuietRest, WriterRest, DownRest, SetupRest DEF Next
  <1> QED  BY <1>1, <1>2 DEF IInv, Rest

LEMMA Invariance == Spec => []IInv
  BY InitInvariant, NextInv, PTL DEF Spec

\* Every variable keeps its type; at most one caller is logging in, whatever is
\* dropped, refused or cancelled meanwhile (reddit.rs:101-104, 166-337).
THEOREM TypeCorrect == Spec => []TypeOK
  <1>1. IInv => TypeOK
    BY DEF IInv
  <1> QED  BY <1>1, Invariance, PTL

\* Both programs use the changelog as Changelog.tla says (state.rs:257-269, 361-401, 527-534).
THEOREM LoginUsesChangelog == Spec => Log!Spec
  <1>1. Init => Log!Init
    BY DEF Init
  <1>2. TypeOK /\ [Next]_vars => [Log!Next]_(Log!vars)
    BY LogStep
  <1> QED  BY <1>1, <1>2, TypeCorrect, PTL DEF Spec, Log!Spec

\* A restart goes on with the login that was in memory: tokens and reports never
\* part, however long the service runs (reddit.rs:327-332, state.rs:274-276).
THEOREM RestartsKeepTheLogin == Spec => []TokenIsRecoverable
  <1>1. IInv => TokenIsRecoverable
    BY DEF IInv
  <1> QED  BY <1>1, Invariance, PTL

\* The service never exchanges a code that Reddit would accept, in whatever state
\* kills and power losses left the file of init (reddit.rs:283-325, state.rs:527-534).
THEOREM OnlyInitSpendsCodes == Spec => []OnlyInitUsesCodes
  <1>1. ASSUME IInv PROVE OnlyInitUsesCodes
    <2> SUFFICES ASSUME NEW c \in RunCallers, pc[c] = "exchange"
                 PROVE  code \in spent \cup {NoCode}
      BY DEF OnlyInitUsesCodes
    <2>1. c \in Callers /\ mode = "run"
      BY <1>1, Names, CallerMode, SeqTypes DEF IInv
    <2> QED  BY <1>1, <2>1 DEF IInv, LoginInv, RunInv
  <1> QED  BY <1>1, Invariance, PTL

\* An init that ends well leaves a login the service can live on, in a file that
\* is on the disk (state.rs:527-534).
THEOREM InitEndsComplete == Spec => []InitIsComplete
  <1>1. ASSUME IInv PROVE InitIsComplete
    <2> SUFFICES ASSUME mode = "init", writer = "select", tail # "garbled"
                 PROVE  /\ synced = Len(lines) /\ LastCode(lines) = code
                        /\ LastToken(lines) = token /\ token.refresh # NoCode
      BY DEF InitIsComplete
    <2>1. synced = Len(lines)
      BY <1>1 DEF IInv, LogProofs!IInv, LogProofs!WaitIsSynced
    <2>2. pc["init"] = "commit" /\ uncommitted = <<>>
      BY <1>1 DEF IInv, InitInv
    <2>3. Reported = lines
      BY <1>1, <2>2, SeqTypes, ConcatEmptySeq DEF IInv, Reported
    <2> QED  BY <1>1, <2>1, <2>2, <2>3 DEF IInv, InitInv
  <1> QED  BY <1>1, Invariance, PTL


(***************************************************************************)
(* The first login                                                         *)
(***************************************************************************)

\* Whatever tokens there are, they have this refresh token.
TokensAre(s, r) ==
    \A i \in 1..Len(s) : s[i].kind = "token" => s[i].token.refresh = r /\ r # NoCode

\* In the file they have one in common; whoever runs has it, and reports it.
KeptInv ==
    /\ \E r \in Codes \cup {NoCode} : TokensAre(lines, r)
    /\ mode # "down" => TokensAre(lines, token.refresh) /\ TokensAre(uncommitted, token.refresh)

LEMMA PrefixAre ==
    ASSUME NEW s \in Seq(LoginChange), NEW t \in Seq(LoginChange), NEW r, TokensAre(s, r),
           Len(t) <= Len(s), \A i \in 1..Len(t) : t[i] = s[i]
    PROVE  TokensAre(t, r)
  <1>1. Len(s) \in Nat /\ Len(t) \in Nat
    BY LenProperties
  <1> QED  BY <1>1 DEF TokensAre

LEMMA AppendAre ==
    ASSUME NEW s \in Seq(LoginChange), NEW x \in LoginChange, NEW r, TokensAre(s, r),
           x.kind = "token" => x.token.refresh = r /\ r # NoCode
    PROVE  TokensAre(Append(s, x), r)
  <1>1. /\ Len(s) \in Nat /\ Len(Append(s, x)) = Len(s) + 1 /\ Append(s, x)[Len(s) + 1] = x
        /\ \A i \in 1..Len(s) : Append(s, x)[i] = s[i]
    BY LenProperties, AppendProperties
  <1> HIDE DEF LoginChange
  <1> QED  BY <1>1 DEF TokensAre

LEMMA QueueAre ==
    ASSUME NEW u \in Seq(LoginChange), u # <<>>, NEW r, TokensAre(u, r)
    PROVE  /\ TokensAre(Tail(u), r)
           /\ Head(u) \in LoginChange
           /\ Head(u).kind = "token" => Head(u).token.refresh = r /\ r # NoCode
  <1>1. /\ Len(u) \in Nat \ {0} /\ Len(Tail(u)) = Len(u) - 1
        /\ \A i \in 1..Len(Tail(u)) : Tail(u)[i] = u[i + 1]
        /\ Head(u) = u[1] /\ Head(u) \in LoginChange
    BY HeadTailProperties, LenProperties, EmptySeq
  <1>2. \A i \in 1..Len(Tail(u)) : i + 1 \in 1..Len(u)
    BY <1>1
  <1> HIDE DEF LoginChange
  <1> QED  BY <1>1, <1>2 DEF TokensAre

\* Steps that leave the file, the reports and the refresh token alone.
LEMMA SameKept ==
    ASSUME KeptInv, UNCHANGED <<lines, uncommitted, mode>>, token'.refresh = token.refresh
    PROVE  KeptInv'
  BY DEF KeptInv, TokensAre

\* What a start finds in the file.
LEMMA StartKept ==
    ASSUME IInv, KeptInv, NEW m \in {"init", "run"}, Start(m)
    PROVE  KeptInv'
  <1>1. /\ writer = "off" /\ UNCHANGED <<lines, uncommitted>> /\ token' = LastToken(lines)
        /\ mode' # "down"
    BY DEF Start, Log!Open, Log!fileVars, Log!memoryVars
  <1>2. uncommitted = <<>> /\ lines \in Seq(LoginChange)
    BY <1>1, SeqTypes DEF IInv, LogProofs!IInv, LogProofs!OffIsEmpty
  <1>3. PICK r \in Codes \cup {NoCode} : TokensAre(lines, r)
    BY DEF KeptInv
  <1>4. TokensAre(lines, token'.refresh)
    <2>1. CASE HasToken(lines)
      <3>1. token'.refresh = r
        BY <1>1, <1>2, <1>3, <2>1, LastIs DEF TokensAre
      <3> QED  BY <1>3, <3>1
    <2>2. CASE ~HasToken(lines)
      BY <2>2 DEF HasToken, TokensAre
    <2> QED  BY <2>1, <2>2
  <1>5. TokensAre(uncommitted', token'.refresh)
    BY <1>1, <1>2 DEF TokensAre
  <1> QED  BY <1>1, <1>3, <1>4, <1>5 DEF KeptInv

\* Only a caller without a refresh token gets another one.
LEMMA CallerKept ==
    ASSUME IInv, KeptInv, NEW c \in Callers, CallerStep(c)
    PROVE  KeptInv'
  <1>0. /\ CallersType /\ token \in Token /\ code \in Codes \cup {NoCode} /\ LoginInv
        /\ uncommitted \in Seq(LoginChange) /\ entered \in Nat /\ clock \in Nat
    BY SeqTypes DEF IInv, TypeOK
  <1>1. mode # "down"
    <2>1. pc[c] # "idle"
      BY DEF CallerStep, Acquire, Refreshed, Exchanged, LoginError, Report, Respond
    <2> QED  BY <1>0, <2>1, CallerMode
  <1>2. CASE Acquire(c)
    <2>1. Turn(c, token, "request") /\ UNCHANGED <<lines, uncommitted, mode>> /\ entered' \in Nat
      BY <1>0, <1>2 DEF Acquire, logVars
    <2> QED  BY <1>0, <2>1, TurnEnds, SameKept
  <1>3. ASSUME NEW life \in Lifetimes, Refreshed(c, life) PROVE KeptInv'
    <2> DEFINE t == [token EXCEPT !.access = TRUE, !.expires = entered + life]
    <2>1. t \in Token /\ t.refresh = token.refresh
      <3>1. entered + life \in Nat
        BY <1>0, TimeAssumption
      <3> QED  BY <1>0, <3>1 DEF Token
    <2>2. Turn(c, t, "log") /\ UNCHANGED <<lines, uncommitted, mode>> /\ entered' \in Nat
      BY <1>0, <1>3 DEF Refreshed, logVars
    <2> HIDE DEF t
    <2> QED  BY <2>1, <2>2, TurnEnds, SameKept
  <1>4. ASSUME NEW life \in Lifetimes, NEW access \in BOOLEAN, Exchanged(c, life, access)
        PROVE  KeptInv'
    <2>1. token.refresh = NoCode /\ UNCHANGED <<lines, uncommitted, mode>>
      BY <1>0, <1>4 DEF Exchanged, LoginInv, logVars
    <2>2. \A r : TokensAre(lines, r) /\ TokensAre(uncommitted, r)
      BY <1>1, <2>1 DEF KeptInv, TokensAre
    <2>3. \A r : TokensAre(lines', r) /\ TokensAre(uncommitted', r)
      BY <2>1, <2>2
    <2> QED  BY <2>3 DEF KeptInv
  <1>5. CASE LoginError(c)
    BY <1>5, SameKept DEF LoginError, Log!Cancel, Log!fileVars, Log!memoryVars
  <1>6. CASE Report(c)
    <2> DEFINE x == RedditToken(token)
    <2>1. /\ pc[c] = "log" /\ uncommitted' = uncommitted \o <<x>>
          /\ UNCHANGED <<lines, token, mode>>
      BY <1>6 DEF Report, Log!LogChanges, Log!fileVars
    <2>2. x \in LoginChange /\ x.token = token
      BY <1>0, Batched DEF RedditToken
    <2>3. token.refresh # NoCode
      BY <1>0, <2>1 DEF LoginInv
    <2> HIDE DEF x
    <2>4. TokensAre(uncommitted', token.refresh)
      <3>1. TokensAre(Append(uncommitted, x), token.refresh)
        BY <1>0, <1>1, <2>2, <2>3, AppendAre DEF KeptInv
      <3>2. uncommitted' = Append(uncommitted, x)
        BY <1>0, <2>1, <2>2, AppendIsConcat
      <3> QED  BY <3>1, <3>2
    <2> QED  BY <2>1, <2>4 DEF KeptInv
  <1>7. CASE Respond(c)
    BY <1>7, SameKept DEF Respond, logVars
  <1> QED  BY <1>2, <1>3, <1>4, <1>5, <1>6, <1>7 DEF CallerStep

\* Client data are no token.
LEMMA SetupKept ==
    ASSUME IInv, KeptInv, NEW c \in Codes, Setup(c)
    PROVE  KeptInv'
  <1>1. /\ uncommitted' = uncommitted \o <<ClientData(c)>>
        /\ UNCHANGED <<lines, token, mode>> /\ uncommitted \in Seq(LoginChange)
    BY SeqTypes DEF Setup, Log!LogChanges, Log!fileVars, IInv
  <1>2. ClientData(c) \in LoginChange /\ ClientData(c).kind = "client"
    BY Batched DEF ClientData
  <1>3. mode # "down" => TokensAre(uncommitted', token.refresh)
    BY <1>1, <1>2, AppendAre, AppendIsConcat DEF KeptInv
  <1> QED  BY <1>1, <1>3 DEF KeptInv

\* What is written are reports, and what is lost was written last.
LEMMA WriterKept ==
    ASSUME IInv, KeptInv, WriterStep \/ WriterFails
    PROVE  KeptInv'
  <1>1. /\ Log!WriterStep \/ Log!SendFails \/ Log!SyncFails
        /\ UNCHANGED <<mode, token>>
    BY DEF WriterStep, WriterFails, loginVars
  <1>2. /\ TypeOK /\ lines \in Seq(LoginChange) /\ uncommitted \in Seq(LoginChange)
        /\ mode # "down"
    BY <1>1, SeqTypes, KeepsRunning DEF IInv, TypeOK
  <1>3. lines' \in Seq(LoginChange)
    <2>1. [Next]_vars
      BY DEF Next, Fault
    <2> QED  BY <1>2, <2>1, TypeStep DEF TypeOK, Log!TypeOK
  <1>4. \/ uncommitted' = uncommitted
        \/ uncommitted # <<>> /\ uncommitted' = Tail(uncommitted)
    BY <1>1 DEF Log!WriterStep, Log!BeginCommit, Log!SendLine, Log!EndSend, Log!Sync,
                Log!SelectNotified, Log!SelectCancelled, Log!Finish, Log!SendFails,
                Log!SyncFails, Log!memoryVars
  <1> DEFINE r == token.refresh
  <1>5. TokensAre(lines, r) /\ TokensAre(uncommitted, r)
    BY <1>2 DEF KeptInv
  <1> HIDE DEF r
  <1>6. TokensAre(lines', r)
    <2>1. CASE IsCut
      BY <1>2, <1>3, <1>5, <2>1, PrefixAre DEF IsCut
    <2>2. CASE IsSent
      BY <1>2, <1>5, <2>2, QueueAre, AppendAre DEF IsSent
    <2> QED  BY <1>1, <1>2, <2>1, <2>2, WriterFile
  <1>7. TokensAre(uncommitted', r)
    BY <1>2, <1>4, <1>5, QueueAre
  <1>8. r' = r /\ r \in Codes \cup {NoCode}
    BY <1>1, SeqTypes DEF r, IInv, Token
  <1> QED  BY <1>6, <1>7, <1>8 DEF KeptInv, r

LEMMA DownKept ==
    ASSUME IInv, KeptInv, ExitInit \/ ExitRun \/ Kill \/ PowerLoss
    PROVE  KeptInv'
  <1>1. mode' = "down" /\ TypeOK /\ lines \in Seq(LoginChange)
    BY SeqTypes DEF ExitInit, ExitRun, Kill, PowerLoss, Down, IInv
  <1>2. IsCut
    BY <1>1, DownCuts
  <1>3. lines' \in Seq(LoginChange)
    <2>1. [Next]_vars
      BY DEF Next, Fault
    <2> QED  BY <1>1, <2>1, TypeStep DEF TypeOK, Log!TypeOK
  <1>4. PICK r \in Codes \cup {NoCode} : TokensAre(lines, r)
    BY DEF KeptInv
  <1>5. TokensAre(lines', r)
    BY <1>1, <1>2, <1>3, <1>4, PrefixAre DEF IsCut
  <1> QED  BY <1>1, <1>5 DEF KeptInv

LEMMA KeptStep == IInv /\ KeptInv /\ [Next]_vars => KeptInv'
  <1> SUFFICES ASSUME IInv, KeptInv, [Next]_vars PROVE KeptInv'
    OBVIOUS
  <1>1. ASSUME NEW c \in RunCallers, Call(c) \/ DropRequest(c) \/ DropLogin(c) PROVE KeptInv'
    BY <1>1, SameKept DEF Call, DropRequest, DropLogin, logVars, Log!Cancel, Log!fileVars,
                          Log!memoryVars
  <1>2. CASE CtrlC \/ Tick \/ UNCHANGED vars
    BY <1>2, SameKept DEF CtrlC, Tick, vars, logVars, loginVars, Log!Cancel, Log!fileVars,
                          Log!memoryVars
  <1>3. CASE Start("init") \/ Start("run")
    BY <1>3, StartKept
  <1>4. ASSUME NEW c \in Codes \ spent, Setup(c) PROVE KeptInv'
    BY <1>4, SetupKept
  <1>5. ASSUME NEW c \in Callers, CallerStep(c) PROVE KeptInv'
    BY <1>5, CallerKept
  <1>6. CASE WriterStep \/ Fault \/ ExitInit \/ ExitRun
    BY <1>6, WriterKept, DownKept DEF Fault
  <1> QED  BY <1>1, <1>2, <1>3, <1>4, <1>5, <1>6 DEF Next

\* Tokens in the file are grants of the code of the first init that came to its end;
\* no later init replaces them, and nobody exchanges a code beside them
\* (reddit.rs:240-325, state.rs:527-534).
THEOREM FirstLoginIsKept == Spec => []FirstLoginStays
  <1>1. Init => KeptInv
    BY DEF Init, Log!Init, KeptInv, TokensAre
  <1>2. ASSUME IInv, KeptInv PROVE FirstLoginStays
    <2>1. PICK r \in Codes \cup {NoCode} : TokensAre(lines, r)
      BY <1>2 DEF KeptInv
    <2>2. ASSUME NEW i \in 1..Len(lines), lines[i].kind = "token", mode # "down"
          PROVE  token.refresh = lines[i].token.refresh /\ token.refresh # NoCode
      BY <1>2, <2>2 DEF KeptInv, TokensAre
    <2>3. ASSUME NEW c \in Callers, pc[c] = "exchange"
          PROVE  mode # "down" /\ token.refresh = NoCode
      BY <1>2, <2>3, CallerMode, SeqTypes, Names DEF IInv, LoginInv
    <2> QED  BY <2>1, <2>2, <2>3 DEF FirstLoginStays, TokensAre
  <1> QED  BY <1>1, <1>2, KeptStep, Invariance, PTL DEF Spec


(***************************************************************************)
(* What is on the disk                                                     *)
(***************************************************************************)

LEMMA SameJournal ==
    /\ LogProofs!J!Init => Log!J!Init
    /\ [LogProofs!J!Next]_(LogProofs!J!vars) => [Log!J!Next]_(Log!J!vars)
  BY DEF LogProofs!J!Init, Log!J!Init, LogProofs!J!Next, Log!J!Next,
         LogProofs!J!vars, Log!J!vars, LogProofs!J!Accept, Log!J!Accept,
         LogProofs!J!Persist, Log!J!Persist, LogProofs!J!Lose, Log!J!Lose,
         LogProofs!Journalled, Log!Journalled, LogProofs!Pending, Log!Pending,
         LogProofs!Terminated, Log!Terminated,
         LogProofs!DurablyTerminated, Log!DurablyTerminated

\* Of init and run alike, with whatever cuts them short, a later start reads back a
\* prefix of what they reported, with everything that was synced (state.rs:242-401, 527-534).
THEOREM LoginKeepsJournal == Spec => Log!ImplementsJournal
  <1>1. Init => Log!J!Init
    <2>1. Init => LogProofs!Init
      BY DEF Init, Log!Init, LogProofs!Init
    <2> QED  BY <2>1, Batched, LogProofs!JournalInit, SameJournal
  <1>2. IInv /\ [Next]_vars => [Log!J!Next]_(Log!J!vars)
    BY LogStep, SameStep, Batched, LogProofs!JournalStep, SameJournal DEF IInv
  <1> QED
    BY <1>1, <1>2, Invariance, PTL DEF Spec, Log!ImplementsJournal, Log!J!Spec

\* The refresh token for code r is synced, and so is the end of its line.
LoginOnDisk(r) ==
    \E i \in 1..Log!DurablyTerminated : lines[i].kind = "token" /\ lines[i].token.refresh = r

LEMMA DiskStep ==
    ASSUME TypeOK, TypeOK', [Next]_vars, NEW r, LoginOnDisk(r)
    PROVE  LoginOnDisk(r)'
  <1>1. LogProofs!TypeOK /\ LogProofs!TypeOK'
    BY SameType DEF TypeOK
  <1>2. [LogProofs!Next]_(LogProofs!vars)
    BY LogStep, SameStep
  <1>3. LogProofs!DurableStays
    BY <1>1, <1>2, Batched, LogProofs!DurableStep
  <1>4. LogProofs!DurablyTerminated = Log!DurablyTerminated
        /\ LogProofs!DurablyTerminated' = Log!DurablyTerminated'
    BY DEF LogProofs!DurablyTerminated, Log!DurablyTerminated, LogProofs!Terminated, Log!Terminated
  <1> QED  BY <1>3, <1>4 DEF LoginOnDisk, LogProofs!DurableStays

\* Once a login is on the disk, every process that has read the file uses that one, and
\* none exchanges a code, whatever is refused, killed, cut off or entered into a further
\* init (reddit.rs:240-332, state.rs:242-256, 527-534).
THEOREM LoginForGood ==
    ASSUME NEW r
    PROVE  Spec => [](LoginOnDisk(r)
                          => [](/\ mode # "down" => token.refresh = r
                                /\ \A c \in Callers : pc[c] # "exchange"))
  <1> DEFINE Settled == /\ mode # "down" => token.refresh = r
                        /\ \A c \in Callers : pc[c] # "exchange"
  <1>1. TypeOK /\ TypeOK' /\ LoginOnDisk(r) /\ [Next]_vars => LoginOnDisk(r)'
    BY DiskStep
  <1>2. TypeOK /\ FirstLoginStays /\ LoginOnDisk(r) => Settled
    <2>1. TypeOK => 1..Log!DurablyTerminated \subseteq 1..Len(lines)
      BY SeqTypes DEF TypeOK, Log!TypeOK, Log!DurablyTerminated, Log!Terminated
    <2> QED  BY <2>1 DEF FirstLoginStays, LoginOnDisk
  <1> HIDE DEF Settled
  <1>3. Spec => [](LoginOnDisk(r) => []Settled)
    BY <1>1, <1>2, TypeCorrect, FirstLoginIsKept, PTL DEF Spec
  <1> QED  BY <1>3 DEF Settled

============================================================================
