--------------------------- MODULE CaseTurnsProofs ---------------------------
(***************************************************************************)
(* Theorems about CaseTurns, for any number of messages, turns, reloads    *)
(* and crashes.                                                            *)
(***************************************************************************)
EXTENDS CaseTurns, SequenceTheorems, WellFoundedInduction, TLAPS

(* A turn waits for a turn of its own runtime that was accepted before it  *)
(* and that is, of the unsettled ones, the last; the queue's tail is the   *)
(* last unsettled turn or a later one.                                     *)
QueueOK ==
  /\ \A t \in TurnIds :
       /\ turns[t].prev < t
       /\ turns[t].prev # 0 => turns[turns[t].prev].rt = turns[t].rt
  /\ \A t \in TurnIds : \A u \in 1..(t - 1) :
       (turns[u].rt = turns[t].rt /\ turns[u].pc \notin Settled) => u <= turns[t].prev
  /\ \A u \in TurnIds : turns[u].pc \notin Settled => u <= tail[turns[u].rt]
  /\ \A r \in Runtimes : tail[r] # 0 => turns[tail[r]].rt = r

OrderOK == QueueOK /\ TurnsRunInOrder
-----------------------------------------------------------------------------
(* Numbers. *)

(* A nonempty set of numbers up to n has a greatest one. *)
LEMMA Greatest ==
  ASSUME NEW n \in Nat, NEW S \in SUBSET (1..n), S # {}
  PROVE  \E m \in S : \A k \in S : k <= m
<1> DEFINE T == {n - m : m \in S}
<1>1. T \subseteq Nat /\ T # {}
  <2>1. \A m \in S : m \in 1..n
    OBVIOUS
  <2>2. \A m \in 1..n : n - m \in Nat
    OBVIOUS
  <2> QED BY <2>1, <2>2
<1>2. PICK x \in T : \A y \in T : ~(<<y, x>> \in OpToRel(<, Nat))
  BY <1>1, WFMin, NatLessThanWellFounded
<1>3. \A y \in T : ~(y < x)
  BY <1>1, <1>2 DEF OpToRel
<1>4. PICK m \in S : x = n - m
  OBVIOUS
<1>5. \A k \in S : k <= m
  BY <1>3, <1>4
<1> QED BY <1>5

-----------------------------------------------------------------------------
(* What the handlers write is a case. *)

LEMMA SubSeqType ==
  ASSUME NEW S, NEW s \in Seq(S), NEW i \in Nat \ {0}, NEW j \in Nat, j <= Len(s)
  PROVE  SubSeq(s, i, j) \in Seq(S)
<1>1. \A k \in i..j : s[k] \in S
  BY LenProperties, ElementOfSeq
<1> QED BY <1>1, SubSeqProperties

LEMMA MessageTypes ==
  /\ \A m \in Messages : Question(m) \in MessageType
  /\ \A k \in HelperKinds, m \in 0..MaxMessages : Reply(k, m) \in MessageType
  /\ \A m \in Messages : Log("interrupted", m) \in LogType /\ Log("retried", m) \in LogType
  BY BoundsAssumption DEF Messages, Question, Reply, Log, MessageType, LogType

LEMMA NewCaseType == NewCase \in CaseType
  BY EmptySeq DEF NewCase, CaseType, Status

LEMMA AddMessageType ==
  ASSUME NEW c \in CaseType, NEW x \in MessageType
  PROVE  AddMessage(c, x) \in CaseType
<1>1. Append(c.msgs, x) \in Seq(MessageType)
  BY AppendProperties DEF CaseType
<1> QED BY <1>1 DEF AddMessage, CaseType

LEMMA AddLogType ==
  ASSUME NEW c \in CaseType, NEW x \in LogType
  PROVE  AddLog(c, x) \in CaseType
<1>1. Append(c.logs, x) \in Seq(LogType)
  BY AppendProperties DEF CaseType
<1> QED BY <1>1 DEF AddLog, CaseType

LEMMA WithStatusType ==
  ASSUME NEW c \in CaseType, NEW s \in Status
  PROVE  WithStatus(c, s) \in CaseType
  BY DEF WithStatus, CaseType

LEMMA RemovePlaceholderType ==
  ASSUME NEW c \in CaseType, NEW m
  PROVE  RemovePlaceholder(c, m) \in CaseType
<1> DEFINE at == CHOOSE i \in DOMAIN c.msgs : c.msgs[i] = Reply("placeholder", m)
<1>1. CASE ~Holds(c.msgs, Reply("placeholder", m))
  BY <1>1 DEF RemovePlaceholder
<1>2. CASE Holds(c.msgs, Reply("placeholder", m))
  <2>1. c.msgs \in Seq(MessageType)
    BY DEF CaseType
  <2>2. at \in 1..Len(c.msgs)
    BY <1>2, <2>1, LenProperties DEF Holds
  <2> HIDE DEF at
  <2> DEFINE n == Len(c.msgs)
  <2>a. n \in Nat /\ at - 1 \in Nat /\ at - 1 <= n /\ at + 1 \in Nat \ {0}
    BY <2>1, <2>2, LenProperties
  <2>3. SubSeq(c.msgs, 1, at - 1) \in Seq(MessageType)
    BY <2>1, <2>a, SubSeqType
  <2>4. SubSeq(c.msgs, at + 1, n) \in Seq(MessageType)
    BY <2>1, <2>a, SubSeqType
  <2>5. SubSeq(c.msgs, 1, at - 1) \o SubSeq(c.msgs, at + 1, Len(c.msgs)) \in Seq(MessageType)
    BY <2>3, <2>4, ConcatProperties
  <2> QED BY <1>2, <2>5 DEF RemovePlaceholder, CaseType, at
<1> QED BY <1>1, <1>2

LEMMA LatestUnansweredType ==
  ASSUME NEW c \in CaseType
  PROVE  LatestUnanswered(c) \in 0..MaxMessages
<1> DEFINE open == {m \in Messages : Holds(c.msgs, Question(m)) /\ ~Replied(c, m)}
<1>1. CASE open = {}
  BY <1>1, BoundsAssumption DEF LatestUnanswered
<1>2. CASE open # {}
  <2>1. \E m \in open : \A k \in open : k <= m
    BY <1>2, Greatest, BoundsAssumption DEF Messages
  <2>2. LatestUnanswered(c) \in open
    BY <1>2, <2>1 DEF LatestUnanswered
  <2> QED BY <2>2 DEF Messages
<1> QED BY <1>1, <1>2

(* A message whose question is in the case is a message number. *)
LEMMA QuestionType ==
  ASSUME NEW c \in CaseType, NEW m, m # 0, Holds(c.msgs, Question(m))
  PROVE  m \in Messages
<1>1. PICK i \in DOMAIN c.msgs : c.msgs[i] = Question(m)
  BY DEF Holds
<1>2. c.msgs \in Seq(MessageType)
  BY DEF CaseType
<1>3. Question(m) \in MessageType
  BY <1>1, <1>2, LenProperties, ElementOfSeq
<1>4. Question(m).re \in 0..MaxMessages
  BY <1>3 DEF MessageType
<1> QED BY <1>4, BoundsAssumption DEF Question, Messages

-----------------------------------------------------------------------------
(* The type of the file. *)

LEMMA SaveType ==
  ASSUME NEW s \in Seq(CaseType), s # <<>>, Save(s)
  PROVE  FileTypeOK'
<1>1. Head(s) \in CaseType /\ Tail(s) \in Seq(CaseType)
  BY HeadTailProperties
<1> QED BY <1>1 DEF Save, FileTypeOK

LEMMA SavesType ==
  /\ \A c \in CaseType : Save(<<c>>) => FileTypeOK'
  /\ \A c, d \in CaseType : Save(<<c, d>>) => FileTypeOK'
  /\ \A c, d, e \in CaseType : Save(<<c, d, e>>) => FileTypeOK'
<1>1. ASSUME NEW c \in CaseType PROVE <<c>> \in Seq(CaseType) /\ <<c>> # <<>>
  OBVIOUS
<1>2. ASSUME NEW c \in CaseType, NEW d \in CaseType
      PROVE  <<c, d>> \in Seq(CaseType) /\ <<c, d>> # <<>>
  OBVIOUS
<1>3. ASSUME NEW c \in CaseType, NEW d \in CaseType, NEW e \in CaseType
      PROVE  <<c, d, e>> \in Seq(CaseType) /\ <<c, d, e>> # <<>>
  OBVIOUS
<1> QED BY <1>1, <1>2, <1>3, SaveType

(* Every message the code appends and every status it sets. *)
LEMMA HandlerTypes ==
  ASSUME NEW c \in CaseType
  PROVE  /\ \A s \in Status : WithStatus(c, s) \in CaseType
         /\ \A m \in Messages : AddMessage(c, Question(m)) \in CaseType
         /\ \A m \in 0..MaxMessages, k \in HelperKinds : AddMessage(c, Reply(k, m)) \in CaseType
         /\ \A m \in Messages : /\ AddLog(c, Log("interrupted", m)) \in CaseType
                                /\ AddLog(c, Log("retried", m)) \in CaseType
         /\ \A m : RemovePlaceholder(c, m) \in CaseType
  BY MessageTypes, AddMessageType, AddLogType, WithStatusType, RemovePlaceholderType

LEMMA StatusType ==
  /\ "new" \in Status /\ "ready" \in Status /\ "diagnosing" \in Status /\ "closed" \in Status
  /\ \A k \in {"formal", "failure", "placeholder", "stale"} : k \in HelperKinds
  /\ \A m \in Messages : m \in 0..MaxMessages /\ m # 0
  BY BoundsAssumption DEF Status, HelperKinds, Messages

LEMMA TurnFieldTypes ==
  ASSUME QueueTypeOK, NEW t \in TurnIds
  PROVE  /\ turns[t] \in TurnType
         /\ turns[t].msg \in Messages
         /\ turns[t].rt \in Runtimes
         /\ turns[t].pc = "running" => turns[t].snap \in CaseType
         /\ t \in 1..Len(turns) /\ t \in 1..MaxTurns
<1>1. turns \in Seq(TurnType) /\ Len(turns) <= MaxTurns
  BY DEF QueueTypeOK
<1>2. turns[t] \in TurnType /\ t \in 1..Len(turns) /\ Len(turns) \in Nat
  BY <1>1, LenProperties, ElementOfSeq DEF TurnIds
<1>3. turns[t].pc = "running" => turns[t].snap # NoCase
  BY DEF QueueTypeOK
<1> QED BY <1>1, <1>2, <1>3, BoundsAssumption DEF TurnType

LEMMA FileType ==
  ASSUME TypeOK, Next
  PROVE  FileTypeOK'
<1> USE DEF TypeOK
<1>0. ASSUME NoSave PROVE FileTypeOK'
  BY <1>0 DEF NoSave, FileTypeOK
<1>1. ASSUME disk # NoCase PROVE disk \in CaseType
  BY <1>1 DEF FileTypeOK
<1>2. ASSUME NEW async \in BOOLEAN, Accept(async) PROVE FileTypeOK'
  <2> DEFINE m == asked + 1
             added == AddMessage(disk, Question(m))
  <2>1. m \in Messages
    BY <1>2, BoundsAssumption DEF Accept, QueueTypeOK, Messages
  <2>2. added \in CaseType /\ WithStatus(added, "ready") \in CaseType
    BY <1>1, <1>2, <2>1, HandlerTypes, StatusType DEF Accept
  <2>3. Save(<<added, WithStatus(added, "ready")>>)
    BY <1>2 DEF Accept
  <2> QED BY <2>2, <2>3, SavesType
<1>3. ASSUME Retry PROVE FileTypeOK'
  <2> DEFINE m == Retryable(disk)
             retried == AddLog(RemovePlaceholder(disk, m), Log("retried", m))
  <2>1. m \in Messages
    BY <1>1, <1>3, QuestionType DEF Retry
  <2>2. retried \in CaseType /\ WithStatus(retried, "ready") \in CaseType
    <3>1. RemovePlaceholder(disk, m) \in CaseType
      BY <1>1, <1>3, HandlerTypes DEF Retry
    <3> QED BY <2>1, <3>1, HandlerTypes, StatusType
  <2>3. Save(<<retried, WithStatus(retried, "ready")>>)
    BY <1>3 DEF Retry
  <2> QED BY <2>2, <2>3, SavesType
<1>4. ASSUME RecoverStale PROVE FileTypeOK'
  <2> DEFINE closed == WithStatus(disk, "closed")
             said == AddMessage(closed, Reply("stale", LatestUnanswered(disk)))
  <2>1. closed \in CaseType /\ LatestUnanswered(disk) \in 0..MaxMessages
    BY <1>1, <1>4, HandlerTypes, StatusType, LatestUnansweredType DEF RecoverStale
  <2>2. said \in CaseType
    BY <2>1, HandlerTypes, StatusType
  <2>3. Save(<<closed, said>>)
    BY <1>4 DEF RecoverStale
  <2> QED BY <2>1, <2>2, <2>3, SavesType
<1>5. ASSUME Archive PROVE FileTypeOK'
  <2>1. [disk EXCEPT !.archived = TRUE] \in CaseType
    BY <1>1, <1>5 DEF Archive, CaseType
  <2> QED BY <1>5, <2>1, SavesType DEF Archive
<1>6. ASSUME Touch PROVE FileTypeOK'
  BY <1>1, <1>6, SavesType DEF Touch
<1>7. ASSUME Delete PROVE FileTypeOK'
  BY <1>7 DEF Delete, FileTypeOK
<1>8. ASSUME Flush PROVE FileTypeOK'
  BY <1>8, SaveType DEF Flush, FileTypeOK
<1>9. ASSUME NEW t \in TurnIds, Curate(t) PROVE FileTypeOK'
  <2> DEFINE closed == WithStatus(disk, "closed")
  <2>1. closed \in CaseType
    BY <1>1, <1>9, HandlerTypes, StatusType DEF Curate, CanStart
  <2>2. AddMessage(closed, Reply("formal", turns[t].msg)) \in CaseType
    BY <2>1, HandlerTypes, StatusType, TurnFieldTypes
  <2> QED BY <1>9, <2>2, SavesType DEF Curate
<1>10. ASSUME NEW t \in TurnIds, Progress(t) PROVE FileTypeOK'
  <2>1. turns[t].snap \in CaseType
    BY <1>10, TurnFieldTypes DEF Progress
  <2>2. PICK status \in {turns[t].snap.status, "diagnosing"} :
          Save(<<WithStatus(turns[t].snap, status)>>)
    BY <1>10 DEF Progress
  <2>3. status \in Status
    BY <2>1, <2>2, StatusType DEF CaseType
  <2> QED BY <2>1, <2>2, <2>3, HandlerTypes, SavesType
<1>11. ASSUME NEW t \in TurnIds, Finish(t) PROVE FileTypeOK'
  <2> DEFINE replied == AddMessage(turns[t].snap, Reply("formal", turns[t].msg))
  <2>1. turns[t].snap \in CaseType
    BY <1>11, TurnFieldTypes DEF Finish
  <2>2. replied \in CaseType
    BY <2>1, HandlerTypes, StatusType, TurnFieldTypes
  <2>3. WithStatus(replied, "closed") \in CaseType
    BY <2>2, HandlerTypes, StatusType
  <2> QED BY <1>11, <2>2, <2>3, SavesType DEF Finish
<1>12. ASSUME RecordFailure PROVE FileTypeOK'
  <2>1. CASE disk = NoCase
    BY <1>0, <1>12, <2>1 DEF RecordFailure
  <2>2. CASE disk # NoCase
    <3> DEFINE said == AddMessage(disk, Reply("failure", turns[Head(failing)].msg))
    <3>1. Head(failing) \in TurnIds
      BY <1>12, HeadTailProperties DEF RecordFailure, QueueTypeOK
    <3>2. said \in CaseType
      BY <1>1, <2>2, <3>1, HandlerTypes, StatusType, TurnFieldTypes
    <3>3. WithStatus(said, "closed") \in CaseType
      BY <3>2, HandlerTypes, StatusType
    <3> QED BY <1>12, <2>2, <3>2, <3>3, SavesType DEF RecordFailure
  <2> QED BY <2>1, <2>2
<1>13. ASSUME Restart PROVE FileTypeOK'
  <2>1. CASE ~Inherited(disk)
    BY <1>0, <1>13, <2>1 DEF Restart
  <2>2. CASE Inherited(disk)
    <3> DEFINE m == LatestUnanswered(disk)
               told == AddMessage(disk, Reply("placeholder", m))
               logged == AddLog(told, Log("interrupted", m))
    <3>1. disk \in CaseType /\ m \in Messages
      BY <1>1, <2>2, LatestUnansweredType DEF Inherited, Messages
    <3>2. told \in CaseType
      BY <3>1, HandlerTypes, StatusType
    <3>3. logged \in CaseType
      BY <3>1, <3>2, HandlerTypes
    <3>4. WithStatus(logged, "closed") \in CaseType
      BY <3>3, HandlerTypes, StatusType
    <3> QED BY <1>13, <2>2, <3>2, <3>3, <3>4, SavesType DEF Restart
  <2> QED BY <2>1, <2>2
<1>14. ASSUME Reload PROVE FileTypeOK'
  BY <1>14 DEF Reload, FileTypeOK
<1>15. ASSUME Age PROVE FileTypeOK'
  BY <1>15 DEF Age, FileTypeOK
<1>16. ASSUME Crash PROVE FileTypeOK'
  BY <1>16, EmptySeq DEF Crash, FileTypeOK
<1>17. ASSUME NEW t \in TurnIds, StartRefused(t) \/ Fail(t) PROVE FileTypeOK'
  BY <1>0, <1>17 DEF StartRefused, Fail
<1>18. ASSUME NEW t \in TurnIds, Start(t) PROVE FileTypeOK'
  BY <1>1, <1>18, SavesType DEF Start, CanStart
<1> QED BY <1>2, <1>3, <1>4, <1>5, <1>6, <1>7, <1>8, <1>9, <1>10, <1>11, <1>12, <1>13, <1>14,
           <1>15, <1>16, <1>17, <1>18 DEF Next, TurnStep

-----------------------------------------------------------------------------
(* The type of the queue. *)

LEMMA TurnIdsAre ==
  ASSUME turns \in Seq(TurnType)
  PROVE  TurnIds = 1..Len(turns) /\ Len(turns) \in Nat
  BY LenProperties DEF TurnIds

(* A new turn is appended behind the others. *)
LEMMA EnqueueEffect ==
  ASSUME QueueTypeOK, NEW m \in Messages, NEW async \in BOOLEAN, Enqueue(m, async)
  PROVE  LET n == Len(turns) + 1 IN
         /\ turns' \in Seq(TurnType) /\ Len(turns') = n /\ n \in 1..MaxTurns
         /\ TurnIds' = 1..n /\ TurnIds = 1..(n - 1)
         /\ \A t \in TurnIds : turns'[t] = turns[t]
         /\ turns'[n] = [msg |-> m, rt |-> rt, async |-> async,
                         prev |-> tail[rt], pc |-> "queued", snap |-> NoCase]
         /\ tail' = [tail EXCEPT ![rt] = n]
<1> DEFINE n == Len(turns) + 1
           new == [msg |-> m, rt |-> rt, async |-> async,
                   prev |-> tail[rt], pc |-> "queued", snap |-> NoCase]
<1>1. turns \in Seq(TurnType) /\ TurnIds = 1..Len(turns) /\ Len(turns) \in Nat
  BY TurnIdsAre DEF QueueTypeOK
<1>2. n \in 1..MaxTurns /\ turns' = Append(turns, new) /\ tail' = [tail EXCEPT ![rt] = n]
  BY <1>1, BoundsAssumption DEF Enqueue
<1>3. tail[rt] \in 0..MaxTurns
  BY <1>1, <1>2, BoundsAssumption DEF QueueTypeOK
<1>4. new \in TurnType
  BY <1>3 DEF QueueTypeOK, TurnType
<1>5. turns' \in Seq(TurnType) /\ Len(turns') = n
      /\ (\A t \in 1..Len(turns) : turns'[t] = turns[t]) /\ turns'[n] = new
  BY <1>1, <1>2, <1>4, AppendProperties
<1>6. TurnIds' = 1..n
  BY <1>5, LenProperties DEF TurnIds
<1> QED BY <1>1, <1>2, <1>5, <1>6

(* A turn that takes a step keeps its place, its message and its runtime. *)
LEMMA SetTurnEffect ==
  ASSUME QueueTypeOK, NEW t \in TurnIds, NEW pc \in {"queued", "running"} \cup Settled,
         NEW snap \in CaseType \cup {NoCase}, SetTurn(t, pc, snap)
  PROVE  /\ turns' \in Seq(TurnType) /\ Len(turns') = Len(turns)
         /\ TurnIds' = TurnIds
         /\ \A u \in TurnIds :
              /\ turns'[u].rt = turns[u].rt /\ turns'[u].prev = turns[u].prev
              /\ turns'[u].msg = turns[u].msg
              /\ turns'[u].pc = IF u = t THEN pc ELSE turns[u].pc
              /\ turns'[u].snap = IF u = t THEN snap ELSE turns[u].snap
<1> DEFINE new == [turns[t] EXCEPT !.pc = pc, !.snap = snap]
<1>1. turns \in Seq(TurnType) /\ TurnIds = 1..Len(turns) /\ Len(turns) \in Nat
  BY TurnIdsAre DEF QueueTypeOK
<1>2. \A u \in TurnIds : turns[u] \in TurnType
  BY <1>1, ElementOfSeq
<1>3. new \in TurnType /\ new.rt = turns[t].rt /\ new.prev = turns[t].prev
      /\ new.msg = turns[t].msg /\ new.pc = pc /\ new.snap = snap
  BY <1>2 DEF TurnType
<1>4. turns' = [turns EXCEPT ![t] = new]
  BY <1>1 DEF SetTurn
<1>5. turns' \in Seq(TurnType) /\ Len(turns') = Len(turns)
      /\ \A u \in 1..Len(turns) : turns'[u] = IF u = t THEN new ELSE turns[u]
  BY <1>1, <1>3, <1>4, ExceptSeq
<1>6. TurnIds' = 1..Len(turns)
  BY <1>5, LenProperties DEF TurnIds
<1> QED BY <1>1, <1>3, <1>5, <1>6

LEMMA CrashEffect ==
  ASSUME QueueTypeOK, Crash
  PROVE  /\ turns' \in Seq(TurnType) /\ Len(turns') = Len(turns)
         /\ TurnIds' = TurnIds
         /\ \A u \in TurnIds :
              /\ turns'[u].rt = turns[u].rt /\ turns'[u].prev = turns[u].prev
              /\ turns'[u].pc \in Settled
              /\ turns'[u].snap = NoCase
<1> DEFINE lost(t) == IF turns[t].pc \in Settled THEN turns[t]
                      ELSE [turns[t] EXCEPT !.pc = "lost", !.snap = NoCase]
<1>1. turns \in Seq(TurnType) /\ TurnIds = 1..Len(turns) /\ Len(turns) \in Nat
  BY TurnIdsAre DEF QueueTypeOK
<1>2. \A u \in TurnIds : turns[u] \in TurnType
  BY <1>1, ElementOfSeq
<1>3. \A u \in TurnIds : /\ lost(u) \in TurnType
                         /\ lost(u).rt = turns[u].rt /\ lost(u).prev = turns[u].prev
                         /\ lost(u).pc \in Settled /\ lost(u).snap = NoCase
  <2> TAKE u \in TurnIds
  <2>1. CASE turns[u].pc \in Settled
    <3>1. turns[u].snap = NoCase
      BY <2>1 DEF QueueTypeOK, Settled
    <3> QED BY <1>2, <2>1, <3>1
  <2>2. CASE turns[u].pc \notin Settled
    BY <1>2, <2>2 DEF TurnType, Settled
  <2> QED BY <2>1, <2>2
<1>4. turns' = [u \in 1..Len(turns) |-> lost(u)]
  BY <1>1 DEF Crash
<1> HIDE DEF lost
<1>5. turns' \in Seq(TurnType) /\ Len(turns') = Len(turns) /\ DOMAIN turns' = 1..Len(turns)
  BY <1>1, <1>3, <1>4
<1> QED BY <1>1, <1>3, <1>4, <1>5 DEF TurnIds

LEMMA QueueType ==
  ASSUME TypeOK, Next
  PROVE  QueueTypeOK'
<1>1. QueueTypeOK /\ FileTypeOK
  BY DEF TypeOK
<1>2. turns \in Seq(TurnType) /\ TurnIds = 1..Len(turns) /\ Len(turns) \in Nat
  BY <1>1, TurnIdsAre DEF QueueTypeOK
<1>3. ASSUME NEW m \in Messages, NEW async \in BOOLEAN, Enqueue(m, async),
             UNCHANGED <<up, rt, failing, crashes>>, asked' \in 0..MaxMessages
      PROVE  QueueTypeOK'
  <2> DEFINE n == Len(turns) + 1
  <2>1. /\ turns' \in Seq(TurnType) /\ Len(turns') = n /\ n \in 1..MaxTurns
        /\ TurnIds' = 1..n /\ TurnIds = 1..(n - 1)
        /\ \A t \in TurnIds : turns'[t] = turns[t]
        /\ turns'[n].pc = "queued" /\ turns'[n].snap = NoCase
        /\ tail' = [tail EXCEPT ![rt] = n]
    <3>1. turns'[n] = [msg |-> m, rt |-> rt, async |-> async,
                       prev |-> tail[rt], pc |-> "queued", snap |-> NoCase]
      BY <1>1, <1>3, EnqueueEffect
    <3>2. turns'[n].pc = "queued" /\ turns'[n].snap = NoCase
      BY <3>1
    <3> QED BY <1>1, <1>3, <3>2, EnqueueEffect
  <2>2. \A t \in TurnIds' : (turns'[t].pc = "running") <=> (turns'[t].snap # NoCase)
    <3> TAKE t \in TurnIds'
    <3>1. CASE t = n
      BY <2>1, <3>1
    <3>2. CASE t # n
      <4>1. t \in TurnIds
        BY <1>2, <2>1, <3>2
      <4> QED BY <1>1, <2>1, <4>1 DEF QueueTypeOK
    <3> QED BY <3>1, <3>2
  <2>3. tail' \in [Runtimes -> 0..n]
    BY <1>1, <1>2, <2>1 DEF QueueTypeOK
  <2>4. failing' \in Seq(TurnIds')
    BY <1>1, <1>2, <1>3, <2>1, SeqMonotonic DEF QueueTypeOK
  <2> QED BY <1>1, <1>3, <2>1, <2>2, <2>3, <2>4 DEF QueueTypeOK
<1>4. ASSUME NEW t \in TurnIds, NEW pc \in {"queued", "running"} \cup Settled,
             NEW snap \in CaseType \cup {NoCase}, SetTurn(t, pc, snap),
             (pc = "running") <=> (snap # NoCase),
             Forget(t) \/ UNCHANGED tail,
             failing' = Append(failing, t) \/ UNCHANGED failing,
             UNCHANGED <<up, rt, asked, crashes>>
      PROVE  QueueTypeOK'
  <2>1. /\ turns' \in Seq(TurnType) /\ Len(turns') = Len(turns) /\ TurnIds' = TurnIds
        /\ \A u \in TurnIds : /\ turns'[u].pc = IF u = t THEN pc ELSE turns[u].pc
                              /\ turns'[u].snap = IF u = t THEN snap ELSE turns[u].snap
    BY <1>1, <1>4, SetTurnEffect
  <2>2. \A u \in TurnIds' : (turns'[u].pc = "running") <=> (turns'[u].snap # NoCase)
    BY <1>1, <1>4, <2>1 DEF QueueTypeOK
  <2>3. tail' \in [Runtimes -> 0..Len(turns)]
    <3>1. tail \in [Runtimes -> 0..Len(turns)] /\ 0 \in 0..Len(turns)
      BY <1>1, <1>2 DEF QueueTypeOK
    <3> QED BY <1>4, <3>1 DEF Forget
  <2>4. failing' \in Seq(TurnIds)
    BY <1>1, <1>4, AppendProperties DEF QueueTypeOK
  <2> QED BY <1>1, <1>4, <2>1, <2>2, <2>3, <2>4 DEF QueueTypeOK
<1>5. ASSUME UNCHANGED <<turns, tail>>, failing' \in Seq(TurnIds), up' \in BOOLEAN,
             rt' \in Runtimes, UNCHANGED <<asked, crashes>>
      PROVE  QueueTypeOK'
  BY <1>1, <1>5 DEF QueueTypeOK, TurnIds
<1>6. ASSUME NEW async \in BOOLEAN, Accept(async) PROVE QueueTypeOK'
  <2>1. asked + 1 \in Messages /\ asked' \in 0..MaxMessages
    BY <1>1, <1>6, BoundsAssumption DEF Accept, QueueTypeOK, Messages
  <2> QED BY <1>3, <1>6, <2>1 DEF Accept
<1>7. ASSUME Retry PROVE QueueTypeOK'
  <2>1. Retryable(disk) \in Messages
    BY <1>1, <1>7, QuestionType DEF Retry, FileTypeOK
  <2>2. Enqueue(Retryable(disk), TRUE) /\ UNCHANGED <<up, rt, failing, asked, crashes>>
    BY <1>7 DEF Retry
  <2> QED BY <1>1, <1>3, <2>1, <2>2 DEF QueueTypeOK
<1>8. ASSUME NEW t \in TurnIds, TurnStep(t) PROVE QueueTypeOK'
  <2>1. /\ turns[t] \in TurnType
        /\ turns[t].pc = "running" => turns[t].snap \in CaseType
    BY <1>1, TurnFieldTypes
  <2>2. CASE Start(t)
    <3>1. disk \in CaseType /\ disk # NoCase
      BY <1>1, <2>2 DEF Start, CanStart, FileTypeOK
    <3> QED BY <1>4, <2>2, <3>1 DEF Start
  <2>3. CASE Reject(t) /\ UNCHANGED <<up, rt, asked, crashes>>
    BY <1>4, <2>3 DEF Reject, Settled
  <2>4. CASE Curate(t)
    BY <1>4, <2>4 DEF Curate, Settled
  <2>5. CASE Progress(t)
    <3>1. PICK status \in {turns[t].snap.status, "diagnosing"} :
            SetTurn(t, "running", WithStatus(turns[t].snap, status))
      BY <2>5 DEF Progress
    <3>2. turns[t].snap \in CaseType /\ status \in Status
      BY <2>1, <2>5, <3>1, StatusType DEF Progress, CaseType
    <3>3. WithStatus(turns[t].snap, status) \in CaseType
      BY <3>2, HandlerTypes
    <3> QED BY <1>4, <2>5, <3>1, <3>3, NoCaseAssumption DEF Progress
  <2>6. CASE Finish(t)
    BY <1>4, <2>6 DEF Finish, Settled
  <2> QED BY <1>8, <2>2, <2>3, <2>4, <2>5, <2>6 DEF TurnStep, StartRefused, Fail
<1>9. ASSUME RecordFailure PROVE QueueTypeOK'
  <2>1. Tail(failing) \in Seq(TurnIds)
    BY <1>1, <1>9, HeadTailProperties DEF RecordFailure, QueueTypeOK
  <2> QED BY <1>1, <1>5, <1>9, <2>1 DEF RecordFailure, QueueTypeOK
<1>10. ASSUME Crash PROVE QueueTypeOK'
  <2>1. /\ turns' \in Seq(TurnType) /\ Len(turns') = Len(turns) /\ TurnIds' = TurnIds
        /\ \A u \in TurnIds : turns'[u].pc \in Settled /\ turns'[u].snap = NoCase
    BY <1>1, <1>10, CrashEffect
  <2>2. \A u \in TurnIds' : (turns'[u].pc = "running") <=> (turns'[u].snap # NoCase)
    BY <2>1 DEF Settled
  <2>3. tail' \in [Runtimes -> 0..Len(turns)] /\ failing' \in Seq(TurnIds)
    <3>1. tail' = [r \in Runtimes |-> 0] /\ failing' = <<>>
      BY <1>10 DEF Crash
    <3>2. 0 \in 0..Len(turns)
      BY <1>2
    <3> QED BY <3>1, <3>2, EmptySeq
  <2>4. up' \in BOOLEAN /\ crashes' \in 0..MaxCrashes
    <3>1. up' = FALSE /\ crashes' = crashes + 1 /\ crashes < MaxCrashes
      BY <1>10 DEF Crash
    <3>2. crashes \in 0..MaxCrashes
      BY <1>1 DEF QueueTypeOK
    <3>3. crashes' \in 0..MaxCrashes
      BY <3>1, <3>2, BoundsAssumption
    <3> QED BY <3>1, <3>3
  <2> QED BY <1>1, <1>10, <2>1, <2>2, <2>3, <2>4 DEF QueueTypeOK, Crash
<1>11. ASSUME Reload PROVE QueueTypeOK'
  <2>1. rt' \in Runtimes
    BY <1>1, <1>11, BoundsAssumption DEF Reload, QueueTypeOK, Runtimes
  <2> QED BY <1>1, <1>5, <1>11, <2>1 DEF Reload, QueueTypeOK
<1>12. ASSUME RecoverStale \/ Archive \/ Touch \/ Delete \/ Flush \/ Restart \/ Age
       PROVE  QueueTypeOK'
  BY <1>1, <1>5, <1>12
     DEF RecoverStale, Archive, Touch, Delete, Flush, Restart, Age, QueueTypeOK
<1> QED BY <1>6, <1>7, <1>8, <1>9, <1>10, <1>11, <1>12 DEF Next

LEMMA InitType == Init => TypeOK
<1> SUFFICES ASSUME Init PROVE TypeOK
  OBVIOUS
<1>1. FileTypeOK
  BY NewCaseType, EmptySeq DEF Init, FileTypeOK
<1>2. turns = <<>> /\ turns \in Seq(TurnType) /\ Len(turns) = 0 /\ TurnIds = {}
  BY EmptySeq, LenProperties DEF Init, TurnIds
<1>3. failing \in Seq(TurnIds)
  BY EmptySeq DEF Init
<1>4. tail \in [Runtimes -> 0..Len(turns)] /\ rt \in Runtimes
  BY <1>2, BoundsAssumption DEF Init, Runtimes
<1>5. QueueTypeOK
  BY <1>2, <1>3, <1>4, BoundsAssumption DEF Init, QueueTypeOK
<1> QED BY <1>1, <1>5 DEF TypeOK

LEMMA StutterType == TypeOK /\ UNCHANGED vars => TypeOK'
  BY DEF TypeOK, FileTypeOK, QueueTypeOK, TurnIds, vars

(* Type correctness: file, queue and turns keep their types, and a turn    *)
(* holds a copy of the case exactly while it runs.                         *)
THEOREM CaseTypeCorrect == Spec => []TypeOK
<1>1. TypeOK /\ [Next]_vars => TypeOK'
  BY FileType, QueueType, StutterType DEF TypeOK
<1> QED BY InitType, <1>1, PTL DEF Spec

-----------------------------------------------------------------------------
(* The order of the turns. *)

(* The predecessor of a turn that may start has settled, and with it all   *)
(* the earlier turns of the runtime.                                       *)
LEMMA EarlierTurnsSettled ==
  ASSUME QueueTypeOK, OrderOK, NEW t \in TurnIds, Startable(t) \/ turns[t].pc = "running",
         NEW u \in 1..(t - 1), turns[u].rt = turns[t].rt
  PROVE  turns[u].pc \in Settled
<1>1. turns \in Seq(TurnType) /\ TurnIds = 1..Len(turns) /\ Len(turns) \in Nat
  BY TurnIdsAre DEF QueueTypeOK
<1>2. t \in 1..Len(turns) /\ u \in TurnIds /\ turns[t].prev \in 0..MaxTurns
  BY <1>1, TurnFieldTypes DEF TurnType
<1>3. CASE turns[t].pc = "running"
  BY <1>3 DEF OrderOK, TurnsRunInOrder
<1>4. CASE Startable(t)
  <2> SUFFICES ASSUME turns[u].pc \notin Settled PROVE FALSE
    OBVIOUS
  <2> DEFINE p == turns[t].prev
  <2>1. u <= p /\ p < t /\ turns[p].rt = turns[t].rt
    BY <1>2 DEF OrderOK, QueueOK
  <2>2. p # 0 /\ p \in TurnIds
    BY <1>1, <1>2, <2>1
  <2>3. turns[p].pc \in Settled
    BY <1>4, <2>2 DEF Startable
  <2>4. u \in 1..(p - 1)
    BY <1>2, <2>1, <2>2, <2>3
  <2>5. turns[p].pc # "queued"
    BY <2>3 DEF Settled
  <2> QED BY <2>1, <2>2, <2>4, <2>5 DEF OrderOK, TurnsRunInOrder
<1> QED BY <1>3, <1>4

LEMMA EnqueueKeepsOrder ==
  ASSUME QueueTypeOK, OrderOK, NEW m \in Messages, NEW async \in BOOLEAN, Enqueue(m, async)
  PROVE  OrderOK'
<1> DEFINE n == Len(turns) + 1
<1>1. TurnIds = 1..Len(turns) /\ Len(turns) \in Nat
      /\ tail \in [Runtimes -> 0..Len(turns)] /\ rt \in Runtimes
  BY TurnIdsAre DEF QueueTypeOK
<1>2. /\ TurnIds' = 1..n /\ \A t \in TurnIds : turns'[t] = turns[t]
      /\ tail' = [tail EXCEPT ![rt] = n]
      /\ turns'[n] = [msg |-> m, rt |-> rt, async |-> async,
                      prev |-> tail[rt], pc |-> "queued", snap |-> NoCase]
  BY EnqueueEffect
<1>3. turns'[n].rt = rt /\ turns'[n].prev = tail[rt] /\ turns'[n].pc = "queued"
  BY <1>2
<1>4. \A t \in TurnIds' : t = n \/ t \in TurnIds
  BY <1>1, <1>2
<1>5. \A t \in TurnIds : /\ t < n /\ \A u \in 1..(t - 1) : u \in TurnIds
                         /\ turns[t].rt \in Runtimes
                         /\ turns[t].prev \in Nat /\ turns[t].prev < t
  BY <1>1, TurnFieldTypes DEF OrderOK, QueueOK, TurnType
<1>6. \A t \in TurnIds' :
        /\ turns'[t].prev < t
        /\ turns'[t].prev # 0 => turns'[turns'[t].prev].rt = turns'[t].rt
  <2> TAKE t \in TurnIds'
  <2>1. CASE t = n
    <3>1. tail[rt] \in 0..Len(turns) /\ (tail[rt] # 0 => turns[tail[rt]].rt = rt)
      BY <1>1 DEF OrderOK, QueueOK
    <3>2. tail[rt] # 0 => turns'[tail[rt]] = turns[tail[rt]]
      BY <1>1, <1>2, <3>1
    <3> QED BY <1>1, <1>3, <2>1, <3>1, <3>2
  <2>2. CASE t \in TurnIds
    <3>1. turns[t].prev < t /\ (turns[t].prev # 0 => turns[turns[t].prev].rt = turns[t].rt)
      BY <2>2 DEF OrderOK, QueueOK
    <3>2. turns[t].prev # 0 => turns[t].prev \in TurnIds
      BY <1>1, <1>5, <2>2
    <3> QED BY <1>2, <2>2, <3>1, <3>2
  <2> QED BY <1>4, <2>1, <2>2
<1>7. \A t \in TurnIds' : \A u \in 1..(t - 1) :
        (turns'[u].rt = turns'[t].rt /\ turns'[u].pc \notin Settled) => u <= turns'[t].prev
  <2> TAKE t \in TurnIds'
  <2> TAKE u \in 1..(t - 1)
  <2>1. CASE t = n
    <3>1. u \in TurnIds
      BY <1>1, <2>1
    <3> QED BY <1>2, <1>3, <2>1, <3>1 DEF OrderOK, QueueOK
  <2>2. CASE t \in TurnIds
    BY <1>2, <1>5, <2>2 DEF OrderOK, QueueOK
  <2> QED BY <1>4, <2>1, <2>2
<1>8. \A u \in TurnIds' : turns'[u].pc \notin Settled => u <= tail'[turns'[u].rt]
  <2> SUFFICES ASSUME NEW u \in TurnIds', turns'[u].pc \notin Settled
               PROVE  u <= tail'[turns'[u].rt]
    OBVIOUS
  <2>1. CASE u = n
    BY <1>1, <1>2, <1>3, <2>1
  <2>2. CASE u \in TurnIds
    <3>1. turns'[u] = turns[u] /\ u <= tail[turns[u].rt] /\ u < n /\ turns[u].rt \in Runtimes
      BY <1>2, <1>5, <2>2 DEF OrderOK, QueueOK
    <3> QED BY <1>1, <1>2, <2>2, <3>1
  <2> QED BY <1>4, <2>1, <2>2
<1>9. \A r \in Runtimes : tail'[r] # 0 => turns'[tail'[r]].rt = r
  <2> SUFFICES ASSUME NEW r \in Runtimes, tail'[r] # 0
               PROVE  turns'[tail'[r]].rt = r
    OBVIOUS
  <2>1. CASE r = rt
    BY <1>1, <1>2, <1>3, <2>1
  <2>2. CASE r # rt
    <3>1. tail'[r] = tail[r] /\ tail[r] \in TurnIds
      BY <1>1, <1>2, <2>2
    <3> QED BY <1>2, <3>1 DEF OrderOK, QueueOK
  <2> QED BY <2>1, <2>2
<1>10. TurnsRunInOrder'
  <2> SUFFICES ASSUME NEW t \in TurnIds', NEW u \in 1..(t - 1),
                      turns'[u].rt = turns'[t].rt, turns'[t].pc # "queued"
               PROVE  turns'[u].pc \in Settled
    BY DEF TurnsRunInOrder
  <2>1. t \in TurnIds
    BY <1>3, <1>4
  <2> QED BY <1>2, <1>5, <2>1 DEF OrderOK, TurnsRunInOrder
<1> QED BY <1>6, <1>7, <1>8, <1>9, <1>10 DEF OrderOK, QueueOK

LEMMA TurnStepKeepsOrder ==
  ASSUME QueueTypeOK, OrderOK, NEW t \in TurnIds,
         Startable(t) \/ turns[t].pc = "running",
         NEW pc \in {"running"} \cup Settled, NEW snap \in CaseType \cup {NoCase},
         SetTurn(t, pc, snap),
         \/ pc = "running" /\ UNCHANGED tail
         \/ pc \in Settled /\ Forget(t)
  PROVE  OrderOK'
<1>1. /\ TurnIds' = TurnIds
      /\ \A u \in TurnIds : /\ turns'[u].rt = turns[u].rt /\ turns'[u].prev = turns[u].prev
                            /\ turns'[u].pc = IF u = t THEN pc ELSE turns[u].pc
  BY SetTurnEffect
<1>2. TurnIds = 1..Len(turns) /\ Len(turns) \in Nat /\ tail \in [Runtimes -> 0..Len(turns)]
  BY TurnIdsAre DEF QueueTypeOK
<1>3. turns[t].pc \notin Settled
  BY DEF Startable, Settled
<1>4. \A u \in TurnIds : turns'[u].pc \notin Settled => turns[u].pc \notin Settled
  BY <1>1, <1>3
<1>5. \A u \in TurnIds : /\ \A v \in 1..(u - 1) : v \in TurnIds
                         /\ turns[u].rt \in Runtimes
                         /\ turns[u].prev \in Nat /\ turns[u].prev < u
  BY <1>2, TurnFieldTypes DEF OrderOK, QueueOK, TurnType
<1>6. \A u \in TurnIds' :
        /\ turns'[u].prev < u
        /\ turns'[u].prev # 0 => turns'[turns'[u].prev].rt = turns'[u].rt
  <2> TAKE u \in TurnIds'
  <2>1. turns[u].prev # 0 => turns[u].prev \in TurnIds
    BY <1>1, <1>2, <1>5
  <2> QED BY <1>1, <1>5, <2>1 DEF OrderOK, QueueOK
<1>7. \A u \in TurnIds' : \A v \in 1..(u - 1) :
        (turns'[v].rt = turns'[u].rt /\ turns'[v].pc \notin Settled) => v <= turns'[u].prev
  BY <1>1, <1>4, <1>5 DEF OrderOK, QueueOK
<1>8. \A u \in TurnIds' : turns'[u].pc \notin Settled => u <= tail'[turns'[u].rt]
  <2> SUFFICES ASSUME NEW u \in TurnIds, turns'[u].pc \notin Settled
               PROVE  u <= tail'[turns[u].rt]
    BY <1>1
  <2>1. u <= tail[turns[u].rt] /\ turns[u].rt \in Runtimes
    BY <1>4, <1>5 DEF OrderOK, QueueOK
  <2>2. CASE UNCHANGED tail
    BY <2>1, <2>2
  <2>3. CASE pc \in Settled /\ Forget(t)
    <3>1. u # t
      BY <1>1, <2>3
    <3>2. CASE turns[u].rt = turns[t].rt /\ tail[turns[t].rt] = t
      <4>1. u \in 1..(t - 1)
        BY <1>2, <2>1, <3>1, <3>2
      <4> QED BY <1>4, <3>2, <4>1, EarlierTurnsSettled
    <3>3. CASE ~(turns[u].rt = turns[t].rt /\ tail[turns[t].rt] = t)
      <4>1. tail'[turns[u].rt] = tail[turns[u].rt]
        BY <1>2, <2>1, <2>3, <3>3 DEF Forget
      <4> QED BY <2>1, <4>1
    <3> QED BY <3>2, <3>3
  <2> QED BY <2>2, <2>3
<1>9. \A r \in Runtimes : tail'[r] # 0 => turns'[tail'[r]].rt = r
  <2> SUFFICES ASSUME NEW r \in Runtimes, tail'[r] # 0
               PROVE  turns'[tail'[r]].rt = r
    OBVIOUS
  <2>1. tail'[r] = tail[r]
    BY <1>2 DEF Forget
  <2>2. tail[r] \in TurnIds
    BY <1>2, <2>1
  <2> QED BY <1>1, <2>1, <2>2 DEF OrderOK, QueueOK
<1>10. TurnsRunInOrder'
  <2> SUFFICES ASSUME NEW u \in TurnIds, NEW v \in 1..(u - 1),
                      turns[v].rt = turns[u].rt, turns'[u].pc # "queued"
               PROVE  turns'[v].pc \in Settled
    BY <1>1, <1>5 DEF TurnsRunInOrder
  <2>1. v \in TurnIds
    BY <1>5
  <2>2. turns[v].pc \in Settled
    <3>1. CASE u = t
      BY <3>1, EarlierTurnsSettled
    <3>2. CASE u # t
      BY <1>1, <3>2 DEF OrderOK, TurnsRunInOrder
    <3> QED BY <3>1, <3>2
  <2> QED BY <1>1, <1>3, <2>1, <2>2
<1> QED BY <1>6, <1>7, <1>8, <1>9, <1>10 DEF OrderOK, QueueOK

LEMMA CrashKeepsOrder ==
  ASSUME QueueTypeOK, OrderOK, Crash
  PROVE  OrderOK'
<1>1. /\ TurnIds' = TurnIds
      /\ \A u \in TurnIds : /\ turns'[u].rt = turns[u].rt /\ turns'[u].prev = turns[u].prev
                            /\ turns'[u].pc \in Settled
  BY CrashEffect
<1>2. TurnIds = 1..Len(turns) /\ Len(turns) \in Nat
  BY TurnIdsAre DEF QueueTypeOK
<1>3. \A u \in TurnIds : /\ \A v \in 1..(u - 1) : v \in TurnIds
                         /\ turns[u].prev \in Nat /\ turns[u].prev < u
                         /\ turns[u].prev # 0 => turns[u].prev \in TurnIds
  BY <1>2, TurnFieldTypes DEF OrderOK, QueueOK, TurnType
<1>4. \A r \in Runtimes : tail'[r] = 0
  BY DEF Crash
<1>5. QueueOK'
  BY <1>1, <1>3, <1>4 DEF OrderOK, QueueOK
<1>6. TurnsRunInOrder'
  BY <1>1, <1>3 DEF TurnsRunInOrder
<1> QED BY <1>5, <1>6 DEF OrderOK

LEMMA OrderStep ==
  ASSUME TypeOK, OrderOK, [Next]_vars
  PROVE  OrderOK'
<1>1. QueueTypeOK /\ FileTypeOK
  BY DEF TypeOK
<1>2. ASSUME UNCHANGED <<turns, tail>> PROVE OrderOK'
  BY <1>2 DEF OrderOK, QueueOK, TurnsRunInOrder, TurnIds
<1>3. ASSUME NEW async \in BOOLEAN, Accept(async) PROVE OrderOK'
  <2>1. asked + 1 \in Messages
    BY <1>1, <1>3, BoundsAssumption DEF Accept, QueueTypeOK, Messages
  <2> QED BY <1>1, <1>3, <2>1, EnqueueKeepsOrder DEF Accept
<1>4. ASSUME Retry PROVE OrderOK'
  <2>1. Retryable(disk) \in Messages
    BY <1>1, <1>4, QuestionType DEF Retry, FileTypeOK
  <2>2. Enqueue(Retryable(disk), TRUE)
    BY <1>4 DEF Retry
  <2> QED BY <1>1, <2>1, <2>2, EnqueueKeepsOrder
<1>5. ASSUME NEW t \in TurnIds, TurnStep(t) PROVE OrderOK'
  <2>1. turns[t].pc = "running" => turns[t].snap \in CaseType
    BY <1>1, TurnFieldTypes
  <2>2. CASE Start(t)
    <3>1. disk \in CaseType
      BY <1>1, <2>2 DEF Start, CanStart, FileTypeOK
    <3> QED BY <1>1, <2>2, <3>1, TurnStepKeepsOrder DEF Start, Starting
  <2>3. CASE StartRefused(t)
    BY <1>1, <2>3, TurnStepKeepsOrder DEF StartRefused, Starting, Reject, Settled
  <2>4. CASE Curate(t)
    BY <1>1, <2>4, TurnStepKeepsOrder DEF Curate, Starting, Settled
  <2>5. CASE Progress(t)
    <3>1. PICK status \in {turns[t].snap.status, "diagnosing"} :
            SetTurn(t, "running", WithStatus(turns[t].snap, status))
      BY <2>5 DEF Progress
    <3>2. turns[t].snap \in CaseType /\ status \in Status
      BY <2>1, <2>5, <3>1, StatusType DEF Progress, CaseType
    <3>3. WithStatus(turns[t].snap, status) \in CaseType
      BY <3>2, HandlerTypes
    <3> QED BY <1>1, <2>5, <3>1, <3>3, TurnStepKeepsOrder DEF Progress
  <2>6. CASE Finish(t)
    BY <1>1, <2>6, TurnStepKeepsOrder DEF Finish, Settled
  <2>7. CASE Fail(t)
    BY <1>1, <2>7, TurnStepKeepsOrder DEF Fail, Reject, Settled
  <2> QED BY <1>5, <2>2, <2>3, <2>4, <2>5, <2>6, <2>7 DEF TurnStep
<1>6. CASE Crash
  BY <1>1, <1>6, CrashKeepsOrder
<1>7. CASE RecoverStale \/ Archive \/ Touch \/ Delete \/ Reload \/ RecordFailure \/ Flush
           \/ Restart \/ Age
  BY <1>2, <1>7
     DEF RecoverStale, Archive, Touch, Delete, Reload, RecordFailure, Flush, Restart, Age
<1>8. CASE UNCHANGED vars
  BY <1>2, <1>8 DEF vars
<1> QED BY <1>3, <1>4, <1>5, <1>6, <1>7, <1>8 DEF Next

LEMMA InitOrder == Init => OrderOK
<1> SUFFICES ASSUME Init PROVE OrderOK
  OBVIOUS
<1>1. TurnIds = {}
  BY LenProperties, EmptySeq DEF Init, TurnIds
<1>2. \A r \in Runtimes : tail[r] = 0
  BY DEF Init
<1> QED BY <1>1, <1>2 DEF OrderOK, QueueOK, TurnsRunInOrder

(* The promise chain of a runtime runs the turns of a case one at a time   *)
(* and in the order they were accepted, whether the earlier ones were      *)
(* answered, rejected or lost with their process.                          *)
THEOREM TurnOrder == Spec => []TurnsRunInOrder
<1>1. Init => TypeOK /\ OrderOK
  BY InitType, InitOrder
<1>2. TypeOK /\ OrderOK /\ [Next]_vars => (TypeOK /\ OrderOK)'
  BY FileType, QueueType, StutterType, OrderStep DEF TypeOK
<1>3. OrderOK => TurnsRunInOrder
  BY DEF OrderOK
<1> QED BY <1>1, <1>2, <1>3, PTL DEF Spec

-----------------------------------------------------------------------------
(* What a case says of its interruptions and answers.                      *)

CaseOK(c) ==
  \A m \in Messages :
    /\ AtMostOnce(c.msgs, Reply("placeholder", m))
    /\ Holds(c.logs, Log("interrupted", m)) =>
         (Holds(c.msgs, Reply("placeholder", m)) <=> ~Holds(c.logs, Log("retried", m)))
    /\ Holds(c.logs, Log("retried", m)) => Holds(c.logs, Log("interrupted", m))
    /\ Holds(c.msgs, Reply("formal", m)) => Holds(c.msgs, Question(m))

(* The file, what is still to be saved, and every copy a turn holds: each  *)
(* may be the file after the next step.                                    *)
SavedOK == /\ disk # NoCase => CaseOK(disk)
           /\ \A i \in DOMAIN pending : CaseOK(pending[i])
CopiesOK == \A t \in TurnIds : turns[t].pc = "running" =>
              CaseOK(turns[t].snap) /\ Holds(turns[t].snap.msgs, Question(turns[t].msg))
FileOK == SavedOK /\ CopiesOK

LEMMA HoldsAppended ==
  ASSUME NEW S, NEW s \in Seq(S), NEW x \in S
  PROVE  /\ \A y : Holds(Append(s, x), y) <=> Holds(s, y) \/ y = x
         /\ \A y : AtMostOnce(s, y) /\ (y = x => ~Holds(s, y)) => AtMostOnce(Append(s, x), y)
<1>1. /\ DOMAIN s = 1..Len(s) /\ Len(s) \in Nat /\ DOMAIN Append(s, x) = 1..(Len(s) + 1)
      /\ \A i \in 1..Len(s) : Append(s, x)[i] = s[i]
      /\ Append(s, x)[Len(s) + 1] = x
  BY AppendProperties, LenProperties
<1>2. \A i \in DOMAIN Append(s, x) : i \in DOMAIN s \/ i = Len(s) + 1
  BY <1>1
<1>3. DOMAIN s \subseteq DOMAIN Append(s, x) /\ Len(s) + 1 \in DOMAIN Append(s, x)
  BY <1>1
<1>4. \A y : Holds(Append(s, x), y) <=> Holds(s, y) \/ y = x
  BY <1>1, <1>2, <1>3 DEF Holds
<1>5. ASSUME NEW y, AtMostOnce(s, y), y = x => ~Holds(s, y)
      PROVE  AtMostOnce(Append(s, x), y)
  BY <1>1, <1>2, <1>5 DEF Holds, AtMostOnce
<1> QED BY <1>4, <1>5

(* A placeholder that is there once is gone, and nothing else with it.     *)
LEMMA PlaceholderRemoved ==
  ASSUME NEW c \in CaseType, NEW m, Holds(c.msgs, Reply("placeholder", m)),
         AtMostOnce(c.msgs, Reply("placeholder", m))
  PROVE  /\ RemovePlaceholder(c, m).logs = c.logs
         /\ ~Holds(RemovePlaceholder(c, m).msgs, Reply("placeholder", m))
         /\ \A y : y # Reply("placeholder", m) =>
              /\ Holds(RemovePlaceholder(c, m).msgs, y) <=> Holds(c.msgs, y)
              /\ AtMostOnce(c.msgs, y) => AtMostOnce(RemovePlaceholder(c, m).msgs, y)
<1> DEFINE s == c.msgs
           x == Reply("placeholder", m)
           at == CHOOSE i \in DOMAIN s : s[i] = x
           n == Len(s)
           a == SubSeq(s, 1, at - 1)
           b == SubSeq(s, at + 1, n)
           r == a \o b
<1>1. s \in Seq(MessageType) /\ n \in Nat /\ DOMAIN s = 1..n
  BY LenProperties DEF CaseType
<1>2. at \in 1..n /\ s[at] = x
  BY <1>1 DEF Holds
<1>3. RemovePlaceholder(c, m).msgs = r /\ RemovePlaceholder(c, m).logs = c.logs
  BY DEF RemovePlaceholder, CaseType
<1>4. \A i \in 1..n : i # at => s[i] # x
  BY <1>1, <1>2 DEF AtMostOnce
<1> HIDE DEF at, s, x, n
<1>5. /\ a \in Seq(MessageType) /\ Len(a) = at - 1 /\ \A i \in 1..(at - 1) : a[i] = s[i]
      /\ b \in Seq(MessageType) /\ Len(b) = n - at /\ \A i \in 1..(n - at) : b[i] = s[i + at]
  <2>1. at - 1 \in Nat /\ at - 1 <= n /\ at + 1 \in Nat \ {0}
    BY <1>1, <1>2
  <2>2. a \in Seq(MessageType) /\ b \in Seq(MessageType)
    BY <1>1, <2>1, SubSeqType DEF n
  <2>3. Len(a) = at - 1 /\ \A i \in 1..(at - 1) : a[i] = s[i]
    BY <1>1, <1>2
  <2>4. Len(b) = n - at /\ \A i \in 1..(n - at) : b[i] = s[i + at]
    BY <1>1, <1>2
  <2> QED BY <2>2, <2>3, <2>4
<1> HIDE DEF a, b
<1>6. /\ DOMAIN r = 1..(n - 1)
      /\ \A i \in 1..(n - 1) : r[i] = IF i < at THEN s[i] ELSE s[i + 1]
  <2>1. /\ r \in Seq(MessageType) /\ Len(r) = n - 1
        /\ \A i \in 1..(n - 1) : r[i] = IF i <= at - 1 THEN a[i] ELSE b[i - (at - 1)]
    <3>1. /\ a \o b \in Seq(MessageType) /\ Len(a \o b) = Len(a) + Len(b)
          /\ \A i \in 1..(Len(a) + Len(b)) :
               (a \o b)[i] = IF i <= Len(a) THEN a[i] ELSE b[i - Len(a)]
      BY <1>5, ConcatProperties
    <3>2. Len(a) = at - 1 /\ Len(a) + Len(b) = n - 1
      BY <1>1, <1>2, <1>5
    <3> QED BY <3>1, <3>2
  <2> HIDE DEF r
  <2>2. ASSUME NEW i \in 1..(n - 1)
        PROVE  r[i] = IF i < at THEN s[i] ELSE s[i + 1]
    <3>1. CASE i < at
      BY <1>1, <1>2, <1>5, <2>1, <3>1
    <3>2. CASE i >= at
      <4>1. i - (at - 1) \in 1..(n - at) /\ (i - (at - 1)) + at = i + 1
        BY <1>1, <1>2, <3>2
      <4>2. b[i - (at - 1)] = s[i + 1]
        BY <1>5, <4>1
      <4>3. ~(i <= at - 1) /\ ~(i < at)
        BY <1>1, <1>2, <3>2
      <4> QED BY <2>1, <4>2, <4>3
    <3> QED BY <1>1, <1>2, <3>1, <3>2
  <2> QED BY <2>1, <2>2, LenProperties
<1> HIDE DEF r
<1>7. ~Holds(r, x)
  BY <1>1, <1>2, <1>4, <1>6 DEF Holds
<1>8. ASSUME NEW y, y # x, Holds(s, y)
      PROVE  Holds(r, y)
  <2>1. PICK i \in 1..n : s[i] = y
    BY <1>1, <1>8 DEF Holds
  <2>2. i # at
    BY <1>2, <1>8, <2>1
  <2>3. CASE i < at
    <3>1. i \in DOMAIN r /\ r[i] = y
      BY <1>1, <1>2, <1>6, <2>1, <2>3
    <3> QED BY <3>1 DEF Holds
  <2>4. CASE i > at
    <3>1. i - 1 \in DOMAIN r /\ r[i - 1] = y
      BY <1>1, <1>2, <1>6, <2>1, <2>4
    <3> QED BY <3>1 DEF Holds
  <2> QED BY <1>2, <2>2, <2>3, <2>4
<1>9. ASSUME NEW y, Holds(r, y)
      PROVE  Holds(s, y)
  BY <1>1, <1>2, <1>6, <1>9 DEF Holds
<1>10. ASSUME NEW y, AtMostOnce(s, y)
       PROVE  AtMostOnce(r, y)
  <2> SUFFICES ASSUME NEW i \in 1..(n - 1), NEW j \in 1..(n - 1), r[i] = y, r[j] = y
               PROVE  i = j
    BY <1>6 DEF AtMostOnce
  <2> DEFINE f(k) == IF k < at THEN k ELSE k + 1
  <2>1. f(i) \in DOMAIN s /\ f(j) \in DOMAIN s /\ s[f(i)] = y /\ s[f(j)] = y
    BY <1>1, <1>2, <1>6
  <2>2. f(i) = f(j)
    BY <1>10, <2>1 DEF AtMostOnce
  <2> QED BY <1>1, <1>2, <2>2
<1> QED BY <1>3, <1>7, <1>8, <1>9, <1>10 DEF s, x

(* What the saves add to a case keeps it sound.                            *)
LEMMA CaseOperations ==
  ASSUME NEW c \in CaseType, CaseOK(c)
  PROVE  /\ \A s : CaseOK(WithStatus(c, s))
         /\ CaseOK([c EXCEPT !.archived = TRUE])
         /\ \A m \in Messages : CaseOK(AddMessage(c, Question(m)))
         /\ \A k \in {"failure", "stale"}, m \in 0..MaxMessages : CaseOK(AddMessage(c, Reply(k, m)))
         /\ \A m \in Messages : Holds(c.msgs, Question(m)) => CaseOK(AddMessage(c, Reply("formal", m)))
<1>1. /\ \A s : WithStatus(c, s).msgs = c.msgs /\ WithStatus(c, s).logs = c.logs
      /\ [c EXCEPT !.archived = TRUE].msgs = c.msgs /\ [c EXCEPT !.archived = TRUE].logs = c.logs
      /\ \A x : AddMessage(c, x).msgs = Append(c.msgs, x) /\ AddMessage(c, x).logs = c.logs
      /\ c.msgs \in Seq(MessageType)
  BY DEF WithStatus, AddMessage, CaseType
<1>2. (\A s : CaseOK(WithStatus(c, s))) /\ CaseOK([c EXCEPT !.archived = TRUE])
  BY <1>1 DEF CaseOK
<1>3. ASSUME NEW x \in MessageType,
             x.kind # "placeholder", \A m \in Messages : x = Reply("formal", m) => Holds(c.msgs, Question(m))
      PROVE  CaseOK(AddMessage(c, x))
  <2>1. \A m \in Messages : Reply("placeholder", m) # x
    BY <1>3 DEF Reply
  <2>2. \A y : Holds(Append(c.msgs, x), y) <=> Holds(c.msgs, y) \/ y = x
    BY <1>1, HoldsAppended
  <2>3. \A m \in Messages : AtMostOnce(Append(c.msgs, x), Reply("placeholder", m))
    <3>1. \A m \in Messages : AtMostOnce(c.msgs, Reply("placeholder", m))
      BY DEF CaseOK
    <3> QED BY <1>1, <2>1, <3>1, HoldsAppended
  <2>4. ASSUME NEW m \in Messages
        PROVE  /\ Holds(Append(c.msgs, x), Reply("placeholder", m)) <=> Holds(c.msgs, Reply("placeholder", m))
               /\ Holds(Append(c.msgs, x), Reply("formal", m)) => Holds(Append(c.msgs, x), Question(m))
    BY <1>3, <2>1, <2>2 DEF CaseOK
  <2> QED BY <1>1, <2>3, <2>4 DEF CaseOK
<1>4. ASSUME NEW m \in Messages
      PROVE  CaseOK(AddMessage(c, Question(m)))
  <2>1. Question(m).kind # "placeholder" /\ \A n \in Messages : Question(m) # Reply("formal", n)
    BY DEF Question, Reply
  <2> QED BY <1>3, <2>1, MessageTypes
<1>5. ASSUME NEW k \in {"failure", "stale"}, NEW m \in 0..MaxMessages
      PROVE  CaseOK(AddMessage(c, Reply(k, m)))
  <2>1. Reply(k, m).kind # "placeholder" /\ \A n \in Messages : Reply(k, m) # Reply("formal", n)
    BY DEF Reply
  <2>2. Reply(k, m) \in MessageType
    BY MessageTypes, StatusType
  <2> QED BY <1>3, <2>1, <2>2
<1>6. ASSUME NEW m \in Messages, Holds(c.msgs, Question(m))
      PROVE  CaseOK(AddMessage(c, Reply("formal", m)))
  <2>1. Reply("formal", m).kind # "placeholder"
        /\ \A n \in Messages : Reply("formal", m) = Reply("formal", n) => n = m
    BY DEF Reply
  <2>2. Reply("formal", m) \in MessageType
    BY MessageTypes, StatusType
  <2> QED BY <1>3, <1>6, <2>1, <2>2
<1> QED BY <1>2, <1>4, <1>5, <1>6

(* The retry: the placeholder goes and the retry is logged, in one save.   *)
LEMMA RetryKeepsCase ==
  ASSUME NEW c \in CaseType, CaseOK(c), NEW m \in Messages, Retryable(c) = m
  PROVE  CaseOK(AddLog(RemovePlaceholder(c, m), Log("retried", m)))
<1> DEFINE r == RemovePlaceholder(c, m)
           x == Log("retried", m)
<1>1. m # 0
  BY StatusType
<1>2. LastInterrupted(c) = m /\ RetryableNow(c, m)
  BY <1>1 DEF Retryable
<1>3. Holds(c.logs, Log("interrupted", m))
  <2> DEFINE found == {i \in DOMAIN c.logs : c.logs[i].phase = "interrupted"}
             last == CHOOSE i \in found : \A j \in found : j <= i
  <2>1. /\ c.logs \in Seq(LogType) /\ DOMAIN c.logs = 1..Len(c.logs) /\ Len(c.logs) \in Nat
        /\ found \subseteq 1..Len(c.logs)
    BY LenProperties DEF CaseType
  <2>2. found # {} /\ m = c.logs[last].msg
    BY <1>1, <1>2 DEF LastInterrupted
  <2>3. last \in found
    BY <2>1, <2>2, Greatest
  <2> HIDE DEF last
  <2>4. c.logs[last] \in LogType /\ c.logs[last].phase = "interrupted" /\ last \in DOMAIN c.logs
    BY <2>1, <2>3, ElementOfSeq
  <2>5. c.logs[last] = Log("interrupted", m)
    BY <2>2, <2>4 DEF LogType, Log
  <2> QED BY <2>4, <2>5 DEF Holds
<1>4. /\ Holds(c.msgs, Reply("placeholder", m)) /\ AtMostOnce(c.msgs, Reply("placeholder", m))
      /\ ~Holds(c.logs, Log("retried", m))
  BY <1>2 DEF RetryableNow, CaseOK
<1>5. /\ r \in CaseType /\ r.logs = c.logs /\ ~Holds(r.msgs, Reply("placeholder", m))
      /\ \A y : y # Reply("placeholder", m) =>
           /\ Holds(r.msgs, y) <=> Holds(c.msgs, y)
           /\ AtMostOnce(c.msgs, y) => AtMostOnce(r.msgs, y)
  BY <1>4, PlaceholderRemoved, RemovePlaceholderType
<1> HIDE DEF r
<1>6. /\ AddLog(r, x).msgs = r.msgs
      /\ \A y : Holds(AddLog(r, x).logs, y) <=> Holds(c.logs, y) \/ y = x
  <2>1. r.logs \in Seq(LogType) /\ x \in LogType
    BY <1>5, MessageTypes DEF CaseType
  <2>2. AddLog(r, x).msgs = r.msgs /\ AddLog(r, x).logs = Append(r.logs, x)
    BY <1>5 DEF AddLog, CaseType
  <2>3. \A y : Holds(Append(r.logs, x), y) <=> Holds(r.logs, y) \/ y = x
    BY <2>1, HoldsAppended
  <2> QED BY <1>5, <2>2, <2>3
<1>7. \A n \in Messages : /\ Reply("placeholder", n) = Reply("placeholder", m) => n = m
                          /\ Log("retried", n) = x => n = m
                          /\ Log("interrupted", n) # x
                          /\ Reply("formal", n) # Reply("placeholder", m)
                          /\ Question(n) # Reply("placeholder", m)
  BY DEF Reply, Log, Question
<1>8. ASSUME NEW n \in Messages
      PROVE  /\ AtMostOnce(r.msgs, Reply("placeholder", n))
             /\ Holds(AddLog(r, x).logs, Log("interrupted", n)) =>
                  (Holds(r.msgs, Reply("placeholder", n)) <=> ~Holds(AddLog(r, x).logs, Log("retried", n)))
             /\ Holds(AddLog(r, x).logs, Log("retried", n)) =>
                  Holds(AddLog(r, x).logs, Log("interrupted", n))
             /\ Holds(r.msgs, Reply("formal", n)) => Holds(r.msgs, Question(n))
  <2>1. CASE n = m
    <3>1. AtMostOnce(r.msgs, Reply("placeholder", m))
      BY <1>5 DEF AtMostOnce, Holds
    <3> QED BY <1>3, <1>5, <1>6, <1>7, <2>1, <3>1 DEF CaseOK
  <2>2. CASE n # m
    <3>1. Reply("placeholder", n) # Reply("placeholder", m) /\ Log("retried", n) # x
      BY <1>7, <2>2
    <3> QED BY <1>5, <1>6, <1>7, <3>1 DEF CaseOK
  <2> QED BY <2>1, <2>2
<1> QED BY <1>6, <1>8 DEF CaseOK, r

(* The start-up scan: the placeholder, then the log of the interruption.   *)
LEMMA InterruptionKeepsCase ==
  ASSUME NEW c \in CaseType, CaseOK(c), NEW m \in Messages, ~Replied(c, m),
         ~Holds(c.logs, Log("interrupted", m))
  PROVE  LET told == AddMessage(c, Reply("placeholder", m)) IN
         CaseOK(told) /\ CaseOK(AddLog(told, Log("interrupted", m)))
<1> DEFINE x == Reply("placeholder", m)
           told == AddMessage(c, x)
           logged == AddLog(told, Log("interrupted", m))
<1>1. x \in MessageType /\ ~Holds(c.msgs, x)
  BY MessageTypes, StatusType DEF Replied
<1>2. /\ told \in CaseType /\ told.msgs = Append(c.msgs, x) /\ told.logs = c.logs
      /\ c.msgs \in Seq(MessageType) /\ c.logs \in Seq(LogType)
  BY <1>1, AddMessageType DEF AddMessage, CaseType
<1>3. /\ \A y : Holds(told.msgs, y) <=> Holds(c.msgs, y) \/ y = x
      /\ \A n \in Messages : AtMostOnce(told.msgs, Reply("placeholder", n))
  <2>1. \A y : Holds(Append(c.msgs, x), y) <=> Holds(c.msgs, y) \/ y = x
    BY <1>1, <1>2, HoldsAppended
  <2>2. \A n \in Messages : AtMostOnce(c.msgs, Reply("placeholder", n))
    BY DEF CaseOK
  <2>3. \A y : AtMostOnce(c.msgs, y) /\ (y = x => ~Holds(c.msgs, y))
              => AtMostOnce(Append(c.msgs, x), y)
    BY <1>1, <1>2, HoldsAppended
  <2> HIDE DEF x, told
  <2> QED BY <1>1, <1>2, <2>1, <2>2, <2>3
<1>4. /\ logged.msgs = told.msgs
      /\ \A y : Holds(logged.logs, y) <=> Holds(c.logs, y) \/ y = Log("interrupted", m)
  <2>1. logged.msgs = told.msgs /\ logged.logs = Append(c.logs, Log("interrupted", m))
    BY <1>2 DEF AddLog, CaseType
  <2>2. \A y : Holds(Append(c.logs, Log("interrupted", m)), y)
               <=> Holds(c.logs, y) \/ y = Log("interrupted", m)
    BY <1>2, MessageTypes, HoldsAppended
  <2> QED BY <2>1, <2>2
<1>5. \A n \in Messages : /\ Reply("placeholder", n) = x => n = m
                          /\ Log("interrupted", n) = Log("interrupted", m) => n = m
                          /\ Log("retried", n) # Log("interrupted", m)
                          /\ Reply("formal", n) # x /\ Question(n) # x
  BY DEF Reply, Log, Question
<1> HIDE DEF told, logged, x
<1>6. CaseOK(told)
  BY <1>2, <1>3, <1>5 DEF CaseOK
<1>7. ~Holds(c.logs, Log("retried", m))
  BY DEF CaseOK
<1>8. CaseOK(logged)
  <2> SUFFICES ASSUME NEW n \in Messages
               PROVE  /\ AtMostOnce(told.msgs, Reply("placeholder", n))
                      /\ Holds(logged.logs, Log("interrupted", n)) =>
                           (Holds(told.msgs, Reply("placeholder", n))
                              <=> ~Holds(logged.logs, Log("retried", n)))
                      /\ Holds(logged.logs, Log("retried", n)) =>
                           Holds(logged.logs, Log("interrupted", n))
                      /\ Holds(told.msgs, Reply("formal", n)) => Holds(told.msgs, Question(n))
    BY <1>4 DEF CaseOK
  <2>1. Holds(logged.logs, Log("retried", n)) <=> Holds(c.logs, Log("retried", n))
    BY <1>4, <1>5
  <2>2. CASE n = m
    BY <1>3, <1>4, <1>6, <1>7, <2>1, <2>2 DEF CaseOK, x
  <2>3. CASE n # m
    BY <1>2, <1>4, <1>5, <1>6, <2>1, <2>3 DEF CaseOK
  <2> QED BY <2>2, <2>3
<1> QED BY <1>6, <1>8 DEF told, logged, x

-----------------------------------------------------------------------------
(* The file and the copies stay sound.                                     *)

LEMMA OpenQuestion ==
  ASSUME NEW c \in CaseType, LatestUnanswered(c) # 0
  PROVE  /\ LatestUnanswered(c) \in Messages
         /\ Holds(c.msgs, Question(LatestUnanswered(c)))
         /\ ~Replied(c, LatestUnanswered(c))
<1> DEFINE open == {m \in Messages : Holds(c.msgs, Question(m)) /\ ~Replied(c, m)}
<1>1. open # {} /\ LatestUnanswered(c) = CHOOSE m \in open : \A n \in open : n <= m
  BY DEF LatestUnanswered
<1>2. \E m \in open : \A k \in open : k <= m
  BY <1>1, Greatest, BoundsAssumption DEF Messages
<1>3. LatestUnanswered(c) \in open
  BY <1>1, <1>2
<1> QED BY <1>3

LEMMA SaveKeepsSound ==
  /\ \A c \in CaseType : CaseOK(c) /\ Save(<<c>>) => SavedOK'
  /\ \A c, d \in CaseType : CaseOK(c) /\ CaseOK(d) /\ Save(<<c, d>>) => SavedOK'
  /\ \A c, d, e \in CaseType :
       CaseOK(c) /\ CaseOK(d) /\ CaseOK(e) /\ Save(<<c, d, e>>) => SavedOK'
<1>1. ASSUME NEW c \in CaseType, CaseOK(c), Save(<<c>>) PROVE SavedOK'
  <2>1. disk' = c /\ pending' = <<>>
    BY <1>1 DEF Save
  <2> QED BY <1>1, <2>1 DEF SavedOK
<1>2. ASSUME NEW c \in CaseType, NEW d \in CaseType, CaseOK(c), CaseOK(d), Save(<<c, d>>)
      PROVE  SavedOK'
  <2>1. disk' = c /\ pending' = <<d>>
    BY <1>2 DEF Save
  <2>2. \A i \in DOMAIN pending' : pending'[i] = d
    BY <2>1
  <2> QED BY <1>2, <2>1, <2>2 DEF SavedOK
<1>3. ASSUME NEW c \in CaseType, NEW d \in CaseType, NEW e \in CaseType,
             CaseOK(c), CaseOK(d), CaseOK(e), Save(<<c, d, e>>)
      PROVE  SavedOK'
  <2>1. disk' = c /\ pending' = <<d, e>>
    BY <1>3 DEF Save
  <2>2. \A i \in DOMAIN pending' : pending'[i] = d \/ pending'[i] = e
    BY <2>1
  <2> QED BY <1>3, <2>1, <2>2 DEF SavedOK
<1> QED BY <1>1, <1>2, <1>3

LEMMA SavedStep ==
  ASSUME TypeOK, FileOK, Next
  PROVE  SavedOK'
<1>1. QueueTypeOK /\ FileTypeOK /\ SavedOK /\ CopiesOK
  BY DEF TypeOK, FileOK
<1>2. ASSUME disk # NoCase PROVE disk \in CaseType /\ CaseOK(disk)
  BY <1>1, <1>2 DEF FileTypeOK, SavedOK
<1>3. ASSUME UNCHANGED <<disk, pending>> PROVE SavedOK'
  BY <1>1, <1>3 DEF SavedOK
<1>4. ASSUME NEW async \in BOOLEAN, Accept(async) PROVE SavedOK'
  <2> DEFINE added == AddMessage(disk, Question(asked + 1))
  <2>1. asked + 1 \in Messages
    BY <1>1, <1>4, BoundsAssumption DEF Accept, QueueTypeOK, Messages
  <2>2. added \in CaseType /\ CaseOK(added)
    BY <1>2, <1>4, <2>1, HandlerTypes, CaseOperations DEF Accept
  <2>3. WithStatus(added, "ready") \in CaseType /\ CaseOK(WithStatus(added, "ready"))
    BY <2>2, HandlerTypes, StatusType, CaseOperations
  <2>4. Save(<<added, WithStatus(added, "ready")>>)
    BY <1>4 DEF Accept
  <2> QED BY <2>2, <2>3, <2>4, SaveKeepsSound
<1>5. ASSUME Retry PROVE SavedOK'
  <2> DEFINE m == Retryable(disk)
             retried == AddLog(RemovePlaceholder(disk, m), Log("retried", m))
  <2>1. disk \in CaseType /\ CaseOK(disk) /\ m \in Messages
    BY <1>2, <1>5, QuestionType DEF Retry
  <2>2. retried \in CaseType /\ CaseOK(retried)
    <3>1. RemovePlaceholder(disk, m) \in CaseType
      BY <2>1, HandlerTypes
    <3> QED BY <2>1, <3>1, HandlerTypes, RetryKeepsCase
  <2>3. WithStatus(retried, "ready") \in CaseType /\ CaseOK(WithStatus(retried, "ready"))
    BY <2>2, HandlerTypes, StatusType, CaseOperations
  <2>4. Save(<<retried, WithStatus(retried, "ready")>>)
    BY <1>5 DEF Retry
  <2> QED BY <2>2, <2>3, <2>4, SaveKeepsSound
<1>6. ASSUME RecoverStale PROVE SavedOK'
  <2> DEFINE closed == WithStatus(disk, "closed")
             said == AddMessage(closed, Reply("stale", LatestUnanswered(disk)))
  <2>1. closed \in CaseType /\ CaseOK(closed) /\ LatestUnanswered(disk) \in 0..MaxMessages
    BY <1>2, <1>6, HandlerTypes, StatusType, CaseOperations, LatestUnansweredType
       DEF RecoverStale
  <2>2. said \in CaseType /\ CaseOK(said)
    BY <2>1, HandlerTypes, StatusType, CaseOperations
  <2>3. Save(<<closed, said>>)
    BY <1>6 DEF RecoverStale
  <2> QED BY <2>1, <2>2, <2>3, SaveKeepsSound
<1>7. ASSUME Archive PROVE SavedOK'
  <2>1. [disk EXCEPT !.archived = TRUE] \in CaseType /\ CaseOK([disk EXCEPT !.archived = TRUE])
    <3>1. disk \in CaseType /\ CaseOK(disk)
      BY <1>2, <1>7 DEF Archive
    <3>2. [disk EXCEPT !.archived = TRUE] \in CaseType
      BY <3>1 DEF CaseType
    <3> QED BY <3>1, <3>2, CaseOperations
  <2> QED BY <1>7, <2>1, SaveKeepsSound DEF Archive
<1>8. ASSUME Touch PROVE SavedOK'
  BY <1>2, <1>8, SaveKeepsSound DEF Touch
<1>9. ASSUME Delete PROVE SavedOK'
  BY <1>1, <1>9 DEF Delete, SavedOK
<1>10. ASSUME Flush PROVE SavedOK'
  <2>1. /\ pending \in Seq(CaseType) /\ pending # <<>>
        /\ disk' = Head(pending) /\ pending' = Tail(pending)
    BY <1>1, <1>10 DEF Flush, Save, FileTypeOK
  <2>2. /\ Head(pending) = pending[1] /\ 1 \in DOMAIN pending
        /\ \A i \in DOMAIN Tail(pending) : i + 1 \in DOMAIN pending
                                            /\ Tail(pending)[i] = pending[i + 1]
    BY <2>1, HeadTailProperties, LenProperties
  <2> QED BY <1>1, <2>1, <2>2 DEF SavedOK
<1>11. ASSUME NEW t \in TurnIds, Curate(t) PROVE SavedOK'
  <2> DEFINE closed == WithStatus(disk, "closed")
             answered == AddMessage(closed, Reply("formal", turns[t].msg))
  <2>1. /\ closed \in CaseType /\ CaseOK(closed)
        /\ turns[t].msg \in Messages /\ Holds(closed.msgs, Question(turns[t].msg))
    <3>1. disk \in CaseType /\ CaseOK(disk) /\ Holds(disk.msgs, Question(turns[t].msg))
      BY <1>2, <1>11 DEF Curate, CanStart
    <3>2. closed.msgs = disk.msgs
      BY <3>1 DEF WithStatus, CaseType
    <3> QED BY <1>1, <3>1, <3>2, HandlerTypes, StatusType, CaseOperations, TurnFieldTypes
  <2>2. answered \in CaseType /\ CaseOK(answered)
    BY <2>1, HandlerTypes, StatusType, CaseOperations
  <2> QED BY <1>11, <2>2, SaveKeepsSound DEF Curate
<1>12. ASSUME NEW t \in TurnIds, Progress(t) PROVE SavedOK'
  <2>1. turns[t].snap \in CaseType /\ CaseOK(turns[t].snap)
    BY <1>1, <1>12, TurnFieldTypes DEF Progress, CopiesOK
  <2>2. PICK status \in {turns[t].snap.status, "diagnosing"} :
          Save(<<WithStatus(turns[t].snap, status)>>)
    BY <1>12 DEF Progress
  <2>3. status \in Status
    BY <2>1, <2>2, StatusType DEF CaseType
  <2>4. WithStatus(turns[t].snap, status) \in CaseType /\ CaseOK(WithStatus(turns[t].snap, status))
    BY <2>1, <2>3, HandlerTypes, CaseOperations
  <2> QED BY <2>2, <2>4, SaveKeepsSound
<1>13. ASSUME NEW t \in TurnIds, Finish(t) PROVE SavedOK'
  <2> DEFINE replied == AddMessage(turns[t].snap, Reply("formal", turns[t].msg))
  <2>1. /\ turns[t].snap \in CaseType /\ CaseOK(turns[t].snap) /\ turns[t].msg \in Messages
        /\ Holds(turns[t].snap.msgs, Question(turns[t].msg))
    BY <1>1, <1>13, TurnFieldTypes DEF Finish, CopiesOK
  <2>2. replied \in CaseType /\ CaseOK(replied)
    BY <2>1, HandlerTypes, StatusType, CaseOperations
  <2>3. WithStatus(replied, "closed") \in CaseType /\ CaseOK(WithStatus(replied, "closed"))
    BY <2>2, HandlerTypes, StatusType, CaseOperations
  <2> QED BY <1>13, <2>2, <2>3, SaveKeepsSound DEF Finish
<1>14. ASSUME RecordFailure PROVE SavedOK'
  <2>1. CASE disk = NoCase
    BY <1>3, <1>14, <2>1 DEF RecordFailure, NoSave
  <2>2. CASE disk # NoCase
    <3> DEFINE said == AddMessage(disk, Reply("failure", turns[Head(failing)].msg))
    <3>1. Head(failing) \in TurnIds
      BY <1>1, <1>14, HeadTailProperties DEF RecordFailure, QueueTypeOK
    <3>2. turns[Head(failing)].msg \in 0..MaxMessages
      BY <1>1, <3>1, TurnFieldTypes, StatusType
    <3>3. said \in CaseType /\ CaseOK(said)
      BY <1>2, <2>2, <3>2, HandlerTypes, StatusType, CaseOperations
    <3>4. WithStatus(said, "closed") \in CaseType /\ CaseOK(WithStatus(said, "closed"))
      BY <3>3, HandlerTypes, StatusType, CaseOperations
    <3> QED BY <1>14, <2>2, <3>3, <3>4, SaveKeepsSound DEF RecordFailure
  <2> QED BY <2>1, <2>2
<1>15. ASSUME Restart PROVE SavedOK'
  <2>1. CASE ~Inherited(disk)
    BY <1>3, <1>15, <2>1 DEF Restart, NoSave
  <2>2. CASE Inherited(disk)
    <3> DEFINE m == LatestUnanswered(disk)
               told == AddMessage(disk, Reply("placeholder", m))
               logged == AddLog(told, Log("interrupted", m))
    <3>1. /\ disk \in CaseType /\ CaseOK(disk) /\ m \in Messages /\ ~Replied(disk, m)
          /\ ~Holds(disk.logs, Log("interrupted", m))
      BY <1>2, <2>2, OpenQuestion DEF Inherited
    <3>2. told \in CaseType /\ logged \in CaseType
      <4>1. told \in CaseType
        BY <3>1, HandlerTypes, StatusType
      <4> QED BY <3>1, <4>1, HandlerTypes
    <3>3. CaseOK(told) /\ CaseOK(logged)
      BY <3>1, InterruptionKeepsCase
    <3>4. WithStatus(logged, "closed") \in CaseType /\ CaseOK(WithStatus(logged, "closed"))
      BY <3>2, <3>3, HandlerTypes, StatusType, CaseOperations
    <3> QED BY <1>15, <2>2, <3>2, <3>3, <3>4, SaveKeepsSound DEF Restart
  <2> QED BY <2>1, <2>2
<1>16. ASSUME Reload \/ Age PROVE SavedOK'
  BY <1>3, <1>16 DEF Reload, Age
<1>17. ASSUME Crash PROVE SavedOK'
  <2>1. disk' = disk /\ pending' = <<>>
    BY <1>17 DEF Crash
  <2> QED BY <1>1, <2>1 DEF SavedOK
<1>18. ASSUME NEW t \in TurnIds, StartRefused(t) \/ Fail(t) PROVE SavedOK'
  BY <1>3, <1>18 DEF StartRefused, Fail, NoSave
<1>19. ASSUME NEW t \in TurnIds, Start(t) PROVE SavedOK'
  BY <1>2, <1>19, SaveKeepsSound DEF Start, CanStart
<1> QED BY <1>4, <1>5, <1>6, <1>7, <1>8, <1>9, <1>10, <1>11, <1>12, <1>13, <1>14, <1>15, <1>16,
           <1>17, <1>18, <1>19 DEF Next, TurnStep

LEMMA CopiesStep ==
  ASSUME TypeOK, FileOK, Next
  PROVE  CopiesOK'
<1>1. QueueTypeOK /\ FileTypeOK /\ SavedOK /\ CopiesOK
  BY DEF TypeOK, FileOK
<1>2. ASSUME UNCHANGED turns PROVE CopiesOK'
  BY <1>1, <1>2 DEF CopiesOK, TurnIds
<1>3. ASSUME NEW m \in Messages, NEW async \in BOOLEAN, Enqueue(m, async)
      PROVE  CopiesOK'
  <2> DEFINE n == Len(turns) + 1
  <2>1. /\ TurnIds' = 1..n /\ TurnIds = 1..(n - 1)
        /\ \A t \in TurnIds : turns'[t] = turns[t]
        /\ turns'[n].pc = "queued"
    <3>1. turns'[n] = [msg |-> m, rt |-> rt, async |-> async,
                       prev |-> tail[rt], pc |-> "queued", snap |-> NoCase]
      BY <1>1, <1>3, EnqueueEffect
    <3> QED BY <1>1, <1>3, <3>1, EnqueueEffect
  <2>2. Len(turns) \in Nat
    BY <1>1, TurnIdsAre DEF QueueTypeOK
  <2>3. \A t \in TurnIds' : t \in TurnIds \/ t = n
    BY <2>1, <2>2
  <2> QED BY <1>1, <2>1, <2>3 DEF CopiesOK
<1>4. ASSUME NEW t \in TurnIds, NEW pc \in {"queued", "running"} \cup Settled,
             NEW snap \in CaseType \cup {NoCase}, SetTurn(t, pc, snap),
             pc = "running" => CaseOK(snap) /\ Holds(snap.msgs, Question(turns[t].msg))
      PROVE  CopiesOK'
  <2>1. /\ TurnIds' = TurnIds
        /\ \A u \in TurnIds :
             /\ turns'[u].msg = turns[u].msg
             /\ turns'[u].pc = IF u = t THEN pc ELSE turns[u].pc
             /\ turns'[u].snap = IF u = t THEN snap ELSE turns[u].snap
    BY <1>1, <1>4, SetTurnEffect
  <2> QED BY <1>1, <1>4, <2>1 DEF CopiesOK
<1>5. ASSUME NEW async \in BOOLEAN, Accept(async) PROVE CopiesOK'
  <2>1. asked + 1 \in Messages
    BY <1>1, <1>5, BoundsAssumption DEF Accept, QueueTypeOK, Messages
  <2> QED BY <1>3, <1>5, <2>1 DEF Accept
<1>6. ASSUME Retry PROVE CopiesOK'
  <2>1. Retryable(disk) \in Messages
    BY <1>1, <1>6, QuestionType DEF Retry, FileTypeOK
  <2>2. Enqueue(Retryable(disk), TRUE)
    BY <1>6 DEF Retry
  <2> QED BY <1>3, <2>1, <2>2
<1>7. ASSUME NEW t \in TurnIds, Start(t) PROVE CopiesOK'
  BY <1>1, <1>4, <1>7 DEF Start, CanStart, FileTypeOK, SavedOK
<1>8. ASSUME NEW t \in TurnIds, StartRefused(t) \/ Curate(t) \/ Finish(t) \/ Fail(t)
      PROVE  CopiesOK'
  <2>1. PICK pc \in Settled : SetTurn(t, pc, NoCase)
    BY <1>8 DEF StartRefused, Curate, Finish, Fail, Reject, Settled
  <2> QED BY <1>4, <2>1 DEF Settled
<1>9. ASSUME NEW t \in TurnIds, Progress(t) PROVE CopiesOK'
  <2>1. PICK status \in {turns[t].snap.status, "diagnosing"} :
          SetTurn(t, "running", WithStatus(turns[t].snap, status))
    BY <1>9 DEF Progress
  <2>2. /\ turns[t].snap \in CaseType /\ CaseOK(turns[t].snap)
        /\ Holds(turns[t].snap.msgs, Question(turns[t].msg))
    BY <1>1, <1>9, TurnFieldTypes DEF Progress, CopiesOK
  <2>3. status \in Status
    BY <2>2, StatusType DEF CaseType
  <2>4. /\ WithStatus(turns[t].snap, status) \in CaseType
        /\ CaseOK(WithStatus(turns[t].snap, status))
    BY <2>2, <2>3, HandlerTypes, CaseOperations
  <2>5. WithStatus(turns[t].snap, status).msgs = turns[t].snap.msgs
    BY <2>2 DEF WithStatus, CaseType
  <2> QED BY <1>4, <2>1, <2>2, <2>4, <2>5
<1>10. ASSUME Crash PROVE CopiesOK'
  BY <1>1, <1>10, CrashEffect DEF CopiesOK, Settled
<1>11. ASSUME \/ RecoverStale \/ Archive \/ Touch \/ Delete \/ Reload \/ RecordFailure
              \/ Flush \/ Restart \/ Age
       PROVE  CopiesOK'
  BY <1>2, <1>11
     DEF RecoverStale, Archive, Touch, Delete, Reload, RecordFailure, Flush, Restart, Age
<1> QED BY <1>5, <1>6, <1>7, <1>8, <1>9, <1>10, <1>11 DEF Next, TurnStep

LEMMA InitFile == Init => FileOK
<1> SUFFICES ASSUME Init PROVE FileOK
  OBVIOUS
<1>1. TurnIds = {}
  BY LenProperties, EmptySeq DEF Init, TurnIds
<1>2. disk.msgs = <<>> /\ disk.logs = <<>> /\ pending = <<>>
  BY DEF Init, NewCase
<1>3. \A x : ~Holds(<<>>, x) /\ AtMostOnce(<<>>, x)
  BY DEF Holds, AtMostOnce
<1>4. CaseOK(disk)
  BY <1>2, <1>3 DEF CaseOK
<1> QED BY <1>1, <1>2, <1>4 DEF FileOK, SavedOK, CopiesOK

LEMMA FileStep ==
  ASSUME TypeOK, FileOK, [Next]_vars
  PROVE  FileOK'
<1>1. CASE Next
  BY <1>1, SavedStep, CopiesStep DEF FileOK
<1>2. CASE UNCHANGED vars
  BY <1>2 DEF vars, FileOK, SavedOK, CopiesOK, TurnIds
<1> QED BY <1>1, <1>2

THEOREM FileSound == Spec => [](TypeOK /\ FileOK)
<1>1. Init => TypeOK /\ FileOK
  BY InitType, InitFile
<1>2. TypeOK /\ FileOK /\ [Next]_vars => (TypeOK /\ FileOK)'
  BY FileType, QueueType, StutterType, FileStep DEF TypeOK
<1> QED BY <1>1, <1>2, PTL DEF Spec

(* However often the process is killed, also between the saves of the      *)
(* start-up scan, no message gets a second interruption placeholder.       *)
THEOREM PlaceholderOnce == Spec => []OnePlaceholder
<1>1. FileOK => OnePlaceholder
  BY DEF FileOK, SavedOK, CaseOK, OnePlaceholder
<1> QED BY <1>1, FileSound, PTL

(* The log of an interruption and its placeholder come and go together.    *)
THEOREM PlaceholderKept == Spec => []InterruptionKeepsPlaceholder
<1>1. FileOK => InterruptionKeepsPlaceholder
  <2> SUFFICES ASSUME FileOK, disk # NoCase, NEW m \in Messages,
                      Holds(disk.logs, Log("interrupted", m))
               PROVE  Holds(disk.logs, Log("retried", m))
                        # Holds(disk.msgs, Reply("placeholder", m))
    BY DEF InterruptionKeepsPlaceholder
  <2>1. Holds(disk.msgs, Reply("placeholder", m)) <=> ~Holds(disk.logs, Log("retried", m))
    BY DEF FileOK, SavedOK, CaseOK
  <2>2. Holds(disk.msgs, Reply("placeholder", m)) \in BOOLEAN
        /\ Holds(disk.logs, Log("retried", m)) \in BOOLEAN
    BY DEF Holds
  <2> QED BY <2>1, <2>2, Zenon
<1> QED BY <1>1, FileSound, PTL

(* A turn never answers a question that is not in the case it saves.       *)
THEOREM FormalReplySupported == Spec => []FormalReplyHasItsQuestion
<1>1. FileOK => FormalReplyHasItsQuestion
  BY DEF FileOK, SavedOK, CaseOK, FormalReplyHasItsQuestion
<1> QED BY <1>1, FileSound, PTL

-----------------------------------------------------------------------------
(* The retry of an interrupted turn.                                       *)

(* What the last save of the start-up scan leaves in the file can be       *)
(* retried, whatever the case went through before.                         *)
LEMMA InterruptionIsRetryable ==
  ASSUME NEW c \in CaseType, CaseOK(c), NEW m \in Messages, ~Replied(c, m),
         ~Holds(c.logs, Log("interrupted", m))
  PROVE  LET logged == AddLog(AddMessage(c, Reply("placeholder", m)), Log("interrupted", m))
         IN  Retryable(WithStatus(logged, "closed")) = m
<1> DEFINE x == Reply("placeholder", m)
           l == Log("interrupted", m)
           end == WithStatus(AddLog(AddMessage(c, x), l), "closed")
<1>1. /\ end.msgs = Append(c.msgs, x) /\ end.logs = Append(c.logs, l)
      /\ c.msgs \in Seq(MessageType) /\ c.logs \in Seq(LogType)
      /\ x \in MessageType /\ l \in LogType
  BY MessageTypes, StatusType DEF WithStatus, AddLog, AddMessage, CaseType
<1>2. /\ \A y : Holds(end.msgs, y) <=> Holds(c.msgs, y) \/ y = x
      /\ \A y : Holds(end.logs, y) <=> Holds(c.logs, y) \/ y = l
  <2>1. \A y : Holds(Append(c.msgs, x), y) <=> Holds(c.msgs, y) \/ y = x
    BY <1>1, HoldsAppended
  <2>2. \A y : Holds(Append(c.logs, l), y) <=> Holds(c.logs, y) \/ y = l
    BY <1>1, HoldsAppended
  <2> QED BY <1>1, <2>1, <2>2
<1>3. LastInterrupted(end) = m
  <2> DEFINE n == Len(c.logs) + 1
             found == {i \in DOMAIN end.logs : end.logs[i].phase = "interrupted"}
  <2>1. /\ Len(c.logs) \in Nat /\ DOMAIN end.logs = 1..n /\ end.logs[n] = l
    BY <1>1, AppendProperties, LenProperties
  <2>2. l.phase = "interrupted" /\ l.msg = m
    BY DEF Log
  <2> HIDE DEF end, l, x
  <2>3. n \in found /\ \A i \in found : i <= n
    BY <2>1, <2>2
  <2>4. \A i \in found : (\A j \in found : j <= i) => i = n
    BY <2>1, <2>3
  <2>5. (CHOOSE i \in found : \A j \in found : j <= i) = n
    BY <2>3, <2>4
  <2> QED BY <2>1, <2>2, <2>3, <2>5 DEF LastInterrupted
<1>4. RetryableNow(end, m)
  <2>1. ~Holds(c.logs, Log("retried", m)) /\ Log("retried", m) # l
    BY DEF CaseOK, Log
  <2>2. \A k \in HelperKinds \ {"placeholder"} :
          Reply(k, m) # x /\ ~Holds(c.msgs, Reply(k, m))
    BY DEF Reply, Replied
  <2> QED BY <1>2, <2>1, <2>2 DEF RetryableNow
<1>5. m # 0
  BY StatusType
<1> HIDE DEF end
<1>6. Retryable(end) = m
  BY <1>3, <1>4, <1>5 DEF Retryable
<1> QED BY <1>6 DEF end

(* The step of a start is the start-up scan. *)
LEMMA StartUpScan ==
  ASSUME TypeOK, FileOK, [Next]_vars, ~up, up', disk # NoCase, disk.status \in Active,
         LatestUnanswered(disk) # 0, ~Holds(disk.logs, Log("interrupted", LatestUnanswered(disk)))
  PROVE  pending' # <<>> /\ Retryable(pending'[Len(pending')]) = LatestUnanswered(disk)
<1> DEFINE m == LatestUnanswered(disk)
           told == AddMessage(disk, Reply("placeholder", m))
           logged == AddLog(told, Log("interrupted", m))
           end == WithStatus(logged, "closed")
<1>1. Restart
  BY DEF Next, vars, Accept, Retry, RecoverStale, Archive, Touch, Delete, Reload, TurnStep,
         Start, StartRefused, Curate, Progress, Finish, Fail, RecordFailure, Flush, Crash, Age,
         Starting, Request, Macrotask, Tick
<1>2. disk \in CaseType /\ CaseOK(disk)
  BY DEF TypeOK, FileTypeOK, FileOK, SavedOK
<1>3. Inherited(disk)
  BY DEF Inherited
<1>4. pending' = <<logged, end>>
  BY <1>1, <1>3 DEF Restart, Save
<1>5. Retryable(end) = m
  BY <1>2, OpenQuestion, InterruptionIsRetryable
<1> HIDE DEF end, logged
<1>6. pending' # <<>> /\ pending'[Len(pending')] = end
  BY <1>4
<1> QED BY <1>5, <1>6

(* After any number of kills, also between the saves of an earlier start,  *)
(* markInheritedActiveTurnsRetryable skips a message only when its log     *)
(* says that the user has retried it already.                              *)
THEOREM RetryIsOffered == Spec => StartOffersRetry
<1> DEFINE m == LatestUnanswered(disk)
           Offer == (~up /\ up' /\ Unanswered(disk)) => OfferedRetry(m) \/ Holds(disk.logs, Log("retried", m))
<1>1. TypeOK /\ FileOK /\ [Next]_vars => [Offer]_vars
  <2> SUFFICES ASSUME TypeOK, FileOK, [Next]_vars, ~up, up', disk # NoCase,
                      disk.status \in Active, m # 0, Holds(disk.logs, Log("interrupted", m))
               PROVE  Holds(disk.logs, Log("retried", m))
    BY StartUpScan DEF Unanswered, OfferedRetry
  <2>1. disk \in CaseType /\ CaseOK(disk)
    BY DEF TypeOK, FileTypeOK, FileOK, SavedOK
  <2>2. m \in Messages /\ ~Holds(disk.msgs, Reply("placeholder", m))
    BY <2>1, OpenQuestion, StatusType DEF Replied
  <2> QED BY <2>1, <2>2 DEF CaseOK
<1> QED BY <1>1, FileSound, PTL DEF Spec, StartOffersRetry
=============================================================================
