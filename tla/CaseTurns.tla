------------------------------ MODULE CaseTurns ------------------------------
(***************************************************************************)
(* One case (conversation) of the gateway: the turns that answer its user  *)
(* messages, the HTTP requests that touch it, and its file.                *)
(*                                                                         *)
(*   src/src/runtime/diagnostic-runtime.ts   turns, retry, start-up scan   *)
(*   src/src/runtime/turn-queue.ts           the promise chain per case    *)
(*   src/src/runtime/session-lifecycle.ts    accept, start, failure reply  *)
(*   src/src/sessions/file-memory-store.ts   the case file                 *)
(*   src/src/sessions/stale-turn.ts          recovery of left-over turns   *)
(*   src/src/gateway/routes/*.ts             the requests                  *)
(*                                                                         *)
(* The case is one file that is always written whole.  The process is one  *)
(* event loop: a handler runs without interruption up to its first await,  *)
(* but it may save the case several times on the way and the process may   *)
(* be killed between two saves.  A turn loads the case when it starts and  *)
(* saves that copy until it ends, across its awaits.                       *)
(***************************************************************************)
EXTENDS Naturals, Sequences

CONSTANTS
  NoCase,       \* the case file does not exist
  MaxMessages,  \* bound: user messages
  MaxTurns,     \* bound: turns (first runs and retries)
  MaxRuntimes,  \* bound: runtimes, i.e. configuration reloads plus one
  MaxCrashes,   \* bound: how often the process is killed
  Requests      \* the requests that are made besides chat and GET

ASSUME BoundsAssumption ==
  /\ MaxMessages \in Nat /\ MaxTurns \in Nat /\ MaxCrashes \in Nat
  /\ MaxRuntimes \in Nat \ {0}
ASSUME RequestsAssumption ==
  Requests \subseteq {"sync", "retry", "archive", "touch", "delete", "reload"}

VARIABLES
  disk,      \* the case file
  aged,      \* the case was last saved longer ago than the stale timeout
  pending,   \* what the running handler has still to save, in order
  up,        \* the gateway process runs
  rt,        \* the runtime that takes new turns
  tail,      \* runtime -> the turn CaseTurnQueue.queues holds, 0 if none
  turns,     \* the turns in the order they were accepted
  failing,   \* rejected asynchronous turns, recordTurnFailure not yet called
  asked,     \* user messages accepted so far
  crashes

vars == <<disk, aged, pending, up, rt, tail, turns, failing, asked, crashes>>

Messages == 1..MaxMessages
Runtimes == 1..MaxRuntimes
Status == {"new", "ready", "diagnosing", "closed"}
Active == {"ready", "diagnosing"}

HelperKinds == {"formal", "failure", "placeholder", "stale"}
MessageType == [kind : {"question"} \cup HelperKinds, re : 0..MaxMessages]
LogType == [phase : {"interrupted", "retried"}, msg : Messages]
CaseType == [msgs : Seq(MessageType), logs : Seq(LogType),
             status : Status, archived : BOOLEAN]
ASSUME NoCaseAssumption == NoCase \notin CaseType

Settled == {"done", "failed", "lost"}
TurnType == [msg : Messages, rt : Runtimes, async : BOOLEAN,
             prev : 0..MaxTurns, pc : {"queued", "running"} \cup Settled,
             snap : CaseType \cup {NoCase}]

NewCase == [msgs |-> <<>>, logs |-> <<>>, status |-> "new", archived |-> FALSE]

-----------------------------------------------------------------------------
(* What the code reads off a case. *)

Holds(s, x) == \E i \in DOMAIN s : s[i] = x
Question(m) == [kind |-> "question", re |-> m]
Reply(kind, m) == [kind |-> kind, re |-> m]
Log(phase, m) == [phase |-> phase, msg |-> m]

Replied(c, m) == \E k \in HelperKinds : Holds(c.msgs, Reply(k, m))

(* Mutant: the start-up scan looks at the logs only, not at the replies. *)
LatestAsked(c) ==
  LET open == {m \in Messages : Holds(c.msgs, Question(m))}
  IN  IF open = {} THEN 0 ELSE CHOOSE m \in open : \A n \in open : n <= m

LatestUnanswered(c) ==
  LET open == {m \in Messages : Holds(c.msgs, Question(m)) /\ ~Replied(c, m)}
  IN  IF open = {} THEN 0 ELSE CHOOSE m \in open : \A n \in open : n <= m

LastInterrupted(c) ==
  LET at == {i \in DOMAIN c.logs : c.logs[i].phase = "interrupted"}
  IN  IF at = {} THEN 0 ELSE c.logs[CHOOSE i \in at : \A j \in at : j <= i].msg

RetryableNow(c, m) ==
  /\ Holds(c.msgs, Reply("placeholder", m))
  /\ ~Holds(c.logs, Log("retried", m))
  /\ \A k \in HelperKinds \ {"placeholder"} : ~Holds(c.msgs, Reply(k, m))

(* findRetryableInterruption: what POST /api/chat/retry accepts, 0 if none. *)
Retryable(c) ==
  LET m == LastInterrupted(c) IN IF m # 0 /\ RetryableNow(c, m) THEN m ELSE 0

AddMessage(c, m) == [c EXCEPT !.msgs = Append(@, m)]
AddLog(c, l)     == [c EXCEPT !.logs = Append(@, l)]
WithStatus(c, s) == [c EXCEPT !.status = s]
(* Mutant: the retry leaves the placeholder in the case. *)
KeepPlaceholder(c, m) == c

(* splice(findIndex(the placeholder), 1). *)
RemovePlaceholder(c, m) ==
  LET at == CHOOSE i \in DOMAIN c.msgs : c.msgs[i] = Reply("placeholder", m)
  IN  IF Holds(c.msgs, Reply("placeholder", m))
      THEN [c EXCEPT !.msgs = SubSeq(@, 1, at - 1) \o SubSeq(@, at + 1, Len(@))]
      ELSE c

-----------------------------------------------------------------------------
(* The event loop.  A promise reaction runs before the next request or the *)
(* next finished await; the successor of a rejected turn starts before the *)
(* rejection reaches the caller's catch, and of two rejections in a row    *)
(* the first one is caught before a third turn starts.                     *)

TurnIds == DOMAIN turns
(* Mutant: previous.then(task) without the second task. *)
StartableAfterSuccess(t) ==
  /\ turns[t].pc = "queued"
  /\ turns[t].prev # 0 => turns[turns[t].prev].pc = "done"

Startable(t) ==
  /\ turns[t].pc = "queued"
  /\ turns[t].prev # 0 => turns[turns[t].prev].pc \in Settled
Reactions == \E t \in TurnIds : Startable(t)
Tick == up /\ pending = <<>>
Macrotask == Tick /\ failing = <<>> /\ ~Reactions

(* saveCase, once per element of s: the file now holds the first one. *)
Save(s) == disk' = Head(s) /\ pending' = Tail(s) /\ aged' = FALSE
NoSave == UNCHANGED <<disk, pending, aged>>

Flush ==
  /\ up /\ pending # <<>>
  /\ Save(pending)
  /\ UNCHANGED <<up, rt, tail, turns, failing, asked, crashes>>

(* CaseTurnQueue.run: the new turn waits for the one the map holds... *)
Enqueue(m, async) ==
  LET t == Len(turns) + 1 IN
  /\ t <= MaxTurns
  /\ turns' = Append(turns, [msg |-> m, rt |-> rt, async |-> async,
                             prev |-> tail[rt], pc |-> "queued", snap |-> NoCase])
  /\ tail' = [tail EXCEPT ![rt] = t]

(* Mutant: turn-queue.ts deletes the map entry of every settled turn. *)
ForgetAlways(t) == tail' = [tail EXCEPT ![turns[t].rt] = 0]

(* ... and the map forgets a settled turn that is still its last one. *)
Forget(t) ==
  tail' = [tail EXCEPT ![turns[t].rt] = IF @ = t THEN 0 ELSE @]

(* Mutant: the turn does not load the case when it starts. *)
KeepCopy(t, pc, snap) == turns' = [turns EXCEPT ![t].pc = pc]

SetTurn(t, pc, snap) == turns' = [turns EXCEPT ![t].pc = pc, ![t].snap = snap]

Reject(t) ==
  /\ SetTurn(t, "failed", NoCase)
  /\ Forget(t)
  /\ failing' = IF turns[t].async THEN Append(failing, t) ELSE failing
-----------------------------------------------------------------------------
(* Requests. *)

Request(kind) == Macrotask /\ kind \in Requests

(* POST /api/chat: startUserTurn, then completeUserTurn. *)
Accept(async) ==
  /\ Macrotask /\ (async \/ "sync" \in Requests)
  /\ disk # NoCase /\ ~disk.archived
  /\ asked < MaxMessages
  /\ LET m == asked + 1
         added == AddMessage(disk, Question(m))
     IN  Save(<<added, WithStatus(added, "ready")>>) /\ Enqueue(m, async)
  /\ asked' = asked + 1
  /\ UNCHANGED <<up, rt, failing, crashes>>

(* POST /api/chat/retry: retryInterruptedTurn. *)
Retry ==
  /\ Request("retry")
  /\ disk # NoCase /\ ~disk.archived
  /\ Retryable(disk) # 0 /\ Holds(disk.msgs, Question(Retryable(disk)))
  /\ LET m == Retryable(disk)
         retried == AddLog(RemovePlaceholder(disk, m), Log("retried", m))
     IN  Save(<<retried, WithStatus(retried, "ready")>>) /\ Enqueue(m, TRUE)
  /\ UNCHANGED <<up, rt, failing, asked, crashes>>

(* Mutant: GET takes 'diagnosing' for the only active status. *)
RecoverStaleDiagnosing ==
  /\ Macrotask
  /\ disk # NoCase /\ disk.status = "diagnosing" /\ aged
  /\ LET closed == WithStatus(disk, "closed")
     IN  Save(<<closed, AddMessage(closed, Reply("stale", LatestUnanswered(disk)))>>)
  /\ UNCHANGED <<up, rt, tail, turns, failing, asked, crashes>>

(* GET /api/session(s): recoverStaleActiveTurn on what was loaded. *)
RecoverStale ==
  /\ Macrotask
  /\ disk # NoCase /\ disk.status \in Active /\ aged
  /\ LET closed == WithStatus(disk, "closed")
     IN  Save(<<closed, AddMessage(closed, Reply("stale", LatestUnanswered(disk)))>>)
  /\ UNCHANGED <<up, rt, tail, turns, failing, asked, crashes>>

(* PATCH /api/session: archive; pin, unpin and title only save the case. *)
Archive ==
  /\ Request("archive")
  /\ disk # NoCase
  /\ Save(<<[disk EXCEPT !.archived = TRUE]>>)
  /\ UNCHANGED <<up, rt, tail, turns, failing, asked, crashes>>

Touch ==
  /\ Request("touch")
  /\ disk # NoCase
  /\ Save(<<disk>>)
  /\ UNCHANGED <<up, rt, tail, turns, failing, asked, crashes>>

(* DELETE /api/session. *)
Delete ==
  /\ Request("delete")
  /\ disk # NoCase
  /\ disk' = NoCase
  /\ UNCHANGED <<aged, pending, up, rt, tail, turns, failing, asked, crashes>>

(* A committed configuration: a new runtime with an empty queue. *)
Reload ==
  /\ Request("reload")
  /\ rt < MaxRuntimes
  /\ rt' = rt + 1
  /\ UNCHANGED <<disk, aged, pending, up, tail, turns, failing, asked, crashes>>
-----------------------------------------------------------------------------
(* Turns. *)

(* Mutant: userMessageBody does not throw when the message is missing. *)
CanAlwaysStart(t) == disk # NoCase /\ ~disk.archived

CanStart(t) ==
  disk # NoCase /\ ~disk.archived /\ Holds(disk.msgs, Question(turns[t].msg))
Starting(t) == Tick /\ Startable(t) /\ Len(failing) < 2

(* completeUserTurnNow up to the first await: the turn has loaded the case *)
(* and recorded its first event in it.                                     *)
Start(t) ==
  /\ Starting(t) /\ CanStart(t)
  /\ SetTurn(t, "running", disk)
  /\ Save(<<disk>>)
  /\ UNCHANGED <<up, rt, tail, failing, asked, crashes>>

StartRefused(t) ==
  /\ Starting(t) /\ ~CanStart(t)
  /\ Reject(t)
  /\ NoSave
  /\ UNCHANGED <<up, rt, asked, crashes>>

(* The user confirms the solution of an earlier answer: no await at all. *)
Curate(t) ==
  /\ Starting(t) /\ CanStart(t)
  /\ \E m \in Messages : Holds(disk.msgs, Reply("formal", m))
  /\ Save(<<AddMessage(WithStatus(disk, "closed"), Reply("formal", turns[t].msg))>>)
  /\ SetTurn(t, "done", NoCase)
  /\ Forget(t)
  /\ UNCHANGED <<up, rt, failing, asked, crashes>>

(* An event or a run is recorded between two awaits. *)
Progress(t) ==
  /\ Macrotask /\ turns[t].pc = "running"
  /\ \E status \in {turns[t].snap.status, "diagnosing"} :
       LET copy == WithStatus(turns[t].snap, status)
       IN  Save(<<copy>>) /\ SetTurn(t, "running", copy)
  /\ UNCHANGED <<up, rt, tail, failing, asked, crashes>>

Finish(t) ==
  /\ Macrotask /\ turns[t].pc = "running"
  /\ LET replied == AddMessage(turns[t].snap, Reply("formal", turns[t].msg))
     IN  Save(<<replied, WithStatus(replied, "closed")>>)
  /\ SetTurn(t, "done", NoCase)
  /\ Forget(t)
  /\ UNCHANGED <<up, rt, failing, asked, crashes>>

(* An await rejects: a provider, the worker, the review, the file system. *)
Fail(t) ==
  /\ Macrotask /\ turns[t].pc = "running"
  /\ Reject(t)
  /\ NoSave
  /\ UNCHANGED <<up, rt, asked, crashes>>

(* recordTurnFailure for the turn rejected first. *)
RecordFailure ==
  /\ Tick /\ failing # <<>>
  /\ Len(failing) = 2 \/ ~Reactions
  /\ failing' = Tail(failing)
  /\ IF disk = NoCase
     THEN NoSave
     ELSE LET said == AddMessage(disk, Reply("failure", turns[Head(failing)].msg))
          IN  Save(<<said, WithStatus(said, "closed")>>)
  /\ UNCHANGED <<up, rt, tail, turns, asked, crashes>>
-----------------------------------------------------------------------------
(* The process and the clock. *)

(* Nothing in memory survives; the old process's turns are gone. *)
Crash ==
  /\ up /\ crashes < MaxCrashes
  /\ up' = FALSE
  /\ crashes' = crashes + 1
  /\ turns' = [t \in TurnIds |->
       IF turns[t].pc \in Settled THEN turns[t]
       ELSE [turns[t] EXCEPT !.pc = "lost", !.snap = NoCase]]
  /\ tail' = [r \in Runtimes |-> 0]
  /\ pending' = <<>> /\ failing' = <<>>
  /\ UNCHANGED <<disk, aged, rt, asked>>

(* Mutant: the start-up scan takes 'diagnosing' for the only active status. *)
InheritedDiagnosing(c) ==
  /\ c # NoCase /\ c.status = "diagnosing"
  /\ LatestUnanswered(c) # 0
  /\ ~Holds(c.logs, Log("interrupted", LatestUnanswered(c)))

Inherited(c) ==
  /\ c # NoCase /\ c.status \in Active
  /\ LatestUnanswered(c) # 0
  /\ ~Holds(c.logs, Log("interrupted", LatestUnanswered(c)))

(* markInheritedActiveTurnsRetryable, before the server listens. *)
Restart ==
  /\ ~up /\ up' = TRUE
  /\ IF Inherited(disk)
     THEN LET m == LatestUnanswered(disk)
              told == AddMessage(disk, Reply("placeholder", m))
              logged == AddLog(told, Log("interrupted", m))
          IN  Save(<<told, logged, WithStatus(logged, "closed")>>)
     ELSE NoSave
  /\ UNCHANGED <<rt, tail, turns, failing, asked, crashes>>

(* The case was not saved for the worker's timeout and a minute: the turn  *)
(* still runs (the worker retries, each time with the full timeout), waits *)
(* for one that does, or is gone.                                          *)
Age ==
  /\ ~aged /\ disk # NoCase /\ pending = <<>> /\ (up => Macrotask)
  /\ aged' = TRUE
  /\ UNCHANGED <<disk, pending, up, rt, tail, turns, failing, asked, crashes>>

Init ==
  /\ disk = NewCase /\ aged = FALSE /\ pending = <<>>
  /\ up = TRUE /\ rt = 1 /\ tail = [r \in Runtimes |-> 0]
  /\ turns = <<>> /\ failing = <<>>
  /\ asked = 0 /\ crashes = 0

TurnStep(t) ==
  \/ Start(t) \/ StartRefused(t) \/ Curate(t)
  \/ Progress(t) \/ Finish(t) \/ Fail(t)

Next ==
  \/ \E async \in BOOLEAN : Accept(async)
  \/ Retry \/ RecoverStale \/ Archive \/ Touch \/ Delete \/ Reload
  \/ \E t \in TurnIds : TurnStep(t)
  \/ RecordFailure \/ Flush
  \/ Crash \/ Restart \/ Age

Spec == Init /\ [][Next]_vars

(* The event loop never stops; a turn has finitely many awaits and each of *)
(* them settles (the worker and the providers have timeouts), so the turn  *)
(* ends although other events come in between; somebody restarts a killed  *)
(* process and the dashboard polls the session.                            *)
Fairness ==
  /\ WF_vars(Flush) /\ WF_vars(RecordFailure) /\ WF_vars(Restart)
  /\ WF_vars(Age) /\ WF_vars(RecoverStale)
  /\ \A t \in 1..MaxTurns :
       /\ WF_vars(t \in TurnIds /\ (Start(t) \/ StartRefused(t) \/ Curate(t)))
       /\ SF_vars(t \in TurnIds /\ (Finish(t) \/ Fail(t)))

FairSpec == Spec /\ Fairness
-----------------------------------------------------------------------------
(* Properties. *)

(* Every variable keeps its type, and exactly the running turns hold a     *)
(* copy of the case.                                                       *)
FileTypeOK ==
  /\ disk \in CaseType \cup {NoCase}
  /\ pending \in Seq(CaseType)
  /\ aged \in BOOLEAN

QueueTypeOK ==
  /\ up \in BOOLEAN /\ rt \in Runtimes
  /\ turns \in Seq(TurnType) /\ Len(turns) <= MaxTurns
  /\ \A t \in TurnIds : (turns[t].pc = "running") <=> (turns[t].snap # NoCase)
  /\ tail \in [Runtimes -> 0..Len(turns)]
  /\ failing \in Seq(TurnIds)
  /\ asked \in 0..MaxMessages
  /\ crashes \in 0..MaxCrashes

TypeOK == FileTypeOK /\ QueueTypeOK

(* The turns of one runtime run one at a time and in the order they were   *)
(* accepted, whatever happened to the earlier ones.                        *)
TurnsRunInOrder ==
  \A t \in TurnIds : \A u \in 1..(t - 1) :
    (turns[u].rt = turns[t].rt /\ turns[t].pc # "queued") => turns[u].pc \in Settled

AtMostOnce(s, x) == \A i, j \in DOMAIN s : (s[i] = x /\ s[j] = x) => i = j

(* However often the process is killed, also in the middle of the start-up *)
(* scan, a message gets one interruption placeholder.                      *)
OnePlaceholder ==
  disk # NoCase => \A m \in Messages : AtMostOnce(disk.msgs, Reply("placeholder", m))

(* An interruption that was not retried still has the placeholder the      *)
(* dashboard hangs its retry button on: both change in one save.           *)
InterruptionKeepsPlaceholder ==
  disk # NoCase =>
    \A m \in Messages :
      Holds(disk.logs, Log("interrupted", m)) =>
        (Holds(disk.logs, Log("retried", m)) # Holds(disk.msgs, Reply("placeholder", m)))

(* A formal reply answers a question that is in the case: a turn whose     *)
(* message was lost from the file does not run.                            *)
FormalReplyHasItsQuestion ==
  disk # NoCase =>
    \A m \in Messages :
      Holds(disk.msgs, Reply("formal", m)) => Holds(disk.msgs, Question(m))

(* When a process starts and the case it inherits is active with an        *)
(* unanswered message, then by the last save of the start-up scan, before  *)
(* a request comes in, that message can be retried -- unless an earlier    *)
(* interruption of it was retried before (markInherited... skips it then). *)
Unanswered(c) == c # NoCase /\ c.status \in Active /\ LatestUnanswered(c) # 0
OfferedRetry(m) == pending' # <<>> /\ Retryable(pending'[Len(pending')]) = m
StartOffersRetry ==
  [][ (~up /\ up' /\ Unanswered(disk))
        => \/ OfferedRetry(LatestUnanswered(disk))
           \/ Holds(disk.logs, Log("retried", LatestUnanswered(disk))) ]_vars

(* Not so (README, section 4), though line 270 of docs/superpowers/specs/  *)
(* 2026-07-25-session-turn-interruption-recovery-design.md has it: after   *)
(* every restart, also the second one, the inherited turn can be retried.  *)
InheritedTurnIsRetryable ==
  [][ (~up /\ up' /\ Unanswered(disk)) => OfferedRetry(LatestUnanswered(disk)) ]_vars

(* A turn that was accepted settles, or dies with its process.             *)
TurnsSettle ==
  \A t \in 1..MaxTurns : (t \in TurnIds) ~> (t \in TurnIds /\ turns[t].pc \in Settled)

(* The dashboard stops waiting: no case stays active for ever, not after a *)
(* kill between two saves either.                                          *)
CaseDoesNotStayActive ==
  (disk # NoCase /\ disk.status \in Active) ~> (disk = NoCase \/ disk.status \notin Active)

(* Nothing runs, waits or is still to be recorded. *)
Quiescent ==
  up /\ pending = <<>> /\ failing = <<>> /\ \A t \in TurnIds : turns[t].pc \in Settled

(* Once all turns are over, each accepted message is in the case and has a *)
(* helper reply.                                                           *)
EveryAcceptedMessageIsAnswered ==
  (Quiescent /\ disk # NoCase) =>
    \A m \in 1..asked : Holds(disk.msgs, Question(m)) /\ Replied(disk, m)

=============================================================================
