----------------------------- MODULE ClaudeWorker -----------------------------
(***************************************************************************)
(* The turns of several cases that escalate to the Claude Code CLI.        *)
(*                                                                         *)
(*   src/src/workers/claude/claude-code-worker.ts  the lock per session    *)
(*   src/src/workers/claude/claude-cli.ts          child, timeout, retry   *)
(*   src/src/runtime/worker-diagnosis.ts           the call, its follow-up *)
(*   src/src/runtime/request-builder.ts            the run id of a request *)
(*                                                                         *)
(* A case has one Claude session for life.  A turn works on the copy of    *)
(* the case it loaded; what matters of it here is how many runs it holds,  *)
(* because the first run is numbered run_01 and the worker begins the      *)
(* session for run_01 and resumes it for every other run.  Turns of one    *)
(* case follow one another within a runtime (CaseTurns); a reload of the   *)
(* configuration makes a new runtime beside the old one.  Calls are        *)
(* numbered in the order in which they reach the lock.                     *)
(***************************************************************************)
EXTENDS Naturals, Sequences, FiniteSets, Places

CONSTANTS
  Sessions,     \* cases, each with its claudeSessionId
  Turns,        \* turns of any case
  MaxRetries,   \* claude.sessionBusyMaxRetries
  HasTimeout,   \* claude.timeoutMs > 0
  MaxRuntimes,  \* bound: reloads of the configuration plus one
  MaxCrashes    \* bound: kills of the gateway

ASSUME WorkerAssumption ==
  /\ MaxRetries \in Nat /\ HasTimeout \in BOOLEAN
  /\ MaxRuntimes \in Nat \ {0} /\ MaxCrashes \in Nat
  /\ IsFiniteSet(Turns)

VARIABLES
  runs,     \* session -> the runs in the case file
  rt,       \* the newest runtime
  oldest,   \* the first runtime of the gateway process that runs now
  enabled,  \* runtime -> its configuration lets the CLI be called
  turn,     \* turn -> where it is, its case, its copy of it, its calls
  calls,    \* the calls of diagnose
  tail,     \* sessionQueues: the last call of a session, 0 if none
  begun,    \* sessions for which a child was started with --session-id (history)
  crashes

vars == <<runs, rt, oldest, enabled, turn, calls, tail, begun, crashes>>

CallIds == DOMAIN calls
Runtimes == 1..MaxRuntimes
Over == {"done", "dead"}

NewTurn == [pc |-> "new"]
TurnType == [pc : {"deciding", "calling", "reviewing"} \cup Over, session : Sessions,
             rt : Runtimes, copy : Nat, made : 0..2, usable : BOOLEAN]

(* A call: `waiting' for its turn at the lock, running a `child', `resting'*)
(* between two attempts, `released', or `dead' with its gateway.  A child  *)
(* outlives the gateway that started it.                                   *)
CallType == [turn : Turns, session : Sessions, prev : Nat,
             mode : {"session-id", "resume"},
             pc : {"waiting", "child", "resting", "released", "dead"},
             attempt : 0..(MaxRetries + 1),
             child : {"none", "runs", "terminated"}]

Outstanding(c) == calls[c].pc \notin {"released", "dead"}

-----------------------------------------------------------------------------
(* A turn up to its call. *)

Unstarted(t) == turn[t].pc = "new"
Live(t) == ~Unstarted(t) /\ turn[t].pc \notin Over

(* Every event, run and message is recorded by a save of the whole copy.   *)
SaveCopy(t, n) == runs' = [runs EXCEPT ![turn[t].session] = n]

(* The runtime may be an older one: a turn accepted before a reload still  *)
(* runs in its own.                                                        *)
StartTurn(t) ==
  /\ Unstarted(t)
  /\ \E s \in Sessions : \E r \in oldest..rt :
       /\ \A u \in Turns : Live(u) => <<turn[u].session, turn[u].rt>> # <<s, r>>
       /\ turn' = [turn EXCEPT ![t] = [pc |-> "deciding", session |-> s, rt |-> r,
                                       copy |-> runs[s], made |-> 0, usable |-> FALSE]]
  /\ UNCHANGED <<runs, rt, oldest, enabled, calls, tail, begun, crashes>>

Record(t) ==
  /\ turn[t].pc \in {"deciding", "reviewing"}
  /\ SaveCopy(t, turn[t].copy)
  /\ UNCHANGED <<rt, oldest, enabled, turn, calls, tail, begun, crashes>>

(* An experience, the knowledge base or MCP evidence answers: a run like   *)
(* any other, without the worker.                                          *)
AnswerWithoutWorker(t) ==
  /\ turn[t].pc = "deciding"
  /\ turn' = [turn EXCEPT ![t].pc = "reviewing", ![t].copy = @ + 1]
  /\ SaveCopy(t, turn[t].copy + 1)
  /\ UNCHANGED <<rt, oldest, enabled, calls, tail, begun, crashes>>

(* sessionArgs: run_01 begins the session.                                 *)
Mode(n) == IF n = 1 THEN "session-id" ELSE "resume"

(* Mutant: the lock is per worker, not static. *)
TailOfRuntime(t) ==
  LET c == tail[turn[t].session]
  IN  IF c # 0 /\ turn[calls[c].turn].rt = turn[t].rt THEN c ELSE 0

(* The promise withSessionLock finds in the map.                           *)
Previous(t) == tail[turn[t].session]

NewCall(t, n) ==
  [turn |-> t, session |-> turn[t].session, prev |-> Previous(t),
   mode |-> Mode(n), pc |-> "waiting", attempt |-> 0, child |-> "none"]

(* Mutant: the run is added after the worker answered. *)
DispatchUnrecorded(t) ==
  /\ turn' = [turn EXCEPT ![t].pc = "calling", ![t].made = @ + 1]
  /\ calls' = Append(calls, NewCall(t, turn[t].copy + 1))
  /\ tail' = [tail EXCEPT ![turn[t].session] = Len(calls) + 1]
  /\ UNCHANGED <<runs, rt, oldest, enabled, begun, crashes>>

(* The run is saved, then diagnose takes its place in the queue.           *)
Dispatch(t) ==
  /\ turn' = [turn EXCEPT ![t].pc = "calling", ![t].copy = @ + 1, ![t].made = @ + 1]
  /\ SaveCopy(t, turn[t].copy + 1)
  /\ calls' = Append(calls, NewCall(t, turn[t].copy + 1))
  /\ tail' = [tail EXCEPT ![turn[t].session] = Len(calls) + 1]
  /\ UNCHANGED <<rt, oldest, enabled, begun, crashes>>

Escalate(t) == turn[t].pc = "deciding" /\ Dispatch(t)

(* The result is reviewed; a usable one that asks to continue may be       *)
(* followed up once, in the same Claude session.                           *)
FollowUp(t) ==
  /\ turn[t].pc = "reviewing" /\ turn[t].made = 1 /\ turn[t].usable
  /\ Dispatch(t)

(* The reply is saved, with the copy; or something on the way throws, and  *)
(* what is recorded of that is recorded in a case loaded anew.             *)
EndTurn(t) ==
  /\ turn[t].pc \in {"deciding", "reviewing"}
  /\ SaveCopy(t, turn[t].copy) \/ UNCHANGED runs
  /\ turn' = [turn EXCEPT ![t].pc = "done"]
  /\ UNCHANGED <<rt, oldest, enabled, calls, tail, begun, crashes>>

-----------------------------------------------------------------------------
(* A call.  `await previous' is over once the previous call was released. *)

(* Mutant: the gate opens as soon as the session was busy. *)
EnterAtRest(c) ==
  /\ calls[c].pc = "waiting"
  /\ calls[c].prev # 0 => calls[calls[c].prev].pc \in {"resting", "released"}

Enter(c) ==
  /\ calls[c].pc = "waiting"
  /\ calls[c].prev # 0 => calls[calls[c].prev].pc = "released"

(* Mutant: every call that ends deletes the entry of its session. *)
ForgetAlways(c) == tail' = [tail EXCEPT ![calls[c].session] = 0]

(* finally: the gate opens; the map forgets the call if it is the last one.*)
Forget(c) == tail' = [tail EXCEPT ![calls[c].session] = IF @ = c THEN 0 ELSE @]

Release(c, usable) ==
  /\ calls' = [calls EXCEPT ![c].pc = "released", ![c].child = "none"]
  /\ Forget(c)
  /\ turn' = [turn EXCEPT ![calls[c].turn].pc = "reviewing",
                          ![calls[c].turn].usable = usable]

(* The worker is disabled, the workspace unknown or the command not on the *)
(* whitelist: a mock result without a child.                               *)
Mock(c) ==
  /\ Enter(c) /\ ~enabled[turn[calls[c].turn].rt]
  /\ Release(c, FALSE)
  /\ UNCHANGED <<runs, rt, oldest, enabled, begun, crashes>>

StartChild(c) ==
  /\ calls' = [calls EXCEPT ![c].pc = "child", ![c].child = "runs", ![c].attempt = @ + 1]
  /\ begun' = IF calls[c].mode = "session-id" THEN begun \cup {calls[c].session} ELSE begun
  /\ UNCHANGED <<runs, rt, oldest, enabled, turn, tail, crashes>>

Spawn(c) == Enter(c) /\ enabled[turn[calls[c].turn].rt] /\ StartChild(c)

(* Mutant: the timer is armed for the first attempt only. *)
TimedFirst(c) == HasTimeout /\ calls[c].attempt = 1

(* The timer of runCommand is armed.                                       *)
Timed(c) == HasTimeout

(* SIGTERM, once; nothing else follows if the child ignores it.            *)
Timeout(c) ==
  /\ calls[c].pc = "child" /\ calls[c].child = "runs" /\ Timed(c)
  /\ calls' = [calls EXCEPT ![c].child = "terminated"]
  /\ UNCHANGED <<runs, rt, oldest, enabled, turn, tail, begun, crashes>>

(* Mutant: `attempt > maxRetries'. *)
MayRetryOnceMore(c) == calls[c].attempt <= MaxRetries + 1

MayRetry(c) == calls[c].attempt <= MaxRetries

(* The child ended with "Session ID ... is already in use".                *)
SessionBusy(c) ==
  /\ calls[c].pc = "child" /\ MayRetry(c)
  /\ calls' = [calls EXCEPT ![c].pc = "resting", ![c].child = "none"]
  /\ UNCHANGED <<runs, rt, oldest, enabled, turn, tail, begun, crashes>>

Respawn(c) == calls[c].pc = "resting" /\ StartChild(c)

(* The child ended, well (a usable result if it was not terminated) or not,*)
(* or could not be started at all.                                         *)
ChildEnds(c) ==
  /\ calls[c].pc = "child"
  /\ \E usable \in BOOLEAN :
       (usable => calls[c].child = "runs") /\ Release(c, usable)
  /\ UNCHANGED <<runs, rt, oldest, enabled, begun, crashes>>

(* The child of a dead gateway ends by itself.                             *)
OrphanEnds(c) ==
  /\ calls[c].pc = "dead" /\ calls[c].child # "none"
  /\ calls' = [calls EXCEPT ![c].child = "none"]
  /\ UNCHANGED <<runs, rt, oldest, enabled, turn, tail, begun, crashes>>

-----------------------------------------------------------------------------
(* The gateway. *)

(* A new runtime, with a new worker and the configuration of now.          *)
Reload ==
  /\ rt < MaxRuntimes
  /\ rt' = rt + 1
  /\ \E on \in BOOLEAN : enabled' = [enabled EXCEPT ![rt + 1] = on]
  /\ UNCHANGED <<runs, oldest, turn, calls, tail, begun, crashes>>

Crash ==
  /\ crashes < MaxCrashes
  /\ crashes' = crashes + 1
  /\ turn' = [t \in Turns |-> IF Live(t) THEN [turn[t] EXCEPT !.pc = "dead"] ELSE turn[t]]
  /\ calls' = [c \in CallIds |-> IF Outstanding(c) THEN [calls[c] EXCEPT !.pc = "dead"]
                                                   ELSE calls[c]]
  /\ tail' = [s \in Sessions |-> 0]
  /\ oldest' = rt
  /\ UNCHANGED <<runs, rt, enabled, begun>>

Init ==
  /\ runs = [s \in Sessions |-> 0]
  /\ rt = 1 /\ oldest = 1 /\ enabled \in [Runtimes -> BOOLEAN]
  /\ \A r \in Runtimes \ {1} : ~enabled[r]
  /\ turn = [t \in Turns |-> NewTurn]
  /\ calls = <<>> /\ tail = [s \in Sessions |-> 0]
  /\ begun = {} /\ crashes = 0

TurnStep(t) ==
  \/ StartTurn(t) \/ Record(t) \/ AnswerWithoutWorker(t)
  \/ Escalate(t) \/ FollowUp(t) \/ EndTurn(t)

(* What the event loop does for a call: reactions, timers, exits.          *)
OwnStep(c) == Mock(c) \/ Spawn(c) \/ Timeout(c) \/ Respawn(c)

CallStep(c) == OwnStep(c) \/ SessionBusy(c) \/ ChildEnds(c) \/ OrphanEnds(c)

Next ==
  \/ \E t \in Turns : TurnStep(t)
  \/ \E c \in CallIds : CallStep(c)
  \/ Reload \/ Crash

Spec == Init /\ [][Next]_vars

(* The event loop takes its steps.  A child may run for ever, but not one  *)
(* that got SIGTERM.                                                       *)
MaxCalls == 2 * Cardinality(Turns)
Fairness ==
  \A c \in 1..MaxCalls :
    /\ WF_vars(c \in CallIds /\ OwnStep(c))
    /\ WF_vars(c \in CallIds /\ calls[c].child = "terminated" /\ (SessionBusy(c) \/ ChildEnds(c)))

FairSpec == Spec /\ Fairness
-----------------------------------------------------------------------------
(* Properties. *)

(* Every variable keeps its type; in particular a call makes at most       *)
(* MaxRetries + 1 attempts and a turn at most two calls.                   *)
TypeOK ==
  /\ runs \in [Sessions -> Nat]
  /\ rt \in Runtimes /\ oldest \in 1..rt
  /\ enabled \in [Runtimes -> BOOLEAN]
  /\ turn \in [Turns -> TurnType \cup {NewTurn}]
  /\ calls \in Seq(CallType)
  /\ tail \in [Sessions -> Nat]
  /\ begun \in SUBSET Sessions
  /\ crashes \in 0..MaxCrashes

(* The calls that have passed the lock and not left it. *)
Inside(c) == calls[c].pc \in {"child", "resting"}

(* Two turns of one case may run at once, one in the runtime before a      *)
(* reload and one in the runtime after it, with a worker each: of the      *)
(* calls of one Claude session still only one is past the lock, also while *)
(* it rests between two attempts.                                          *)
OneChildPerSession ==
  \A c, d \in CallIds :
    Inside(c) /\ Inside(d) /\ calls[c].session = calls[d].session => c = d

(* The map holds an entry for exactly the sessions that have a call: it    *)
(* neither grows with the cases that were ever diagnosed nor loses the     *)
(* call the next one has to wait for.                                      *)
MapHoldsOutstandingCalls ==
  \A s \in Sessions :
    (tail[s] # 0) <=> (\E c \in CallIds : calls[c].session = s /\ Outstanding(c))

(* While the configuration is not reloaded, also through kills and         *)
(* restarts, a session is begun by one call only: a second `--session-id'  *)
(* would be answered "already in use" for ever.                            *)
SessionIsBegunOnce ==
  rt = 1 => \A c, d \in CallIds :
              /\ calls[c].mode = "session-id" /\ calls[d].mode = "session-id"
              /\ calls[c].session = calls[d].session
              => c = d

(* A call ends: no order of waiting, busy answers, hung children and       *)
(* failures leaves a turn, and those behind it, waiting for ever.          *)
CallsEnd ==
  \A c \in 1..MaxCalls :
    (c \in CallIds /\ Outstanding(c)) ~> (c \in CallIds /\ ~Outstanding(c))

(* The lock implements a line per session, first come first served.        *)
OutstandingIn(s) == {c \in CallIds : calls[c].session = s /\ Outstanding(c)}
LineOf(s) == Ascending(OutstandingIn(s))
BusyIn(s) == {c \in CallIds : calls[c].session = s /\ calls[c].pc = "child"}
Line == INSTANCE SessionLine WITH Calls <- 1..MaxCalls,
          line <- [s \in Sessions |-> LineOf(s)], busy <- [s \in Sessions |-> BusyIn(s)]
LineSpec == Line!Spec

(* Not so (README, section 4), though it is the title of the test at       *)
(* test/supper-helper.test.mjs:867: the worker resumes an existing Claude  *)
(* session on follow-up runs.  Who resumes a session finds one that a      *)
(* child began.                                                            *)
ResumedSessionWasBegun ==
  \A c \in CallIds :
    calls[c].mode = "resume" /\ calls[c].attempt > 0 => calls[c].session \in begun
=============================================================================
