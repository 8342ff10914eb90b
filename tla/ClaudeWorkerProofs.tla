-------------------------- MODULE ClaudeWorkerProofs --------------------------
(***************************************************************************)
(* Theorems about ClaudeWorker, for any number of cases, turns, reloads    *)
(* and kills.                                                              *)
(***************************************************************************)
EXTENDS ClaudeWorker, PlacesProofs, SequenceTheorems, FiniteSetTheorems, FunctionTheorems,
        TLAPS

(* A call that has passed the lock, now or before. *)
Passed(c) == calls[c].pc \in {"child", "resting", "released"}

SameSession(c, d) == calls[c].session = calls[d].session

(* A call waits for one of its own session that came before it.            *)
PrevOK ==
  \A c \in CallIds :
    /\ calls[c].prev \in 0..(c - 1)
    /\ calls[c].prev # 0 => SameSession(calls[c].prev, c)

(* What is outstanding before a call is at or before the one it waits for. *)
WaitOK ==
  \A c \in CallIds : \A j \in 1..(c - 1) :
    Outstanding(c) /\ Outstanding(j) /\ SameSession(j, c) => j <= calls[c].prev

(* The map holds the last outstanding call of a session. *)
TailOK ==
  /\ \A c \in CallIds : Outstanding(c) => c <= tail[calls[c].session]
  /\ \A s \in Sessions : tail[s] # 0 =>
       /\ tail[s] \in CallIds
       /\ calls[tail[s]].session = s /\ Outstanding(tail[s])

(* Before a call that has passed the lock nothing is outstanding. *)
PassOK ==
  \A c \in CallIds : \A j \in 1..(c - 1) :
    Passed(c) /\ SameSession(j, c) => ~Outstanding(j)

LockOK == PrevOK /\ WaitOK /\ TailOK /\ PassOK

(* An outstanding call is the one its turn awaits. *)
TurnOK ==
  /\ \A c \in CallIds : Outstanding(c) => turn[calls[c].turn].pc = "calling"
  /\ \A c, d \in CallIds :
       Outstanding(c) /\ Outstanding(d) /\ calls[c].turn = calls[d].turn => c = d
  /\ \A t \in Turns : turn[t].pc = "deciding" => turn[t].made = 0

(* The attempts a call has made, by where it is. *)
AttemptOK ==
  \A c \in CallIds :
    /\ calls[c].pc = "waiting" => calls[c].attempt = 0
    /\ calls[c].pc = "resting" => calls[c].attempt <= MaxRetries

Inv == TypeOK /\ TurnOK /\ AttemptOK /\ LockOK

USE DEF CallIds

-----------------------------------------------------------------------------
(* The sequence of calls. *)

LEMMA CallsAreCalls ==
  ASSUME TypeOK
  PROVE  /\ Len(calls) \in Nat /\ CallIds = 1..Len(calls)
         /\ \A c \in CallIds : calls[c] \in CallType
  BY LenProperties, ElementOfSeq DEF TypeOK

(* A step that rewrites the calls in place.                                *)
LEMMA CallsInPlace ==
  ASSUME TypeOK, calls' \in [CallIds -> CallType]
  PROVE  calls' \in Seq(CallType) /\ DOMAIN calls' = CallIds
<1>1. Len(calls) \in Nat /\ CallIds = 1..Len(calls)
  BY CallsAreCalls
<1>2. calls' \in [1..Len(calls) -> CallType]
  BY <1>1
<1> QED BY <1>1, <1>2, SeqDef

-----------------------------------------------------------------------------
(* Nothing changes for the lock when calls and map do not change. *)

LEMMA LockUnchanged ==
  ASSUME LockOK, UNCHANGED <<calls, tail>>
  PROVE  LockOK'
  BY DEF LockOK, PrevOK, WaitOK, TailOK, PassOK, Outstanding, Passed, SameSession

(* A new call takes its place behind the others. *)
LEMMA LockDispatch ==
  ASSUME TypeOK, LockOK, NEW t \in Turns, turn[t].session \in Sessions, Dispatch(t)
  PROVE  LockOK'
<1> DEFINE n == Len(calls) + 1
           s == turn[t].session
           new == NewCall(t, turn[t].copy + 1)
<1>1. /\ Len(calls) \in Nat /\ CallIds = 1..Len(calls)
      /\ \A c \in CallIds : calls[c] \in CallType
  BY CallsAreCalls
<1>2. /\ Len(calls') = n /\ DOMAIN calls' = 1..n
      /\ calls'[n] = new
      /\ \A c \in CallIds : calls'[c] = calls[c]
  <2>1. calls \in Seq(CallType \cup {new}) /\ new \in CallType \cup {new}
    <3>1. \A c \in 1..Len(calls) : calls[c] \in CallType \cup {new}
      BY <1>1
    <3>2. calls = [c \in 1..Len(calls) |-> calls[c]]
      BY LenProperties DEF TypeOK
    <3> QED BY <3>1, <3>2, <1>1, SeqDef
  <2>2. calls' = Append(calls, new)
    BY DEF Dispatch
  <2> QED BY <2>1, <2>2, <1>1, AppendProperties
<1>3. /\ new.session = s /\ new.prev = tail[s] /\ new.pc = "waiting"
  BY DEF NewCall, Previous
<1>4. tail' = [tail EXCEPT ![s] = n] /\ tail \in [Sessions -> Nat]
  BY DEF Dispatch, TypeOK
<1>5. tail[s] \in 0..Len(calls)
  BY <1>1, <1>4 DEF LockOK, TailOK
<1> HIDE DEF new, n
<1>n. n = Len(calls) + 1 /\ n \notin CallIds /\ 1..n = CallIds \cup {n}
  BY <1>1 DEF n
<1>6. PrevOK'
  <2> SUFFICES ASSUME NEW c \in 1..n
               PROVE  /\ calls'[c].prev \in 0..(c - 1)
                      /\ calls'[c].prev # 0 => calls'[calls'[c].prev].session = calls'[c].session
    BY <1>2 DEF PrevOK, SameSession
  <2>1. CASE c = n
    BY <2>1, <1>1, <1>2, <1>3, <1>4, <1>5, <1>n DEF LockOK, TailOK
  <2>2. CASE c \in CallIds
    BY <2>2, <1>1, <1>2 DEF LockOK, PrevOK, SameSession
  <2> QED BY <2>1, <2>2, <1>n
<1>7. WaitOK'
  <2> SUFFICES ASSUME NEW c \in 1..n, NEW j \in 1..(c - 1),
                      Outstanding(c)', Outstanding(j)', SameSession(j, c)'
               PROVE  j <= calls'[c].prev
    BY <1>2 DEF WaitOK
  <2>j. j \in CallIds /\ calls'[j] = calls[j] /\ Outstanding(j)
    BY <1>1, <1>2, <1>n DEF Outstanding
  <2>1. CASE c = n
    BY <2>1, <2>j, <1>2, <1>3 DEF LockOK, TailOK, SameSession
  <2>2. CASE c \in CallIds
    BY <2>2, <2>j, <1>2 DEF LockOK, WaitOK, SameSession, Outstanding
  <2> QED BY <2>1, <2>2, <1>n
<1>8. TailOK'
  <2>1. ASSUME NEW c \in 1..n, Outstanding(c)'
        PROVE  c <= tail'[calls'[c].session]
    <3>1. CASE c = n
      BY <3>1, <1>1, <1>2, <1>3, <1>4, <1>n DEF CallType
    <3>2. CASE c \in CallIds
      BY <3>2, <2>1, <1>1, <1>2, <1>4, <1>n DEF LockOK, TailOK, Outstanding, CallType
    <3> QED BY <3>1, <3>2, <1>n
  <2>2. ASSUME NEW r \in Sessions, tail'[r] # 0
        PROVE  /\ tail'[r] \in 1..n
               /\ calls'[tail'[r]].session = r /\ Outstanding(tail[r])'
    <3>1. CASE r = s
      BY <3>1, <1>1, <1>2, <1>3, <1>4, <1>n DEF Outstanding
    <3>2. CASE r # s
      BY <3>2, <2>2, <1>2, <1>4, <1>n DEF LockOK, TailOK, Outstanding
    <3> QED BY <3>1, <3>2
  <2> QED BY <2>1, <2>2, <1>2 DEF TailOK, Outstanding
<1>9. PassOK'
  <2> SUFFICES ASSUME NEW c \in 1..n, NEW j \in 1..(c - 1), Passed(c)', SameSession(j, c)'
               PROVE  ~Outstanding(j)'
    BY <1>2 DEF PassOK
  <2>1. c \in CallIds
    BY <1>2, <1>3, <1>n DEF Passed
  <2>2. j \in CallIds
    BY <2>1, <1>1
  <2> QED BY <2>1, <2>2, <1>2 DEF LockOK, PassOK, Passed, SameSession, Outstanding
<1> QED BY <1>6, <1>7, <1>8, <1>9 DEF LockOK

(* Before a call that may enter nothing is outstanding. *)
LEMMA NothingBefore ==
  ASSUME TypeOK, LockOK, NEW c \in CallIds, Enter(c) \/ Inside(c),
         NEW j \in 1..(c - 1), SameSession(j, c)
  PROVE  ~Outstanding(j)
<1>1. /\ Len(calls) \in Nat /\ CallIds = 1..Len(calls)
      /\ \A d \in CallIds : calls[d] \in CallType
  BY CallsAreCalls
<1>2. j \in CallIds
  BY <1>1
<1>3. CASE Inside(c)
  BY <1>3, <1>2 DEF LockOK, PassOK, Inside, Passed
<1>4. CASE Enter(c)
  <2> SUFFICES ASSUME Outstanding(j) PROVE FALSE
    OBVIOUS
  <2>1. Outstanding(c)
    BY <1>4 DEF Enter, Outstanding
  <2>2. j <= calls[c].prev
    BY <2>1 DEF LockOK, WaitOK
  <2>3. calls[c].prev \in 1..(c - 1) /\ SameSession(calls[c].prev, c)
    BY <2>2, <1>1, <1>2 DEF LockOK, PrevOK
  <2>4. calls[calls[c].prev].pc = "released"
    BY <1>4, <2>3 DEF Enter
  <2>5. j # calls[c].prev
    BY <2>4 DEF Outstanding
  <2>6. j \in 1..(calls[c].prev - 1) /\ calls[c].prev \in CallIds
    BY <2>2, <2>3, <2>5, <1>1, <1>2
  <2>7. SameSession(j, calls[c].prev)
    BY <2>3 DEF SameSession
  <2> QED BY <2>4, <2>6, <2>7 DEF LockOK, PassOK, Passed
<1> QED BY <1>3, <1>4

(* One call moves: it keeps its place in the line, and if it has passed    *)
(* the lock now, it could.                                                 *)
LEMMA LockMove ==
  ASSUME TypeOK, LockOK, NEW c \in CallIds, DOMAIN calls' = CallIds,
         \A d \in CallIds \ {c} : calls'[d] = calls[d],
         calls'[c].session = calls[c].session, calls'[c].prev = calls[c].prev,
         Outstanding(c)' => Outstanding(c),
         Passed(c)' => Enter(c) \/ Inside(c) \/ Passed(c),
         Outstanding(c)' => tail' = tail,
         ~Outstanding(c)' =>
           \/ tail' = tail /\ ~Outstanding(c)
           \/ /\ Enter(c) \/ Inside(c)
              /\ tail' = [tail EXCEPT ![calls[c].session] = IF @ = c THEN 0 ELSE @]
  PROVE  LockOK'
<1>1. /\ Len(calls) \in Nat /\ CallIds = 1..Len(calls)
      /\ \A d \in CallIds : calls[d] \in CallType
      /\ tail \in [Sessions -> Nat]
  BY CallsAreCalls DEF TypeOK
<1>2. \A d \in CallIds : /\ calls'[d].session = calls[d].session
                         /\ calls'[d].prev = calls[d].prev
                         /\ Outstanding(d)' => Outstanding(d)
  BY DEF Outstanding
<1>3. PrevOK'
  BY <1>1, <1>2 DEF LockOK, PrevOK, SameSession
<1>4. WaitOK'
  <2> SUFFICES ASSUME NEW d \in CallIds, NEW j \in 1..(d - 1),
                      Outstanding(d)', Outstanding(j)', SameSession(j, d)'
               PROVE  j <= calls'[d].prev
    BY DEF WaitOK
  <2>1. j \in CallIds
    BY <1>1
  <2> QED BY <2>1, <1>2 DEF LockOK, WaitOK, SameSession
<1>5. PassOK'
  <2> SUFFICES ASSUME NEW d \in CallIds, NEW j \in 1..(d - 1), Passed(d)', SameSession(j, d)'
               PROVE  ~Outstanding(j)'
    BY DEF PassOK
  <2>1. j \in CallIds /\ SameSession(j, d)
    BY <1>1, <1>2 DEF SameSession
  <2>2. Passed(d) \/ (d = c /\ (Enter(c) \/ Inside(c)))
    BY DEF Passed
  <2>3. ~Outstanding(j)
    BY <2>1, <2>2, NothingBefore DEF LockOK, PassOK
  <2> QED BY <2>1, <2>3, <1>2
<1>6. TailOK'
  <2>1. CASE tail' = tail /\ (Outstanding(c)' <=> Outstanding(c))
    <3>1. \A d \in CallIds : Outstanding(d)' <=> Outstanding(d)
      BY <2>1 DEF Outstanding
    <3> QED BY <2>1, <3>1, <1>1, <1>2 DEF LockOK, TailOK
  <2>2. CASE /\ ~Outstanding(c)'
             /\ Enter(c) \/ Inside(c)
             /\ tail' = [tail EXCEPT ![calls[c].session] = IF @ = c THEN 0 ELSE @]
    <3> DEFINE s == calls[c].session
    <3>0. s \in Sessions
      BY <1>1 DEF CallType
    <3>1. ASSUME NEW d \in CallIds, Outstanding(d)'
          PROVE  d <= tail'[calls'[d].session]
      <4>1. Outstanding(d) /\ d # c /\ d <= tail[calls[d].session]
        <5>1. d # c
          BY <3>1, <2>2 DEF Outstanding
        <5>2. Outstanding(d)
          BY <3>1, <1>2
        <5> QED BY <5>1, <5>2 DEF LockOK, TailOK
      <4>2. CASE calls[d].session # s
        BY <4>1, <4>2, <2>2, <1>1, <1>2 DEF CallType
      <4>3. CASE calls[d].session = s
        <5>1. ~(d < c)
          <6> SUFFICES ASSUME d < c PROVE FALSE
            OBVIOUS
          <6>1. d \in 1..(c - 1) /\ SameSession(d, c)
            BY <4>3, <1>1 DEF SameSession
          <6> QED BY <6>1, <4>1, <2>2, NothingBefore
        <5>2. tail[s] # c
          BY <5>1, <4>1, <4>3, <1>1
        <5> QED BY <5>2, <4>1, <4>3, <3>0, <2>2, <1>1, <1>2
      <4> QED BY <4>2, <4>3
    <3>2. ASSUME NEW r \in Sessions, tail'[r] # 0
          PROVE  /\ tail'[r] \in CallIds
                 /\ calls'[tail'[r]].session = r /\ Outstanding(tail[r])'
      <4>1. tail'[r] = tail[r]
        BY <3>2, <3>0, <2>2, <1>1
      <4>2. tail[r] \in CallIds /\ calls[tail[r]].session = r /\ Outstanding(tail[r])
        BY <3>2, <4>1 DEF LockOK, TailOK
      <4>3. tail[r] # c
        BY <4>1, <4>2, <3>2, <2>2, <1>1
      <4> QED BY <4>1, <4>2, <4>3 DEF Outstanding
    <3> QED BY <3>1, <3>2 DEF TailOK, Outstanding
  <2> QED BY <2>1, <2>2
<1> QED BY <1>3, <1>4, <1>5, <1>6 DEF LockOK

-----------------------------------------------------------------------------
(* The invariant and its parts, step by step. *)

LEMMA InvInit ==
  ASSUME Init
  PROVE  Inv
<1>1. calls = <<>> /\ DOMAIN calls = {}
  BY DEF Init
<1>2. TypeOK
  BY WorkerAssumption DEF Init, TypeOK, Runtimes, NewTurn
<1>3. TurnOK /\ AttemptOK
  BY <1>1 DEF Init, TurnOK, AttemptOK, NewTurn
<1>4. LockOK
  BY <1>1 DEF Init, LockOK, PrevOK, WaitOK, TailOK, PassOK
<1> QED BY <1>2, <1>3, <1>4 DEF Inv

(* A turn that is somewhere has its case and its copy. *)
LEMMA StartedTurn ==
  ASSUME TypeOK, NEW t \in Turns, turn[t].pc # "new"
  PROVE  turn[t] \in TurnType
  BY DEF TypeOK, NewTurn

(* A turn moves, and its case file with it, before and after its calls. *)
LEMMA TurnMoves ==
  ASSUME Inv, UNCHANGED <<rt, oldest, enabled, calls, tail, begun, crashes>>,
         NEW t \in Turns, turn[t].pc # "calling",
         NEW new \in TurnType, turn' = [turn EXCEPT ![t] = new],
         new.pc = "deciding" => new.made = 0,
         runs' \in [Sessions -> Nat]
  PROVE  Inv'
<1>1. TypeOK'
  BY DEF Inv, TypeOK
<1>2. turn \in [Turns -> TurnType \cup {NewTurn}]
      /\ \A c \in CallIds : calls[c] \in CallType
  BY CallsAreCalls DEF Inv, TypeOK
<1>3. TurnOK'
  <2>1. \A c \in CallIds : Outstanding(c) => calls[c].turn \in Turns \ {t}
    BY <1>2 DEF Inv, TurnOK, CallType
  <2>2. \A u \in Turns \ {t} : turn'[u] = turn[u]
    BY <1>2
  <2>3. turn'[t] = new
    BY <1>2
  <2> QED BY <2>1, <2>2, <2>3 DEF Inv, TurnOK, Outstanding
<1>4. AttemptOK'
  BY DEF Inv, AttemptOK
<1>5. LockOK'
  BY LockUnchanged DEF Inv
<1> QED BY <1>1, <1>3, <1>4, <1>5 DEF Inv

LEMMA TurnStepKeepsInv ==
  ASSUME Inv, NEW t \in Turns,
         StartTurn(t) \/ Record(t) \/ AnswerWithoutWorker(t) \/ EndTurn(t)
  PROVE  Inv'
<1>1. TypeOK
  BY DEF Inv
<1>2. CASE StartTurn(t)
  <2>1. PICK s \in Sessions, r \in oldest..rt :
          turn' = [turn EXCEPT ![t] = [pc |-> "deciding", session |-> s, rt |-> r,
                                       copy |-> runs[s], made |-> 0, usable |-> FALSE]]
    BY <1>2 DEF StartTurn
  <2> DEFINE new == [pc |-> "deciding", session |-> s, rt |-> r,
                     copy |-> runs[s], made |-> 0, usable |-> FALSE]
  <2>2. new \in TurnType /\ new.made = 0
    <3>1. r \in Runtimes /\ runs[s] \in Nat
      BY <1>1, WorkerAssumption DEF TypeOK, Runtimes
    <3> QED BY <3>1 DEF TurnType
  <2>3. turn[t].pc # "calling" /\ runs' \in [Sessions -> Nat]
    BY <1>1, <1>2 DEF StartTurn, Unstarted, TypeOK
  <2>4. UNCHANGED <<rt, oldest, enabled, calls, tail, begun, crashes>>
    BY <1>2 DEF StartTurn
  <2> HIDE DEF new
  <2>5. turn' = [turn EXCEPT ![t] = new]
    BY <2>1 DEF new
  <2> QED BY <2>2, <2>3, <2>4, <2>5, TurnMoves
<1>3. CASE Record(t) \/ AnswerWithoutWorker(t) \/ EndTurn(t)
  <2>1. turn[t].pc \in {"deciding", "reviewing"}
    BY <1>3 DEF Record, AnswerWithoutWorker, EndTurn
  <2>2. turn[t] \in TurnType
    BY <2>1, <1>1, StartedTurn
  <2>3. runs' \in [Sessions -> Nat]
    <3>1. /\ turn[t].copy \in Nat /\ turn[t].session \in Sessions
          /\ runs \in [Sessions -> Nat]
      BY <1>1, <2>2 DEF TypeOK, TurnType
    <3>2. \A n \in Nat : SaveCopy(t, n) => runs' \in [Sessions -> Nat]
      BY <3>1 DEF SaveCopy
    <3>3. CASE Record(t) \/ EndTurn(t)
      BY <3>1, <3>2, <3>3 DEF Record, EndTurn
    <3>4. CASE AnswerWithoutWorker(t)
      BY <3>1, <3>2, <3>4 DEF AnswerWithoutWorker
    <3> QED BY <1>3, <3>3, <3>4
  <2>4. UNCHANGED <<rt, oldest, enabled, calls, tail, begun, crashes>>
    BY <1>3 DEF Record, AnswerWithoutWorker, EndTurn
  <2>5. PICK new \in TurnType : /\ turn' = [turn EXCEPT ![t] = new]
                                /\ new.pc = "deciding" => new.made = 0
    <3>1. CASE Record(t)
      BY <3>1, <2>2, <1>1 DEF Record, TypeOK, Inv, TurnOK
    <3>2. CASE AnswerWithoutWorker(t)
      <4> DEFINE new == [turn[t] EXCEPT !.pc = "reviewing", !.copy = @ + 1]
      <4>1. new \in TurnType /\ new.pc = "reviewing"
        <5>1. turn[t].copy + 1 \in Nat
          BY <2>2 DEF TurnType
        <5> QED BY <5>1, <2>2 DEF TurnType
      <4>2. turn' = [turn EXCEPT ![t] = new]
        BY <3>2, <2>2, <1>1 DEF AnswerWithoutWorker, TypeOK, TurnType
      <4> HIDE DEF new
      <4> QED BY <4>1, <4>2
    <3>3. CASE EndTurn(t)
      <4> DEFINE new == [turn[t] EXCEPT !.pc = "done"]
      <4>1. new \in TurnType /\ new.pc = "done"
        BY <2>2 DEF TurnType, Over
      <4>2. turn' = [turn EXCEPT ![t] = new]
        BY <3>3, <2>2, <1>1 DEF EndTurn, TypeOK, TurnType
      <4> HIDE DEF new
      <4> QED BY <4>1, <4>2
    <3> QED BY <1>3, <3>1, <3>2, <3>3
  <2> QED BY <2>1, <2>3, <2>4, <2>5, TurnMoves
<1> QED BY <1>2, <1>3

LEMMA DispatchKeepsInv ==
  ASSUME Inv, NEW t \in Turns, turn[t].pc \in {"deciding", "reviewing"},
         turn[t].made \in 0..1, Dispatch(t)
  PROVE  Inv'
<1> DEFINE new == NewCall(t, turn[t].copy + 1)
<1>1. TypeOK /\ turn[t] \in TurnType /\ turn[t].session \in Sessions
  BY StartedTurn DEF Inv, TurnType
<1>2. /\ Len(calls) \in Nat /\ CallIds = 1..Len(calls)
      /\ \A c \in CallIds : calls[c] \in CallType
  BY <1>1, CallsAreCalls
<1>3. new \in CallType
  <2>1. tail[turn[t].session] \in Nat
    BY <1>1 DEF TypeOK
  <2> QED BY <1>1, <2>1, WorkerAssumption DEF NewCall, Previous, Mode, CallType
<1>4. calls' = Append(calls, new)
  BY DEF Dispatch
<1>5. /\ new.turn = t /\ new.attempt = 0 /\ new.pc = "waiting"
  BY DEF NewCall
<1> HIDE DEF new
<1>6. /\ calls' \in Seq(CallType) /\ DOMAIN calls' = 1..(Len(calls) + 1)
      /\ calls'[Len(calls) + 1] = new
      /\ \A c \in CallIds : calls'[c] = calls[c]
  BY <1>1, <1>2, <1>3, <1>4, AppendProperties DEF TypeOK
<1>7. /\ turn' \in [Turns -> TurnType \cup {NewTurn}]
      /\ turn'[t].pc = "calling"
      /\ \A u \in Turns \ {t} : turn'[u] = turn[u]
  BY <1>1 DEF Dispatch, TypeOK, TurnType
<1>8. TypeOK'
  <2>1. runs' \in [Sessions -> Nat] /\ tail' \in [Sessions -> Nat]
    BY <1>1, <1>2 DEF Dispatch, SaveCopy, TypeOK, TurnType
  <2> QED BY <2>1, <1>1, <1>6, <1>7 DEF Dispatch, TypeOK
<1>9. TurnOK'
  <2>1. \A c \in CallIds : Outstanding(c) => calls[c].turn \in Turns \ {t}
    BY <1>2 DEF Inv, TurnOK, CallType
  <2>2. \A c \in DOMAIN calls' : c = Len(calls) + 1 \/ c \in CallIds
    BY <1>2, <1>6
  <2> QED BY <2>1, <2>2, <1>5, <1>6, <1>7 DEF Inv, TurnOK, Outstanding
<1>10. AttemptOK'
  BY <1>2, <1>5, <1>6 DEF Inv, AttemptOK
<1>11. LockOK'
  BY <1>1, LockDispatch DEF Inv
<1> QED BY <1>8, <1>9, <1>10, <1>11 DEF Inv

(* A call moves without leaving: it begins an attempt or ends one.         *)
LEMMA CallMoves ==
  ASSUME Inv, NEW c \in CallIds, Outstanding(c),
         NEW new \in CallType, calls' = [calls EXCEPT ![c] = new],
         new.turn = calls[c].turn, new.session = calls[c].session,
         new.prev = calls[c].prev, new.pc \in {"child", "resting"},
         new.pc = "resting" => new.attempt <= MaxRetries,
         Enter(c) \/ Inside(c), begun' \in SUBSET Sessions,
         UNCHANGED <<runs, rt, oldest, enabled, turn, tail, crashes>>
  PROVE  Inv'
<1>1. TypeOK /\ \A d \in CallIds : calls[d] \in CallType
  BY CallsAreCalls DEF Inv
<1>2. calls' \in Seq(CallType) /\ DOMAIN calls' = CallIds
  <2>1. calls' \in [CallIds -> CallType]
    BY <1>1
  <2> QED BY <1>1, <2>1, CallsInPlace
<1>3. calls'[c] = new /\ \A d \in CallIds \ {c} : calls'[d] = calls[d]
  BY <1>1
<1>4. TypeOK'
  BY <1>1, <1>2 DEF TypeOK
<1>5. TurnOK'
  <2>1. \A d \in CallIds : /\ calls'[d].turn = calls[d].turn
                           /\ Outstanding(d)' => Outstanding(d)
    BY <1>3 DEF Outstanding
  <2> QED BY <2>1, <1>2 DEF Inv, TurnOK
<1>6. AttemptOK'
  BY <1>2, <1>3 DEF Inv, AttemptOK
<1>7. LockOK'
  <2>1. Outstanding(c)'
    BY <1>3 DEF Outstanding
  <2> QED BY <2>1, <1>1, <1>2, <1>3, LockMove DEF Inv
<1> QED BY <1>4, <1>5, <1>6, <1>7 DEF Inv

(* A call leaves, and its turn goes on.                                    *)
LEMMA ReleaseKeepsInv ==
  ASSUME Inv, NEW c \in CallIds, Outstanding(c), Enter(c) \/ Inside(c),
         NEW usable \in BOOLEAN, Release(c, usable),
         UNCHANGED <<runs, rt, oldest, enabled, begun, crashes>>
  PROVE  Inv'
<1> DEFINE new == [calls[c] EXCEPT !.pc = "released", !.child = "none"]
           t == calls[c].turn
<1>1. TypeOK /\ \A d \in CallIds : calls[d] \in CallType
  BY CallsAreCalls DEF Inv
<1>2. new \in CallType /\ new.pc = "released"
      /\ new.turn = t /\ new.session = calls[c].session /\ new.prev = calls[c].prev
  BY <1>1 DEF CallType
<1>3. calls' = [calls EXCEPT ![c] = new]
  BY <1>1 DEF Release, CallType
<1> HIDE DEF new
<1>4. calls' \in Seq(CallType) /\ DOMAIN calls' = CallIds
  <2>1. calls' \in [CallIds -> CallType]
    BY <1>1, <1>2, <1>3
  <2> QED BY <1>1, <2>1, CallsInPlace
<1>5. calls'[c] = new /\ \A d \in CallIds \ {c} : calls'[d] = calls[d]
  BY <1>1, <1>3
<1>6. t \in Turns /\ turn[t] \in TurnType /\ turn[t].pc = "calling"
  BY <1>1, StartedTurn DEF Inv, TurnOK, CallType
<1>7. /\ turn' \in [Turns -> TurnType \cup {NewTurn}]
      /\ turn'[t].pc = "reviewing"
      /\ \A u \in Turns \ {t} : turn'[u] = turn[u]
  BY <1>1, <1>6 DEF Release, TypeOK, TurnType
<1>8. tail' = [tail EXCEPT ![calls[c].session] = IF @ = c THEN 0 ELSE @]
  BY DEF Release, Forget
<1>9. TypeOK'
  BY <1>1, <1>4, <1>7, <1>8 DEF TypeOK, CallType
<1>10. ~Outstanding(c)'
  BY <1>2, <1>5 DEF Outstanding
<1>11. TurnOK'
  <2>1. \A d \in CallIds : Outstanding(d)' =>
          /\ Outstanding(d) /\ d # c /\ calls'[d].turn = calls[d].turn
          /\ calls[d].turn \in Turns \ {t}
    <3> SUFFICES ASSUME NEW d \in CallIds, Outstanding(d)'
                 PROVE  /\ Outstanding(d) /\ d # c /\ calls'[d].turn = calls[d].turn
                        /\ calls[d].turn \in Turns \ {t}
      OBVIOUS
    <3>1. d # c /\ calls'[d] = calls[d]
      BY <1>2, <1>5 DEF Outstanding
    <3>2. Outstanding(d)
      BY <3>1 DEF Outstanding
    <3> QED BY <3>1, <3>2, <1>1 DEF Inv, TurnOK, CallType
  <2>2. \A u \in Turns : turn'[u].pc = "deciding" => turn'[u].made = 0
    BY <1>7 DEF Inv, TurnOK
  <2> QED BY <2>1, <2>2, <1>4, <1>7 DEF Inv, TurnOK
<1>12. AttemptOK'
  BY <1>2, <1>4, <1>5 DEF Inv, AttemptOK
<1>13. LockOK'
  <2>1. Passed(c)' => Enter(c) \/ Inside(c) \/ Passed(c)
    OBVIOUS
  <2> QED BY <2>1, <1>1, <1>2, <1>4, <1>5, <1>8, <1>10, LockMove DEF Inv
<1> QED BY <1>9, <1>11, <1>12, <1>13 DEF Inv

LEMMA StartChildKeepsInv ==
  ASSUME Inv, NEW c \in CallIds, Enter(c) \/ calls[c].pc = "resting", StartChild(c)
  PROVE  Inv'
<1> DEFINE new == [calls[c] EXCEPT !.pc = "child", !.child = "runs", !.attempt = @ + 1]
<1>1. TypeOK /\ calls[c] \in CallType
  BY CallsAreCalls DEF Inv
<1>2. calls[c].attempt + 1 \in 0..(MaxRetries + 1)
  BY <1>1, WorkerAssumption DEF Inv, AttemptOK, Enter, CallType
<1>3. new \in CallType /\ new.pc = "child" /\ new.turn = calls[c].turn
      /\ new.session = calls[c].session /\ new.prev = calls[c].prev
  BY <1>1, <1>2 DEF CallType
<1>4. calls' = [calls EXCEPT ![c] = new]
  BY <1>1 DEF StartChild, CallType
<1> HIDE DEF new
<1>5. begun' \in SUBSET Sessions
  BY <1>1 DEF StartChild, TypeOK, CallType
<1>6. Outstanding(c) /\ (Enter(c) \/ Inside(c))
  BY DEF Outstanding, Enter, Inside
<1>7. UNCHANGED <<runs, rt, oldest, enabled, turn, tail, crashes>>
  BY DEF StartChild
<1> QED BY <1>3, <1>4, <1>5, <1>6, <1>7, CallMoves

LEMMA CallStepKeepsInv ==
  ASSUME Inv, NEW c \in CallIds, CallStep(c)
  PROVE  Inv'
<1>1. TypeOK /\ \A d \in CallIds : calls[d] \in CallType
  BY CallsAreCalls DEF Inv
<1>2. CASE Mock(c)
  <2>1. Enter(c) /\ Outstanding(c)
    BY <1>2 DEF Mock, Enter, Outstanding
  <2> QED BY <1>2, <2>1, ReleaseKeepsInv DEF Mock
<1>3. CASE Spawn(c)
  BY <1>3, StartChildKeepsInv DEF Spawn
<1>4. CASE Respawn(c)
  BY <1>4, StartChildKeepsInv DEF Respawn
<1>5. CASE Timeout(c)
  <2> DEFINE new == [calls[c] EXCEPT !.child = "terminated"]
  <2>1. new \in CallType /\ new.pc = "child" /\ new.turn = calls[c].turn
        /\ new.session = calls[c].session /\ new.prev = calls[c].prev
    BY <1>1, <1>5 DEF Timeout, CallType
  <2>2. calls' = [calls EXCEPT ![c] = new]
    BY <1>1, <1>5 DEF Timeout
  <2> HIDE DEF new
  <2>3. Outstanding(c) /\ Inside(c) /\ begun' \in SUBSET Sessions
    BY <1>1, <1>5 DEF Timeout, Outstanding, Inside, TypeOK
  <2>4. UNCHANGED <<runs, rt, oldest, enabled, turn, tail, crashes>>
    BY <1>5 DEF Timeout
  <2> QED BY <2>1, <2>2, <2>3, <2>4, CallMoves
<1>6. CASE SessionBusy(c)
  <2> DEFINE new == [calls[c] EXCEPT !.pc = "resting", !.child = "none"]
  <2>1. new \in CallType /\ new.pc = "resting" /\ new.turn = calls[c].turn
        /\ new.session = calls[c].session /\ new.prev = calls[c].prev
        /\ new.attempt <= MaxRetries
    BY <1>1, <1>6 DEF SessionBusy, MayRetry, CallType
  <2>2. calls' = [calls EXCEPT ![c] = new]
    BY <1>1, <1>6 DEF SessionBusy, CallType
  <2> HIDE DEF new
  <2>3. Outstanding(c) /\ Inside(c) /\ begun' \in SUBSET Sessions
    BY <1>1, <1>6 DEF SessionBusy, Outstanding, Inside, TypeOK
  <2>4. UNCHANGED <<runs, rt, oldest, enabled, turn, tail, crashes>>
    BY <1>6 DEF SessionBusy
  <2> QED BY <2>1, <2>2, <2>3, <2>4, CallMoves
<1>7. CASE ChildEnds(c)
  <2>1. PICK usable \in BOOLEAN : Release(c, usable)
    BY <1>7 DEF ChildEnds
  <2>2. Inside(c) /\ Outstanding(c)
    BY <1>7 DEF ChildEnds, Inside, Outstanding
  <2>3. UNCHANGED <<runs, rt, oldest, enabled, begun, crashes>>
    BY <1>7 DEF ChildEnds
  <2> QED BY <2>1, <2>2, <2>3, ReleaseKeepsInv
<1>8. CASE OrphanEnds(c)
  <2>1. calls' \in [CallIds -> CallType]
    BY <1>1, <1>8 DEF OrphanEnds, CallType
  <2>2. calls' \in Seq(CallType) /\ DOMAIN calls' = CallIds
    BY <1>1, <2>1, CallsInPlace
  <2>3. \A d \in CallIds :
          /\ calls'[d].pc = calls[d].pc /\ calls'[d].session = calls[d].session
          /\ calls'[d].prev = calls[d].prev /\ calls'[d].turn = calls[d].turn
          /\ calls'[d].attempt = calls[d].attempt
    BY <1>1, <1>8 DEF OrphanEnds, CallType
  <2>4. UNCHANGED <<runs, rt, oldest, enabled, turn, tail, begun, crashes>>
    BY <1>8 DEF OrphanEnds
  <2>5. TypeOK'
    BY <1>1, <2>2, <2>4 DEF TypeOK
  <2>6. TurnOK' /\ AttemptOK'
    BY <2>2, <2>3, <2>4 DEF Inv, TurnOK, AttemptOK, Outstanding
  <2>7. LockOK'
    <3>1. calls'[c].session = calls[c].session /\ calls'[c].prev = calls[c].prev
      BY <2>3
    <3>2. \A d \in CallIds \ {c} : calls'[d] = calls[d]
      BY <1>1, <1>8 DEF OrphanEnds
    <3>3. ~Outstanding(c)' /\ ~Outstanding(c) /\ ~Passed(c)'
      BY <1>8, <2>3 DEF OrphanEnds, Outstanding, Passed
    <3> QED BY <3>1, <3>2, <3>3, <1>1, <2>2, <2>4, LockMove DEF Inv
  <2> QED BY <2>5, <2>6, <2>7 DEF Inv
<1> QED BY <1>2, <1>3, <1>4, <1>5, <1>6, <1>7, <1>8 DEF CallStep, OwnStep

(* The gateway is killed: nothing is outstanding, and the map is empty.    *)
LEMMA CrashKeepsInv ==
  ASSUME Inv, Crash
  PROVE  Inv'
<1>1. TypeOK /\ \A d \in CallIds : calls[d] \in CallType
  BY CallsAreCalls DEF Inv
<1>2. \A d \in CallIds :
        /\ calls'[d] \in CallType /\ ~Outstanding(d)'
        /\ calls'[d].session = calls[d].session /\ calls'[d].prev = calls[d].prev
        /\ calls'[d].attempt = calls[d].attempt
        /\ calls'[d].pc \in {calls[d].pc, "dead"}
  BY <1>1 DEF Crash, CallType, Outstanding
<1>3. calls' \in Seq(CallType) /\ DOMAIN calls' = CallIds
  <2>1. calls' \in [CallIds -> CallType]
    BY <1>2 DEF Crash
  <2> QED BY <2>1, <1>1, CallsInPlace
<1>4. /\ turn' \in [Turns -> TurnType \cup {NewTurn}]
      /\ \A t \in Turns : turn'[t].pc # "deciding"
  <2> SUFFICES ASSUME NEW t \in Turns
               PROVE  turn'[t] \in TurnType \cup {NewTurn} /\ turn'[t].pc # "deciding"
    BY DEF Crash
  <2>1. CASE Live(t)
    <3>1. turn[t] \in TurnType
      BY <2>1, <1>1, StartedTurn DEF Live, Unstarted
    <3> QED BY <3>1, <2>1 DEF Crash, TurnType, Over
  <2>2. CASE ~Live(t)
    BY <2>2, <1>1 DEF Crash, Live, Unstarted, TypeOK, Over
  <2> QED BY <2>1, <2>2
<1>5. TypeOK'
  <2>1. tail' \in [Sessions -> Nat] /\ crashes' \in 0..MaxCrashes
    BY <1>1, WorkerAssumption DEF Crash, TypeOK
  <2>2. rt' \in Runtimes /\ oldest' \in 1..rt'
    BY <1>1, WorkerAssumption DEF Crash, TypeOK, Runtimes
  <2> QED BY <2>1, <2>2, <1>1, <1>3, <1>4 DEF Crash, TypeOK
<1>6. TurnOK' /\ AttemptOK'
  BY <1>2, <1>3, <1>4 DEF Inv, TurnOK, AttemptOK
<1>7. LockOK'
  <2>1. PrevOK'
    BY <1>1, <1>2, <1>3, CallsAreCalls DEF Inv, LockOK, PrevOK, SameSession
  <2>2. \A c \in CallIds : \A j \in 1..(c - 1) : j \in CallIds
    BY <1>1, CallsAreCalls
  <2>3. WaitOK' /\ PassOK'
    BY <1>2, <1>3, <2>2 DEF WaitOK, PassOK
  <2>4. TailOK'
    BY <1>2, <1>3 DEF TailOK, Crash
  <2> QED BY <2>1, <2>3, <2>4 DEF LockOK
<1> QED BY <1>5, <1>6, <1>7 DEF Inv

LEMMA InvNext ==
  ASSUME Inv, [Next]_vars
  PROVE  Inv'
<1>1. ASSUME NEW t \in Turns, Escalate(t) \/ FollowUp(t)
      PROVE  Inv'
  <2>1. turn[t].pc \in {"deciding", "reviewing"} /\ turn[t].made \in 0..1 /\ Dispatch(t)
    BY <1>1 DEF Inv, TurnOK, Escalate, FollowUp
  <2> QED BY <2>1, DispatchKeepsInv
<1>2. CASE Reload
  <2>1. TypeOK'
    BY <1>2, WorkerAssumption DEF Inv, Reload, TypeOK, Runtimes
  <2>2. TurnOK' /\ AttemptOK'
    BY <1>2 DEF Inv, Reload, TurnOK, AttemptOK, Outstanding
  <2>3. LockOK'
    BY <1>2, LockUnchanged DEF Inv, Reload
  <2> QED BY <2>1, <2>2, <2>3 DEF Inv
<1>3. CASE UNCHANGED vars
  <2>1. TypeOK' /\ TurnOK' /\ AttemptOK'
    BY <1>3 DEF vars, Inv, TypeOK, TurnOK, AttemptOK, Outstanding
  <2>2. LockOK'
    BY <1>3, LockUnchanged DEF vars, Inv
  <2> QED BY <2>1, <2>2 DEF Inv
<1> QED BY <1>1, <1>2, <1>3, TurnStepKeepsInv, CallStepKeepsInv, CrashKeepsInv
        DEF Next, TurnStep

LEMMA InvHolds == Spec => []Inv
  BY InvInit, InvNext, PTL DEF Spec

-----------------------------------------------------------------------------
(* Theorems. *)

(* Every variable keeps its type: in particular no call makes more than    *)
(* MaxRetries + 1 attempts, no turn more than two calls.                   *)
THEOREM WorkerTypeCorrect == Spec => []TypeOK
<1>1. Inv => TypeOK
  BY DEF Inv
<1> QED BY <1>1, InvHolds, PTL

(* The static map of promises serialises a Claude session over the turns   *)
(* and runtimes of one gateway, through reloads and kills: of the calls of *)
(* a session one at most is past the lock.                                 *)
THEOREM OneChild == Spec => []OneChildPerSession
<1>1. ASSUME Inv PROVE OneChildPerSession
  <2> SUFFICES ASSUME NEW c \in CallIds, NEW d \in CallIds,
                      Inside(c), Inside(d), SameSession(c, d), c # d
               PROVE  FALSE
    BY DEF OneChildPerSession, SameSession
  <2>1. CallIds \subseteq Nat /\ \A i, j \in CallIds : i < j => i \in 1..(j - 1)
    BY <1>1, CallsAreCalls DEF Inv
  <2>2. \A i, j \in CallIds : Inside(i) /\ Inside(j) /\ SameSession(i, j) => ~(i < j)
    BY <1>1, <2>1 DEF Inv, LockOK, PassOK, Inside, Passed, Outstanding
  <2> QED BY <2>1, <2>2 DEF SameSession
<1> QED BY <1>1, InvHolds, PTL

(* `finally' deletes the entry of a session only if it is still its own:   *)
(* the map holds an entry for exactly the sessions with a call.            *)
THEOREM MapIsExact == Spec => []MapHoldsOutstandingCalls
<1>1. ASSUME Inv PROVE MapHoldsOutstandingCalls
  <2>1. CallIds \subseteq Nat \ {0}
    BY <1>1, CallsAreCalls DEF Inv
  <2>2. TailOK /\ tail \in [Sessions -> Nat]
    BY <1>1 DEF Inv, LockOK, TypeOK
  <2> QED BY <2>1, <2>2 DEF MapHoldsOutstandingCalls, TailOK
<1> QED BY <1>1, InvHolds, PTL

-----------------------------------------------------------------------------
(* One begin per session while the configuration stays.                    *)

Begins(c) == calls[c].mode = "session-id"

(* Before the first reload a case has one live turn, whose copy holds as   *)
(* many runs as the file, and the file of a begun session holds a run.     *)
BegunOK ==
  rt = 1 =>
    /\ \A t \in Turns : Live(t) => turn[t].rt = 1 /\ turn[t].copy = runs[turn[t].session]
    /\ \A t, u \in Turns : Live(t) /\ Live(u) /\ turn[t].session = turn[u].session => t = u
    /\ \A c \in CallIds : Begins(c) => runs[calls[c].session] # 0
    /\ SessionIsBegunOnce

(* Turns end or go on, calls move, the gateway is killed or reloaded.      *)
LEMMA BegunStays ==
  ASSUME Inv, BegunOK, DOMAIN calls' = CallIds, rt' = 1 => rt = 1,
         \A c \in CallIds : calls'[c].mode = calls[c].mode /\ calls'[c].session = calls[c].session,
         \A u \in Turns : Live(u)' =>
           /\ Live(u) /\ turn'[u].rt = turn[u].rt
           /\ turn'[u].session = turn[u].session /\ turn'[u].copy = turn[u].copy,
         runs' = runs
  PROVE  BegunOK'
<1> SUFFICES ASSUME rt' = 1
    PROVE  /\ \A t \in Turns : Live(t)' => turn'[t].rt = 1 /\ turn'[t].copy = runs[turn'[t].session]
           /\ \A t, u \in Turns :
                Live(t)' /\ Live(u)' /\ turn'[t].session = turn'[u].session => t = u
           /\ \A c \in CallIds : Begins(c)' => runs[calls'[c].session] # 0
           /\ SessionIsBegunOnce'
  BY DEF BegunOK
<1>1. /\ \A t \in Turns : Live(t) => turn[t].rt = 1 /\ turn[t].copy = runs[turn[t].session]
      /\ \A t, u \in Turns : Live(t) /\ Live(u) /\ turn[t].session = turn[u].session => t = u
      /\ \A c \in CallIds : Begins(c) => runs[calls[c].session] # 0
      /\ \A c, d \in CallIds : Begins(c) /\ Begins(d) /\ SameSession(c, d) => c = d
  BY DEF BegunOK, SessionIsBegunOnce, Begins, SameSession
<1>2. \A c \in CallIds : Begins(c)' <=> Begins(c)
  BY DEF Begins
<1>3. SessionIsBegunOnce'
  BY <1>1 DEF SessionIsBegunOnce, Begins, SameSession
<1> QED BY <1>1, <1>2, <1>3

(* The one live turn of a case saves its copy, with n runs.                *)
LEMMA BegunSaved ==
  ASSUME Inv, BegunOK, NEW t \in Turns, Live(t), UNCHANGED <<rt, calls>>,
         NEW n \in Nat, n >= turn[t].copy, SaveCopy(t, n),
         \A u \in Turns \ {t} : turn'[u] = turn[u],
         Live(t)' => /\ turn'[t].rt = turn[t].rt /\ turn'[t].session = turn[t].session
                     /\ turn'[t].copy = n
  PROVE  BegunOK'
<1> DEFINE s == turn[t].session
<1>1. s \in Sessions /\ runs \in [Sessions -> Nat] /\ turn[t].copy \in Nat
  BY StartedTurn DEF Inv, TypeOK, Live, Unstarted, TurnType
<1>2. /\ runs' = [runs EXCEPT ![s] = n]
      /\ \A r \in Sessions : runs'[r] = IF r = s THEN n ELSE runs[r]
  BY <1>1 DEF SaveCopy
<1> SUFFICES ASSUME rt = 1 PROVE BegunOK'
  BY DEF BegunOK
<1>3. /\ \A u \in Turns : Live(u) => turn[u].rt = 1 /\ turn[u].copy = runs[turn[u].session]
      /\ \A u, v \in Turns : Live(u) /\ Live(v) /\ turn[u].session = turn[v].session => u = v
      /\ \A c \in CallIds : Begins(c) => runs[calls[c].session] # 0
      /\ SessionIsBegunOnce
  BY DEF BegunOK
<1>4. \A u \in Turns \ {t} : /\ Live(u)' <=> Live(u)
                             /\ Live(u) => turn[u].session # s /\ turn[u].session \in Sessions
  <2>1. \A u \in Turns \ {t} : Live(u) => turn[u].session # s
    BY <1>3
  <2>2. \A u \in Turns : Live(u) => turn[u].session \in Sessions
    BY StartedTurn DEF Inv, Live, Unstarted, TurnType
  <2> QED BY <2>1, <2>2 DEF Live, Unstarted
<1>5. \A u \in Turns : Live(u)' => turn'[u].rt = 1 /\ turn'[u].copy = runs'[turn'[u].session]
  BY <1>1, <1>2, <1>3, <1>4
<1>6. \A u, v \in Turns : Live(u)' /\ Live(v)' /\ turn'[u].session = turn'[v].session => u = v
  BY <1>3, <1>4
<1>7. \A c \in CallIds : Begins(c) => runs'[calls[c].session] # 0
  <2> SUFFICES ASSUME NEW c \in CallIds, Begins(c) PROVE runs'[calls[c].session] # 0
    OBVIOUS
  <2>1. calls[c].session \in Sessions
    BY CallsAreCalls DEF Inv, CallType
  <2> QED BY <1>1, <1>2, <1>3, <2>1
<1>8. SessionIsBegunOnce'
  BY <1>3 DEF SessionIsBegunOnce
<1> QED BY <1>5, <1>6, <1>7, <1>8 DEF BegunOK, Begins

LEMMA BegunDispatch ==
  ASSUME Inv, BegunOK, NEW t \in Turns, turn[t].pc \in {"deciding", "reviewing"}, Dispatch(t)
  PROVE  BegunOK'
<1> DEFINE s == turn[t].session
           n == turn[t].copy + 1
           k == Len(calls) + 1
<1>1. /\ turn[t] \in TurnType /\ s \in Sessions /\ turn[t].copy \in Nat /\ Live(t)
      /\ runs \in [Sessions -> Nat]
      /\ turn \in [Turns -> TurnType \cup {NewTurn}]
  BY StartedTurn DEF Inv, TypeOK, Live, Unstarted, Over, TurnType
<1>2. /\ Len(calls) \in Nat /\ CallIds = 1..Len(calls)
      /\ \A c \in CallIds : calls[c] \in CallType
  BY CallsAreCalls DEF Inv
<1>3. NewCall(t, n) \in CallType /\ NewCall(t, n).session = s
      /\ NewCall(t, n).mode = Mode(n)
  <2>1. tail[s] \in Nat
    BY <1>1 DEF Inv, TypeOK
  <2> QED BY <1>1, <2>1, WorkerAssumption DEF NewCall, Previous, Mode, CallType
<1>4. /\ DOMAIN calls' = 1..k /\ calls'[k] = NewCall(t, n)
      /\ \A c \in CallIds : calls'[c] = calls[c]
  BY <1>2, <1>3, AppendProperties, LenProperties DEF Dispatch, Inv, TypeOK
<1>5. /\ turn'[t].rt = turn[t].rt /\ turn'[t].session = s /\ turn'[t].copy = n
      /\ \A u \in Turns \ {t} : turn'[u] = turn[u]
  BY <1>1 DEF Dispatch, TurnType
<1>6. \A r \in Sessions : runs'[r] = IF r = s THEN n ELSE runs[r]
  BY <1>1 DEF Dispatch, SaveCopy
<1>7. rt' = rt
  BY DEF Dispatch
<1> SUFFICES ASSUME rt = 1 PROVE BegunOK'
  BY <1>7 DEF BegunOK
<1>8. /\ \A u \in Turns : Live(u) => turn[u].rt = 1 /\ turn[u].copy = runs[turn[u].session]
      /\ \A u, v \in Turns : Live(u) /\ Live(v) /\ turn[u].session = turn[v].session => u = v
      /\ \A c \in CallIds : Begins(c) => runs[calls[c].session] # 0
      /\ \A c, d \in CallIds : Begins(c) /\ Begins(d) /\ SameSession(c, d) => c = d
  BY DEF BegunOK, SessionIsBegunOnce, Begins, SameSession
<1>9. \A u \in Turns \ {t} : /\ Live(u)' <=> Live(u)
                             /\ Live(u) => turn[u].session # s /\ turn[u].session \in Sessions
  <2>1. \A u \in Turns \ {t} : Live(u) => turn[u].session # s
    BY <1>1, <1>8
  <2>2. \A u \in Turns : Live(u) => turn[u].session \in Sessions
    BY StartedTurn DEF Inv, Live, Unstarted, TurnType
  <2> QED BY <1>5, <2>1, <2>2 DEF Live, Unstarted
<1> HIDE DEF n, k
<1>10. \A u \in Turns : Live(u)' => turn'[u].rt = 1 /\ turn'[u].copy = runs'[turn'[u].session]
  BY <1>1, <1>5, <1>6, <1>8, <1>9
<1>11. \A u, v \in Turns : Live(u)' /\ Live(v)' /\ turn'[u].session = turn'[v].session => u = v
  BY <1>5, <1>8, <1>9
<1>12. n # 0 /\ k \notin CallIds /\ 1..k = CallIds \cup {k}
  BY <1>1, <1>2 DEF n, k
<1>13. ASSUME NEW c \in CallIds, Begins(c) PROVE calls[c].session # s \/ n # 1
  BY <1>1, <1>8, <1>13 DEF n
<1>14. \A c \in 1..k : Begins(c)' => runs'[calls'[c].session] # 0
  <2>1. \A c \in CallIds : Begins(c)' => Begins(c) /\ calls'[c].session = calls[c].session
                                        /\ calls[c].session \in Sessions
    BY <1>2, <1>4 DEF Begins, CallType
  <2>2. calls'[k].session \in Sessions /\ calls'[k].session = s
    BY <1>1, <1>3, <1>4
  <2> QED BY <1>6, <1>8, <1>12, <2>1, <2>2
<1>15. \A c, d \in 1..k : Begins(c)' /\ Begins(d)' /\ SameSession(c, d)' => c = d
  <2>1. calls'[k].mode = "session-id" => n = 1
    BY <1>3, <1>4 DEF Mode
  <2>2. \A c \in CallIds : Begins(c)' => Begins(c) /\ calls'[c].session = calls[c].session
    BY <1>4 DEF Begins
  <2>3. calls'[k].session = s
    BY <1>3, <1>4
  <2>4. ASSUME NEW c \in 1..k, NEW d \in 1..k, Begins(c)', Begins(d)', SameSession(c, d)'
        PROVE  c = d
    <3>1. CASE c \in CallIds /\ d \in CallIds
      BY <1>8, <2>2, <2>4, <3>1 DEF SameSession
    <3>2. CASE c = k /\ d \in CallIds
      BY <1>13, <2>1, <2>2, <2>3, <2>4, <3>2 DEF SameSession, Begins
    <3>3. CASE c \in CallIds /\ d = k
      BY <1>13, <2>1, <2>2, <2>3, <2>4, <3>3 DEF SameSession, Begins
    <3> QED BY <1>12, <3>1, <3>2, <3>3
  <2> QED BY <2>4
<1> QED BY <1>4, <1>10, <1>11, <1>14, <1>15
        DEF BegunOK, SessionIsBegunOnce, Begins, SameSession

LEMMA BegunStart ==
  ASSUME Inv, BegunOK, NEW t \in Turns, StartTurn(t)
  PROVE  BegunOK'
<1>1. PICK s \in Sessions, r \in oldest..rt :
        /\ \A u \in Turns : Live(u) => <<turn[u].session, turn[u].rt>> # <<s, r>>
        /\ turn' = [turn EXCEPT ![t] = [pc |-> "deciding", session |-> s, rt |-> r,
                                        copy |-> runs[s], made |-> 0, usable |-> FALSE]]
  BY DEF StartTurn
<1>2. turn \in [Turns -> TurnType \cup {NewTurn}] /\ rt \in Nat /\ oldest \in 1..rt
  BY WorkerAssumption DEF Inv, TypeOK, Runtimes
<1>3. UNCHANGED <<runs, rt, calls>>
  BY DEF StartTurn
<1>4. /\ turn'[t].session = s /\ turn'[t].rt = r /\ turn'[t].copy = runs[s]
      /\ \A u \in Turns \ {t} : turn'[u] = turn[u]
  BY <1>1, <1>2
<1> SUFFICES ASSUME rt = 1 PROVE BegunOK'
  BY <1>3 DEF BegunOK
<1>5. /\ \A u \in Turns : Live(u) => turn[u].rt = 1 /\ turn[u].copy = runs[turn[u].session]
      /\ \A u, v \in Turns : Live(u) /\ Live(v) /\ turn[u].session = turn[v].session => u = v
      /\ \A c \in CallIds : Begins(c) => runs[calls[c].session] # 0
      /\ SessionIsBegunOnce
  BY DEF BegunOK
<1>6. r = 1 /\ \A u \in Turns : Live(u) => turn[u].session # s
  <2>1. r = 1
    BY <1>2
  <2> QED BY <1>1, <1>5, <2>1
<1>7. \A u \in Turns \ {t} : Live(u)' <=> Live(u)
  BY <1>4 DEF Live, Unstarted
<1>8. \A u \in Turns : Live(u)' => turn'[u].rt = 1 /\ turn'[u].copy = runs[turn'[u].session]
  BY <1>4, <1>5, <1>6, <1>7
<1>9. \A u, v \in Turns : Live(u)' /\ Live(v)' /\ turn'[u].session = turn'[v].session => u = v
  BY <1>4, <1>5, <1>6, <1>7
<1>10. SessionIsBegunOnce'
  BY <1>3, <1>5 DEF SessionIsBegunOnce
<1> QED BY <1>3, <1>5, <1>8, <1>9, <1>10 DEF BegunOK, Begins

(* What a step of a call leaves of the calls and the turns. *)
LEMMA CallStepEffect ==
  ASSUME Inv, NEW c \in CallIds, CallStep(c)
  PROVE  /\ DOMAIN calls' = CallIds
         /\ \A d \in CallIds : /\ calls'[d].mode = calls[d].mode /\ calls'[d].turn = calls[d].turn
                               /\ calls'[d].session = calls[d].session
         /\ \A u \in Turns : /\ turn'[u].pc = "new" <=> turn[u].pc = "new"
                             /\ Live(u)' <=> Live(u)
                             /\ turn[u].pc # "new" =>
                                  /\ turn'[u].rt = turn[u].rt /\ turn'[u].made = turn[u].made
                                  /\ turn'[u].session = turn[u].session
                                  /\ turn'[u].copy = turn[u].copy
         /\ UNCHANGED <<runs, rt>>
<1>1. /\ TypeOK /\ \A d \in CallIds : calls[d] \in CallType
      /\ turn \in [Turns -> TurnType \cup {NewTurn}]
  BY CallsAreCalls DEF Inv, TypeOK
<1>2. UNCHANGED <<runs, rt>>
  BY DEF CallStep, OwnStep, Mock, Spawn, StartChild, Timeout, Respawn, SessionBusy, ChildEnds,
         OrphanEnds
<1>3. ASSUME NEW usable, Release(c, usable), Outstanding(c)
      PROVE  /\ \A d \in CallIds : /\ calls'[d].mode = calls[d].mode
                                   /\ calls'[d].turn = calls[d].turn
                                   /\ calls'[d].session = calls[d].session
             /\ DOMAIN calls' = CallIds
             /\ \A u \in Turns : turn'[u] = turn[u] \/ (u = calls[c].turn /\
                  turn'[u] = [turn[u] EXCEPT !.pc = "reviewing", !.usable = usable])
             /\ turn[calls[c].turn].pc = "calling"
  <2>1. turn[calls[c].turn].pc = "calling"
    BY <1>3 DEF Inv, TurnOK
  <2>2. \A d \in CallIds : /\ calls'[d].mode = calls[d].mode /\ calls'[d].turn = calls[d].turn
                           /\ calls'[d].session = calls[d].session
    BY <1>1, <1>3 DEF Release, CallType
  <2> QED BY <1>1, <1>3, <2>1, <2>2 DEF Release
<1>4. ASSUME NEW usable, Release(c, usable), Outstanding(c), NEW u \in Turns
      PROVE  /\ turn'[u].pc = "new" <=> turn[u].pc = "new"
             /\ Live(u)' <=> Live(u)
             /\ turn[u].pc # "new" =>
                  /\ turn'[u].rt = turn[u].rt /\ turn'[u].made = turn[u].made
                  /\ turn'[u].session = turn[u].session /\ turn'[u].copy = turn[u].copy
  <2>1. CASE turn'[u] = turn[u]
    BY <2>1 DEF Live, Unstarted
  <2>2. CASE /\ turn[u].pc = "calling"
             /\ turn'[u] = [turn[u] EXCEPT !.pc = "reviewing", !.usable = usable]
    <3>1. turn[u] \in TurnType
      BY <1>1, <2>2, StartedTurn
    <3> QED BY <2>2, <3>1 DEF TurnType, Live, Unstarted, Over
  <2> QED BY <1>3, <1>4, <2>1, <2>2
<1>5. CASE Mock(c)
  <2>1. Release(c, FALSE) /\ Outstanding(c)
    BY <1>5 DEF Mock, Enter, Outstanding
  <2> QED BY <1>2, <1>3, <1>4, <2>1
<1>6. CASE ChildEnds(c)
  <2>1. PICK usable : Release(c, usable) /\ Outstanding(c)
    BY <1>6 DEF ChildEnds, Outstanding
  <2> QED BY <1>2, <1>3, <1>4, <2>1
<1>7. CASE Spawn(c) \/ Respawn(c) \/ Timeout(c) \/ SessionBusy(c) \/ OrphanEnds(c)
  <2>1. turn' = turn
    BY <1>7 DEF Spawn, Respawn, StartChild, Timeout, SessionBusy, OrphanEnds
  <2>2. /\ DOMAIN calls' = CallIds
        /\ \A d \in CallIds \ {c} : calls'[d] = calls[d]
        /\ calls'[c].mode = calls[c].mode /\ calls'[c].turn = calls[c].turn
        /\ calls'[c].session = calls[c].session
    BY <1>1, <1>7 DEF Spawn, Respawn, StartChild, Timeout, SessionBusy, OrphanEnds, CallType
  <2> QED BY <1>2, <2>1, <2>2 DEF Live, Unstarted
<1> QED BY <1>5, <1>6, <1>7 DEF CallStep, OwnStep

LEMMA BegunNext ==
  ASSUME Inv, BegunOK, [Next]_vars
  PROVE  BegunOK'
<1>1. /\ turn \in [Turns -> TurnType \cup {NewTurn}] /\ rt \in Nat \ {0}
      /\ \A c \in CallIds : calls[c] \in CallType
  BY CallsAreCalls, WorkerAssumption DEF Inv, TypeOK, Runtimes
<1>2. ASSUME NEW t \in Turns, StartTurn(t) PROVE BegunOK'
  BY <1>2, BegunStart
<1>3. ASSUME NEW t \in Turns, Record(t) \/ AnswerWithoutWorker(t) \/ EndTurn(t) PROVE BegunOK'
  <2>1. turn[t] \in TurnType /\ Live(t) /\ turn[t].copy \in Nat
    BY <1>1, <1>3, StartedTurn
       DEF Inv, Record, AnswerWithoutWorker, EndTurn, Live, Unstarted, Over, TurnType
  <2>2. CASE Record(t)
    BY <2>1, <2>2, BegunSaved DEF Record
  <2>3. CASE AnswerWithoutWorker(t)
    <3>1. /\ turn'[t].rt = turn[t].rt /\ turn'[t].session = turn[t].session
          /\ turn'[t].copy = turn[t].copy + 1
          /\ \A u \in Turns \ {t} : turn'[u] = turn[u]
      BY <1>1, <2>1, <2>3 DEF AnswerWithoutWorker, TurnType
    <3>2. SaveCopy(t, turn[t].copy + 1) /\ UNCHANGED <<rt, calls>>
      BY <2>3 DEF AnswerWithoutWorker
    <3> QED BY <2>1, <3>1, <3>2, BegunSaved
  <2>4. CASE EndTurn(t)
    <3>1. /\ turn'[t].pc = "done" /\ ~Live(t)' /\ UNCHANGED <<rt, calls>>
          /\ \A u \in Turns \ {t} : turn'[u] = turn[u]
      BY <1>1, <2>1, <2>4 DEF EndTurn, Live, Over, TurnType
    <3>2. CASE SaveCopy(t, turn[t].copy)
      BY <2>1, <3>1, <3>2, BegunSaved
    <3>3. CASE UNCHANGED runs
      BY <3>1, <3>3, BegunStays DEF Live, Unstarted
    <3> QED BY <2>4, <3>2, <3>3 DEF EndTurn
  <2> QED BY <1>3, <2>2, <2>3, <2>4
<1>4. ASSUME NEW t \in Turns, Escalate(t) \/ FollowUp(t) PROVE BegunOK'
  BY <1>4, BegunDispatch DEF Escalate, FollowUp
<1>5. ASSUME NEW c \in CallIds, CallStep(c) PROVE BegunOK'
  BY <1>5, CallStepEffect, BegunStays DEF Live, Unstarted
<1>6. CASE Reload
  BY <1>1, <1>6 DEF Reload, BegunOK
<1>7. CASE Crash
  <2>1. \A u \in Turns : Live(u)' => /\ Live(u) /\ turn'[u] = turn[u]
    <3> SUFFICES ASSUME NEW u \in Turns, Live(u)' PROVE Live(u) /\ turn'[u] = turn[u]
      OBVIOUS
    <3>1. CASE Live(u)
      <4>1. turn[u] \in TurnType
        BY <1>1, <3>1 DEF Live, Unstarted, NewTurn
      <4>2. turn'[u].pc = "dead"
        BY <1>7, <3>1, <4>1 DEF Crash, TurnType
      <4> QED BY <4>2 DEF Live, Over
    <3>2. CASE ~Live(u)
      BY <1>7, <3>2 DEF Crash, Live, Unstarted
    <3> QED BY <3>1, <3>2
  <2>2. /\ DOMAIN calls' = CallIds
        /\ \A c \in CallIds : /\ calls'[c].mode = calls[c].mode
                              /\ calls'[c].session = calls[c].session
    BY <1>1, <1>7 DEF Crash, CallType
  <2>3. UNCHANGED <<runs, rt>>
    BY <1>7 DEF Crash
  <2> QED BY <2>1, <2>2, <2>3, BegunStays
<1>8. CASE UNCHANGED vars
  BY <1>8, BegunStays DEF vars, Live, Unstarted
<1> QED BY <1>2, <1>3, <1>4, <1>5, <1>6, <1>7, <1>8 DEF Next, TurnStep

(* While the configuration stays, the numbering of the runs makes one call *)
(* of a case, of all its turns, the one that begins its Claude session.    *)
THEOREM BegunOnce == Spec => []SessionIsBegunOnce
<1>1. Init => BegunOK
  <2> SUFFICES ASSUME Init PROVE BegunOK
    OBVIOUS
  <2>1. CallIds = {} /\ \A t \in Turns : ~Live(t)
    BY DEF Init, Live, Unstarted, NewTurn
  <2> QED BY <2>1 DEF BegunOK, SessionIsBegunOnce
<1>2. Inv /\ BegunOK /\ [Next]_vars => BegunOK'
  BY BegunNext
<1>3. BegunOK => SessionIsBegunOnce
  BY DEF BegunOK, SessionIsBegunOnce
<1> QED BY <1>1, <1>2, <1>3, InvHolds, PTL DEF Spec

-----------------------------------------------------------------------------
(* A turn makes two calls at most, so there are never more than MaxCalls.  *)

CountOK ==
  /\ \A c \in CallIds : turn[calls[c].turn].pc # "new" /\ turn[calls[c].turn].made # 0
  /\ \A c, d \in CallIds :
       calls[c].turn = calls[d].turn /\ turn[calls[c].turn].made = 1 => c = d
  /\ \A c, d, e \in CallIds :
       calls[c].turn = calls[d].turn /\ calls[d].turn = calls[e].turn
         => c = d \/ d = e \/ c = e

LEMMA CountStays ==
  ASSUME Inv, CountOK, DOMAIN calls' = CallIds,
         \A c \in CallIds : calls'[c].turn = calls[c].turn,
         \A u \in Turns : turn[u].pc # "new" =>
           turn'[u].pc # "new" /\ turn'[u].made = turn[u].made
  PROVE  CountOK'
<1>1. \A c \in CallIds : calls[c].turn \in Turns
  BY CallsAreCalls DEF Inv, CallType
<1> QED BY <1>1 DEF CountOK

LEMMA CountDispatch ==
  ASSUME Inv, CountOK, NEW t \in Turns, Dispatch(t),
         turn[t].pc \in {"deciding", "reviewing"}, turn[t].made \in 0..1
  PROVE  CountOK'
<1> DEFINE k == Len(calls) + 1
           new == NewCall(t, turn[t].copy + 1)
<1>1. /\ turn[t] \in TurnType /\ turn \in [Turns -> TurnType \cup {NewTurn}]
      /\ Len(calls) \in Nat /\ CallIds = 1..Len(calls)
      /\ \A c \in CallIds : calls[c].turn \in Turns
  BY StartedTurn, CallsAreCalls DEF Inv, TypeOK, CallType
<1>2. new \in CallType /\ new.turn = t
  <2>1. turn[t].session \in Sessions /\ tail[turn[t].session] \in Nat /\ turn[t].copy \in Nat
    BY <1>1 DEF Inv, TypeOK, TurnType
  <2> QED BY <2>1, WorkerAssumption DEF NewCall, Previous, Mode, CallType
<1>3. /\ DOMAIN calls' = 1..k /\ calls'[k] = new
      /\ \A c \in CallIds : calls'[c] = calls[c]
  BY <1>1, <1>2, AppendProperties, LenProperties DEF Dispatch, Inv, TypeOK
<1>4. /\ turn'[t].pc = "calling" /\ turn'[t].made = turn[t].made + 1
      /\ \A u \in Turns \ {t} : turn'[u] = turn[u]
  BY <1>1 DEF Dispatch, TurnType
<1>5. 1..k = CallIds \cup {k} /\ k \notin CallIds
  BY <1>1
<1>6. calls'[k].turn = t
  BY <1>2, <1>3
<1> HIDE DEF k, new
<1>7. /\ \A c \in CallIds : calls[c].turn = t => turn[t].made = 1
      /\ \A c, d \in CallIds : calls[c].turn = t /\ calls[d].turn = t => c = d
  BY DEF CountOK
<1>8. \A c \in 1..k : turn'[calls'[c].turn].pc # "new" /\ turn'[calls'[c].turn].made # 0
  <2>1. \A c \in CallIds : turn'[calls[c].turn].pc # "new" /\ turn'[calls[c].turn].made # 0
    <3> SUFFICES ASSUME NEW c \in CallIds
                 PROVE  turn'[calls[c].turn].pc # "new" /\ turn'[calls[c].turn].made # 0
      OBVIOUS
    <3>1. CASE calls[c].turn = t
      BY <1>4, <3>1
    <3>2. CASE calls[c].turn # t
      BY <1>1, <1>4, <3>2 DEF CountOK
    <3> QED BY <3>1, <3>2
  <2> QED BY <1>3, <1>4, <1>5, <1>6, <2>1
<1>9. \A c, d \in 1..k :
        calls'[c].turn = calls'[d].turn /\ turn'[calls'[c].turn].made = 1 => c = d
  <2> SUFFICES ASSUME NEW c \in 1..k, NEW d \in 1..k, calls'[c].turn = calls'[d].turn,
                      turn'[calls'[c].turn].made = 1
               PROVE  c = d
    OBVIOUS
  <2>1. CASE calls'[c].turn = t
    <3>1. turn[t].made = 0
      BY <1>4, <2>1
    <3>2. \A e \in 1..k : calls'[e].turn = t => e = k
      BY <1>3, <1>5, <1>7, <3>1
    <3> QED BY <2>1, <3>2
  <2>2. CASE calls'[c].turn # t
    <3>1. c \in CallIds /\ d \in CallIds
      BY <1>5, <1>6, <2>2
    <3>2. calls[c].turn = calls[d].turn /\ calls[c].turn # t
      BY <1>3, <2>2, <3>1
    <3>3. turn'[calls[c].turn] = turn[calls[c].turn]
      BY <1>1, <1>4, <3>1, <3>2
    <3>4. turn[calls[c].turn].made = 1
      BY <1>3, <3>1, <3>3
    <3> QED BY <3>1, <3>2, <3>4 DEF CountOK
  <2> QED BY <2>1, <2>2
<1>10. \A c, d, e \in 1..k :
         calls'[c].turn = calls'[d].turn /\ calls'[d].turn = calls'[e].turn
           => c = d \/ d = e \/ c = e
  <2> SUFFICES ASSUME NEW c \in 1..k, NEW d \in 1..k, NEW e \in 1..k,
                      calls'[c].turn = calls'[d].turn, calls'[d].turn = calls'[e].turn
               PROVE  c = d \/ d = e \/ c = e
    OBVIOUS
  <2>1. CASE calls'[c].turn = t
    <3>1. \A i, j \in 1..k : i # k /\ j # k /\ calls'[i].turn = t /\ calls'[j].turn = t => i = j
      BY <1>3, <1>5, <1>7
    <3> QED BY <2>1, <3>1
  <2>2. CASE calls'[c].turn # t
    <3>1. c \in CallIds /\ d \in CallIds /\ e \in CallIds
      BY <1>5, <1>6, <2>2
    <3> QED BY <1>3, <3>1 DEF CountOK
  <2> QED BY <2>1, <2>2
<1> QED BY <1>3, <1>8, <1>9, <1>10 DEF CountOK

LEMMA CountNext ==
  ASSUME Inv, CountOK, [Next]_vars
  PROVE  CountOK'
<1>1. turn \in [Turns -> TurnType \cup {NewTurn}] /\ \A c \in CallIds : calls[c] \in CallType
  BY CallsAreCalls DEF Inv, TypeOK
<1>2. ASSUME NEW t \in Turns, StartTurn(t) PROVE CountOK'
  BY <1>1, <1>2, CountStays DEF StartTurn, Unstarted
<1>3. ASSUME NEW t \in Turns, Record(t) \/ AnswerWithoutWorker(t) \/ EndTurn(t) PROVE CountOK'
  <2>1. /\ turn'[t].pc # "new" /\ turn'[t].made = turn[t].made /\ calls' = calls
        /\ \A u \in Turns \ {t} : turn'[u] = turn[u]
    <3>1. turn[t].pc \in {"deciding", "reviewing"}
      BY <1>3 DEF Record, AnswerWithoutWorker, EndTurn
    <3>2. turn[t] \in TurnType
      BY <1>1, <3>1, StartedTurn DEF Inv
    <3> QED BY <1>1, <1>3, <3>1, <3>2 DEF Record, AnswerWithoutWorker, EndTurn, TurnType
  <2> QED BY <2>1, CountStays
<1>4. ASSUME NEW t \in Turns, Escalate(t) \/ FollowUp(t) PROVE CountOK'
  <2>1. turn[t].pc \in {"deciding", "reviewing"} /\ turn[t].made \in 0..1 /\ Dispatch(t)
    BY <1>4 DEF Inv, TurnOK, Escalate, FollowUp
  <2> QED BY <2>1, CountDispatch
<1>5. ASSUME NEW c \in CallIds, CallStep(c) PROVE CountOK'
  BY <1>5, CallStepEffect, CountStays
<1>6. CASE Reload
  BY <1>6, CountStays DEF Reload
<1>7. CASE Crash
  <2>1. \A u \in Turns : turn[u].pc # "new" => turn'[u].pc # "new" /\ turn'[u].made = turn[u].made
    <3> SUFFICES ASSUME NEW u \in Turns, turn[u].pc # "new"
                 PROVE  turn'[u].pc # "new" /\ turn'[u].made = turn[u].made
      OBVIOUS
    <3>1. turn[u] \in TurnType
      BY <1>1 DEF NewTurn
    <3>2. CASE Live(u)
      BY <1>7, <3>1, <3>2 DEF Crash, TurnType
    <3>3. CASE ~Live(u)
      BY <1>7, <3>3 DEF Crash
    <3> QED BY <3>2, <3>3
  <2>2. DOMAIN calls' = CallIds /\ \A c \in CallIds : calls'[c].turn = calls[c].turn
    BY <1>1, <1>7 DEF Crash, CallType
  <2> QED BY <2>1, <2>2, CountStays
<1>8. CASE UNCHANGED vars
  BY <1>8, CountStays DEF vars
<1> QED BY <1>2, <1>3, <1>4, <1>5, <1>6, <1>7, <1>8 DEF Next, TurnStep

BoundOK == MaxCalls \in Nat /\ Len(calls) <= MaxCalls

LEMMA CountBound ==
  ASSUME Inv, CountOK
  PROVE  BoundOK
<1>1. /\ Len(calls) \in Nat /\ CallIds = 1..Len(calls)
      /\ \A c \in CallIds : calls[c].turn \in Turns
  BY CallsAreCalls DEF Inv, CallType
<1> DEFINE Second(c) == \E d \in CallIds : d < c /\ calls[d].turn = calls[c].turn
           g == [c \in CallIds |-> <<calls[c].turn, IF Second(c) THEN 2 ELSE 1>>]
           T == Turns \X {1, 2}
<1>2. IsFiniteSet(T) /\ Cardinality(T) = Cardinality(Turns) * 2 /\ Cardinality(Turns) \in Nat
  <2>1. IsFiniteSet({1, 2}) /\ Cardinality({1, 2}) = 2
    <3>1. {1, 2} = {1} \cup {2} /\ 2 \notin {1}
      OBVIOUS
    <3>2. IsFiniteSet({1}) /\ Cardinality({1}) = 1
      BY FS_Singleton
    <3>3. IsFiniteSet({1} \cup {2}) /\ Cardinality({1} \cup {2}) = Cardinality({1}) + 1
      BY <3>1, <3>2, FS_AddElement
    <3> QED BY <3>1, <3>2, <3>3
  <2> QED BY <2>1, WorkerAssumption, FS_Product, FS_CardinalityType
<1>3. ASSUME NEW c \in CallIds, NEW d \in CallIds, c < d, g[c] = g[d]
      PROVE  FALSE
  <2>1. calls[c].turn = calls[d].turn /\ Second(d)
    BY <1>3
  <2>2. Second(c)
    BY <1>3, <2>1
  <2>3. PICK b \in CallIds : b < c /\ calls[b].turn = calls[c].turn
    BY <2>2
  <2>4. b # c /\ b # d
    BY <1>1, <1>3, <2>3
  <2> QED BY <1>1, <1>3, <2>1, <2>3, <2>4 DEF CountOK
<1>4. g \in Injection(CallIds, T)
  <2>1. g \in [CallIds -> T]
    BY <1>1
  <2>2. \A c, d \in CallIds : c = d \/ c < d \/ d < c
    BY <1>1
  <2>3. \A c, d \in CallIds : g[c] = g[d] => c = d
    BY <1>3, <2>2
  <2> HIDE DEF g, T
  <2> QED BY <2>1, <2>3 DEF Injection, IsInjective
<1>5. Cardinality(CallIds) <= Cardinality(T)
  BY <1>2, <1>4, FS_Injection
<1>6. Cardinality(CallIds) = Len(calls)
  BY <1>1, FS_Interval
<1> QED BY <1>2, <1>5, <1>6 DEF MaxCalls, BoundOK

-----------------------------------------------------------------------------
(* The lock implements the line.                                           *)

(* Who may enter or is inside is the first of the line, and no other call  *)
(* of the session has a child.                                             *)
LEMMA FirstInLine ==
  ASSUME Inv, NEW c \in CallIds, Enter(c) \/ Inside(c)
  PROVE  LET s == calls[c].session IN
         /\ s \in Sessions /\ c \in OutstandingIn(s)
         /\ \A d \in OutstandingIn(s) : c <= d
         /\ \A d \in BusyIn(s) : d = c
<1>1. /\ Len(calls) \in Nat /\ CallIds = 1..Len(calls)
      /\ \A d \in CallIds : calls[d] \in CallType
  BY CallsAreCalls DEF Inv
<1>2. Outstanding(c) /\ calls[c].session \in Sessions
  BY <1>1 DEF Enter, Inside, Outstanding, CallType
<1>3. ASSUME NEW d \in CallIds, Outstanding(d), SameSession(c, d) PROVE c <= d
  <2> SUFFICES ASSUME d < c PROVE FALSE
    BY <1>1
  <2>1. d \in 1..(c - 1) /\ SameSession(d, c)
    BY <1>1, <1>3 DEF SameSession
  <2> QED BY <1>3, <2>1, NothingBefore DEF Inv
<1>4. ASSUME NEW d \in CallIds, calls[d].pc = "child", SameSession(c, d) PROVE d = c
  <2>1. Outstanding(d) /\ Passed(d)
    BY <1>4 DEF Outstanding, Passed
  <2>2. c <= d
    BY <1>3, <1>4, <2>1
  <2> SUFFICES ASSUME c < d PROVE FALSE
    BY <1>1, <2>2
  <2>3. c \in 1..(d - 1)
    BY <1>1
  <2> QED BY <1>2, <1>4, <2>1, <2>3 DEF Inv, LockOK, PassOK
<1> QED BY <1>2, <1>3, <1>4 DEF OutstandingIn, BusyIn, SameSession

(* A step that moves one call changes the line of its session only.        *)
LEMMA OtherLinesStay ==
  ASSUME Inv, NEW c \in CallIds, DOMAIN calls' = CallIds,
         \A d \in CallIds \ {c} : calls'[d] = calls[d],
         calls'[c].session = calls[c].session,
         NEW r \in Sessions, r # calls[c].session
  PROVE  OutstandingIn(r)' = OutstandingIn(r) /\ BusyIn(r)' = BusyIn(r) /\ LineOf(r)' = LineOf(r)
<1>1. OutstandingIn(r)' = OutstandingIn(r) /\ BusyIn(r)' = BusyIn(r)
  BY DEF OutstandingIn, BusyIn, Outstanding
<1> QED BY <1>1 DEF LineOf

LEMMA LinesStay ==
  ASSUME DOMAIN calls' = CallIds,
         \A d \in CallIds : /\ calls'[d].session = calls[d].session
                            /\ Outstanding(d)' <=> Outstanding(d)
                            /\ calls'[d].pc = "child" <=> calls[d].pc = "child"
  PROVE  UNCHANGED Line!vars
<1>1. \A r : OutstandingIn(r)' = OutstandingIn(r) /\ BusyIn(r)' = BusyIn(r)
  BY DEF OutstandingIn, BusyIn
<1> QED BY <1>1 DEF LineOf, Line!vars

LEMMA LineJoins ==
  ASSUME Inv, BoundOK', NEW t \in Turns, Dispatch(t),
         turn[t].pc \in {"deciding", "reviewing"}
  PROVE  Line!Next
<1> DEFINE new == NewCall(t, turn[t].copy + 1)
<1>0. /\ turn[t] \in TurnType /\ turn[t].session \in Sessions
      /\ Len(calls) \in Nat /\ CallIds = 1..Len(calls)
  BY StartedTurn, CallsAreCalls DEF Inv, TurnType
<1>s. PICK s \in Sessions : s = turn[t].session
  BY <1>0
<1>k. PICK k \in Nat : k = Len(calls) + 1
  BY <1>0
<1>1. /\ turn[t] \in TurnType /\ s \in Sessions
      /\ Len(calls) \in Nat /\ CallIds = 1..Len(calls) /\ CallIds = 1..(k - 1)
  BY <1>0, <1>k
<1>2. new \in CallType /\ new.session = s /\ new.pc = "waiting"
  <2>1. tail[s] \in Nat /\ turn[t].copy \in Nat
    BY <1>1 DEF Inv, TypeOK, TurnType
  <2> QED BY <1>1, <1>s, <2>1, WorkerAssumption DEF NewCall, Previous, Mode, CallType
<1>3. /\ DOMAIN calls' = 1..k /\ calls'[k] = new /\ Len(calls') = k
      /\ \A c \in CallIds : calls'[c] = calls[c]
  BY <1>1, <1>k, <1>2, AppendProperties, LenProperties DEF Dispatch, Inv, TypeOK
<1>4. k \in 1..MaxCalls
  BY <1>1, <1>3, <1>k DEF BoundOK, MaxCalls
<1>5. 1..k = CallIds \cup {k}
  BY <1>1, <1>k
<1> DEFINE S == OutstandingIn(s)
<1>6. S \in SUBSET (1..Len(calls))
  BY <1>1 DEF OutstandingIn
<1>7. \A r \in Sessions : /\ OutstandingIn(r)' = IF r = s THEN S \cup {k} ELSE OutstandingIn(r)
                          /\ BusyIn(r)' = BusyIn(r)
  <2> HIDE DEF new
  <2> QED BY <1>2, <1>3, <1>5 DEF OutstandingIn, BusyIn, Outstanding
<1>8. LineOf(s)' = Append(LineOf(s), k)
  <2>1. Ascending(S \cup {k}) = Append(Ascending(S), k)
    BY <1>1, <1>k, <1>6, AscendingAppend
  <2>2. \A r \in Sessions : LineOf(r)' = Ascending(OutstandingIn(r)')
    BY DEF LineOf
  <2> QED BY <1>1, <1>7, <2>1, <2>2 DEF LineOf
<1>9. \A r \in Sessions : LineOf(r)' = IF r = s THEN Append(LineOf(s), k) ELSE LineOf(r)
  <2>1. \A r \in Sessions : r # s => LineOf(r)' = LineOf(r)
    BY <1>7 DEF LineOf
  <2> QED BY <1>8, <2>1
<1>10. Line!Join(s, k)
  BY <1>1, <1>7, <1>9 DEF Line!Join
<1> QED BY <1>1, <1>4, <1>10 DEF Line!Next

(* A call moves, in its place. *)
LEMMA LineCallStep ==
  ASSUME Inv, NEW c \in CallIds, CallStep(c)
  PROVE  [Line!Next]_(Line!vars)
<1>0. /\ TypeOK /\ calls[c] \in CallType /\ calls[c].session \in Sessions
      /\ Len(calls) \in Nat /\ CallIds = 1..Len(calls)
  BY CallsAreCalls DEF Inv, CallType
<1>s. PICK s \in Sessions : s = calls[c].session
  BY <1>0
<1> DEFINE S == OutstandingIn(s)
<1>1. /\ TypeOK /\ calls[c] \in CallType /\ s \in Sessions /\ s = calls[c].session
      /\ Len(calls) \in Nat /\ CallIds = 1..Len(calls)
  BY <1>0, <1>s
<1>2. /\ DOMAIN calls' = CallIds /\ \A d \in CallIds \ {c} : calls'[d] = calls[d]
      /\ calls'[c].session = s
  BY <1>1 DEF CallStep, OwnStep, Mock, Spawn, Respawn, StartChild, Timeout, SessionBusy,
              ChildEnds, OrphanEnds, Release, CallType
<1>3. \A r \in Sessions : r # s => LineOf(r)' = LineOf(r) /\ BusyIn(r)' = BusyIn(r)
  BY <1>1, <1>2, OtherLinesStay
<1>4. S \in SUBSET (1..Len(calls))
  BY <1>1 DEF OutstandingIn
<1>5. CASE Spawn(c) \/ Respawn(c)
  <2>1. /\ Enter(c) \/ Inside(c)
        /\ calls'[c].pc = "child"
    BY <1>1, <1>5 DEF Spawn, Respawn, StartChild, Inside, CallType
  <2>2. Outstanding(c) /\ Outstanding(c)'
    BY <2>1 DEF Outstanding, Enter, Inside
  <2>3. OutstandingIn(s)' = S /\ BusyIn(s)' = {c}
    <3>1. \A d \in BusyIn(s) : d = c
      BY <1>1, <2>1, FirstInLine
    <3> QED BY <1>1, <1>2, <2>1, <2>2, <3>1 DEF OutstandingIn, BusyIn, Outstanding
  <2>4. LineOf(s) # <<>> /\ Head(LineOf(s)) = c
    <3>1. c \in S /\ \A d \in S : c <= d
      BY <1>1, <2>1, FirstInLine
    <3> QED BY <1>1, <1>4, <3>1, AscendingTail DEF LineOf
  <2>5. \A r \in Sessions : /\ LineOf(r)' = LineOf(r)
                            /\ BusyIn(r)' = IF r = s THEN {c} ELSE BusyIn(r)
    BY <1>3, <2>3 DEF LineOf
  <2> HIDE DEF S
  <2>6. Line!Serve(s)
    BY <1>1, <2>4, <2>5 DEF Line!Serve
  <2> QED BY <1>1, <2>6 DEF Line!Next
<1>6. CASE SessionBusy(c)
  <2>1. Inside(c) /\ calls[c].pc = "child" /\ calls'[c].pc = "resting"
    BY <1>1, <1>6 DEF SessionBusy, Inside, CallType
  <2>2. \A d \in BusyIn(s) : d = c
    BY <1>1, <2>1, FirstInLine
  <2>3. OutstandingIn(s)' = S /\ BusyIn(s)' = {} /\ c \in BusyIn(s)
    BY <1>1, <1>2, <2>1, <2>2 DEF OutstandingIn, BusyIn, Outstanding
  <2>4. \A r \in Sessions : /\ LineOf(r)' = LineOf(r)
                            /\ BusyIn(r)' = IF r = s THEN {} ELSE BusyIn(r)
    BY <1>3, <2>3 DEF LineOf
  <2> HIDE DEF S
  <2>5. Line!Rest(s)
    BY <1>1, <2>3, <2>4 DEF Line!Rest
  <2> QED BY <1>1, <2>5 DEF Line!Next
<1>7. CASE Mock(c) \/ ChildEnds(c)
  <2>1. /\ Enter(c) \/ Inside(c)
        /\ calls'[c].pc = "released"
    BY <1>1, <1>7 DEF Mock, ChildEnds, Release, Inside, CallType
  <2>2. /\ c \in S /\ \A d \in S : c <= d
        /\ \A d \in BusyIn(s) : d = c
    BY <1>1, <2>1, FirstInLine
  <2>3. OutstandingIn(s)' = S \ {c} /\ BusyIn(s)' = {}
    BY <1>1, <1>2, <2>1, <2>2 DEF OutstandingIn, BusyIn, Outstanding
  <2>4. LineOf(s) # <<>> /\ Ascending(S \ {c}) = Tail(LineOf(s))
    BY <1>1, <1>4, <2>2, AscendingTail DEF LineOf
  <2>5. LineOf(s)' = Tail(LineOf(s))
    <3>1. LineOf(s)' = Ascending(OutstandingIn(s)')
      BY <1>2 DEF LineOf
    <3> QED BY <2>3, <2>4, <3>1
  <2>6. \A r \in Sessions : /\ LineOf(r)' = IF r = s THEN Tail(LineOf(s)) ELSE LineOf(r)
                            /\ BusyIn(r)' = IF r = s THEN {} ELSE BusyIn(r)
    BY <1>2, <1>3, <2>3, <2>5
  <2> HIDE DEF S
  <2>7. Line!Leave(s)
    BY <1>1, <2>4, <2>6 DEF Line!Leave
  <2> QED BY <1>1, <2>7 DEF Line!Next
<1>8. CASE Timeout(c) \/ OrphanEnds(c)
  <2>1. calls'[c].pc = calls[c].pc
    <3>1. CASE Timeout(c)
      BY <1>1, <3>1 DEF Timeout, CallType
    <3>2. CASE OrphanEnds(c)
      BY <1>1, <3>2 DEF OrphanEnds, CallType
    <3> QED BY <1>8, <3>1, <3>2
  <2>2. \A d \in CallIds : /\ calls'[d].session = calls[d].session
                           /\ calls'[d].pc = calls[d].pc
    BY <1>1, <1>2, <2>1
  <2>3. UNCHANGED Line!vars
    BY <1>2, <2>2, LinesStay DEF Outstanding
  <2> QED BY <2>3
<1> QED BY <1>5, <1>6, <1>7, <1>8 DEF CallStep, OwnStep

LEMMA LineCrash ==
  ASSUME Inv, Crash
  PROVE  Line!Next
<1>1. \A c \in CallIds : calls[c] \in CallType
  BY CallsAreCalls DEF Inv
<1>2. \A c \in CallIds : calls'[c].pc \in {"released", "dead"} /\ DOMAIN calls' = CallIds
  BY <1>1 DEF Crash, Outstanding, CallType
<1>3. DOMAIN calls' = CallIds
  BY DEF Crash
<1>4. \A r : OutstandingIn(r)' = {} /\ BusyIn(r)' = {}
  BY <1>2, <1>3 DEF OutstandingIn, BusyIn, Outstanding
<1>5. \A r : LineOf(r)' = <<>>
  BY <1>4, AscendingEmpty DEF LineOf
<1>6. Line!Scatter
  BY <1>4, <1>5 DEF Line!Scatter
<1> QED BY <1>6 DEF Line!Next

(* ClaudeWorker implements SessionLine: a call joins the line of its       *)
(* session when diagnose asks for the lock, is served when its child       *)
(* starts, rests between two attempts and leaves when the gate opens; a    *)
(* kill scatters the lines.                                                *)
THEOREM LockIsALine == Spec => LineSpec
<1>1. Init => Line!Init
  <2> SUFFICES ASSUME Init PROVE Line!Init
    OBVIOUS
  <2>1. CallIds = {}
    BY DEF Init
  <2>2. \A s : OutstandingIn(s) = {} /\ BusyIn(s) = {}
    BY <2>1 DEF OutstandingIn, BusyIn
  <2>3. \A s : LineOf(s) = <<>>
    BY <2>2, AscendingEmpty DEF LineOf
  <2> QED BY <2>2, <2>3 DEF Line!Init
<1>2. Init => CountOK
  <2> SUFFICES ASSUME Init PROVE CountOK
    OBVIOUS
  <2>1. CallIds = {}
    BY DEF Init
  <2> QED BY <2>1 DEF CountOK
<1>3. Inv /\ CountOK /\ [Next]_vars => CountOK'
  BY CountNext
<1>5. Inv /\ CountOK => BoundOK
  BY CountBound
<1>4. Inv /\ BoundOK' /\ [Next]_vars => [Line!Next]_(Line!vars)
  <2> SUFFICES ASSUME Inv, BoundOK', [Next]_vars
               PROVE  [Line!Next]_(Line!vars)
    OBVIOUS
  <2>1. ASSUME NEW t \in Turns, Escalate(t) \/ FollowUp(t) PROVE [Line!Next]_(Line!vars)
    BY <2>1, LineJoins DEF Escalate, FollowUp
  <2>2. ASSUME NEW c \in CallIds, CallStep(c) PROVE [Line!Next]_(Line!vars)
    BY <2>2, LineCallStep
  <2>3. CASE Crash
    BY <2>3, LineCrash
  <2>4. ASSUME UNCHANGED calls PROVE [Line!Next]_(Line!vars)
    BY <2>4, LinesStay DEF Outstanding
  <2>5. ASSUME NEW t \in Turns,
               StartTurn(t) \/ Record(t) \/ AnswerWithoutWorker(t) \/ EndTurn(t)
        PROVE  UNCHANGED calls
    BY <2>5 DEF StartTurn, Record, AnswerWithoutWorker, EndTurn
  <2>6. Reload \/ UNCHANGED vars => UNCHANGED calls
    BY DEF Reload, vars
  <2> QED BY <2>1, <2>2, <2>3, <2>4, <2>5, <2>6 DEF Next, TurnStep
<1> QED BY <1>1, <1>2, <1>3, <1>4, <1>5, InvHolds, PTL DEF Spec, LineSpec, Line!Spec
=============================================================================
