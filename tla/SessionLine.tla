----------------------------- MODULE SessionLine -----------------------------
(***************************************************************************)
(* What the lock of ClaudeCodeWorker promises to its callers: the calls of *)
(* one Claude session stand in a line, in the order they came; the first   *)
(* in line is the only one that may have a child process, and it leaves    *)
(* when its child has ended.  A kill of the gateway scatters every line.   *)
(***************************************************************************)
EXTENDS Sequences

CONSTANTS Sessions, Calls

VARIABLES
  line,   \* session -> the calls that wait or run, first first
  busy    \* session -> the calls that have a child process

vars == <<line, busy>>

Init ==
  /\ line = [s \in Sessions |-> <<>>]
  /\ busy = [s \in Sessions |-> {}]

Join(s, c) ==
  /\ line' = [line EXCEPT ![s] = Append(@, c)]
  /\ UNCHANGED busy

Serve(s) ==
  /\ line[s] # <<>>
  /\ busy' = [busy EXCEPT ![s] = {Head(line[s])}]
  /\ UNCHANGED line

(* The child of the first call ends, and the call is to try again.         *)
Rest(s) ==
  /\ busy[s] # {}
  /\ busy' = [busy EXCEPT ![s] = {}]
  /\ UNCHANGED line

(* The first call is over, and so is its child if it had one.              *)
Leave(s) ==
  /\ line[s] # <<>>
  /\ line' = [line EXCEPT ![s] = Tail(@)]
  /\ busy' = [busy EXCEPT ![s] = {}]

Scatter ==
  /\ line' = [s \in Sessions |-> <<>>]
  /\ busy' = [s \in Sessions |-> {}]

Next ==
  \/ \E s \in Sessions : \/ \E c \in Calls : Join(s, c)
                         \/ Serve(s) \/ Rest(s) \/ Leave(s)
  \/ Scatter

Spec == Init /\ [][Next]_vars
=============================================================================
