---------------------------- MODULE ActivePointer ----------------------------
(***************************************************************************)
(* What the knowledge generation store promises its users: a pointer that  *)
(* names the generation readers use.  The pointer only ever names a        *)
(* generation whose files are complete, complete generations are never     *)
(* taken away, and the pointer moves only by compare-and-set: a client     *)
(* that asked to go from `expected' to `target' succeeds only while the    *)
(* pointer still is `expected'.                                            *)
(*                                                                         *)
(* GenerationStore, which works with a lock directory, a temporary         *)
(* directory and a renamed pointer file, implements this specification.    *)
(***************************************************************************)

CONSTANTS Clients,  \* the processes that publish or roll back
          Gens,     \* generation ids
          NoGen     \* "there is no active generation"

VARIABLES active,    \* the generation readers use, or NoGen
          complete,  \* the generations whose files are all in place
          request    \* client -> the swap it wants, or NoRequest

vars == <<active, complete, request>>

NoRequest == [expected |-> NoGen, target |-> NoGen]

Init ==
  /\ active = NoGen
  /\ complete = {}
  /\ request = [c \in Clients |-> NoRequest]

(* A client asks for a swap. *)
Request(c) ==
  /\ request[c] = NoRequest
  /\ \E e \in Gens \cup {NoGen}, g \in Gens :
       request' = [request EXCEPT ![c] = [expected |-> e, target |-> g]]
  /\ UNCHANGED <<active, complete>>

(* The files of the target of a request become complete. *)
Complete(c) ==
  /\ request[c] # NoRequest
  /\ complete' = complete \cup {request[c].target}
  /\ UNCHANGED <<active, request>>

(* The swap itself. *)
Commit(c) ==
  /\ request[c] # NoRequest
  /\ active = request[c].expected
  /\ request[c].target \in complete
  /\ active' = request[c].target
  /\ request' = [request EXCEPT ![c] = NoRequest]
  /\ UNCHANGED complete

(* The client gives up: a conflict, an error, a crash. *)
Withdraw(c) ==
  /\ request[c] # NoRequest
  /\ request' = [request EXCEPT ![c] = NoRequest]
  /\ UNCHANGED <<active, complete>>

Next == \E c \in Clients : Request(c) \/ Complete(c) \/ Commit(c) \/ Withdraw(c)

Spec == Init /\ [][Next]_vars
=============================================================================
