--------------------------- MODULE GenerationStore ---------------------------
(***************************************************************************)
(* The store of knowledge index generations and the programs that use it.  *)
(*                                                                         *)
(*   src/src/knowledge/generation-store.ts     publish, rollback, lock     *)
(*   src/src/knowledge/generation-recovery.ts  stale lock recovery         *)
(*   src/src/application/knowledge-rebuild-service.ts   rebuild, retry     *)
(*   src/src/knowledge/indexes/build.ts        prepare, finalize, dirty    *)
(*   src/src/knowledge/vector-index.ts         vectors for a generation    *)
(*   src/src/retrieval/service.ts              the readers                 *)
(*                                                                         *)
(* Everything is files, and the files are shared by operating system       *)
(* processes (the gateway, the CLI).  A call into the store is synchronous *)
(* inside one process, so the atomic steps here are file operations and    *)
(* the interleaving is that of several processes.  One element of Procs is *)
(* one process that runs one operation after another until it is killed.   *)
(***************************************************************************)
EXTENDS Naturals

CONSTANTS
  Procs,        \* processes that publish, roll back or recover the lock
  Gens,         \* generation ids (gen_<uuid>)
  NoGen,        \* no generation: active.json absent
  NoLock,       \* .generation-publish.lock absent
  Readers,      \* retrieval requests
  Kinds,        \* the operations the processes run
  MaxSource,    \* bound: how often the knowledge documents change
  MaxAttempts,  \* attempts of rebuildKnowledgeArtifactsWithRetry
  OneOperator   \* TRUE: nobody starts a recovery while another one runs

ASSUME NoGenAssumption == NoGen \notin Gens
ASSUME KindsAssumption == Kinds \subseteq {"rebuild", "vector", "rollback", "recover"}
ASSUME BoundsAssumption ==
  /\ MaxSource \in Nat
  /\ MaxAttempts \in Nat \ {0}
  /\ OneOperator \in BOOLEAN

VARIABLES
  source,    \* version of the knowledge documents
  marking,   \* a document was written, its dirty flag not yet
  dirty,     \* indexes/dirty.flag exists
  dirs,      \* generation -> its directory: absent, tmp or complete
  content,   \* generation -> version of the documents its files were built from
  active,    \* what active.json names
  lock,      \* the lock directory and its owner.json
  pc,        \* process -> the step it takes next; "dead" once killed
  op,        \* process -> the locals of its operation
  pin,       \* request -> the generation it resolved when it started
  seen,      \* request -> the generations whose files it has read
  rpc        \* request -> the step it takes next

fileVars == <<dirs, content>>
docVars  == <<source, marking, dirty>>
readVars == <<pin, seen, rpc>>
vars     == <<source, marking, dirty, dirs, content, active, lock, pc, op, pin, seen, rpc>>

GenOrNone == Gens \cup {NoGen}

IdleOp == [kind |-> "none", expected |-> NoGen, gen |-> NoGen,
           prepared |-> 0, attempt |-> 1, result |-> "none"]

OpType == [kind : {"none", "rebuild", "vector", "rollback", "recover"},
           expected : GenOrNone, gen : GenOrNone,
           prepared : Nat, attempt : 1..MaxAttempts,
           result : {"none", "conflict", "failed", "done"}]

LockType == [pid : Procs, owned : BOOLEAN, expected : GenOrNone, aged : BOOLEAN]

ASSUME NoLockAssumption == NoLock \notin LockType

(* From mkdir of the lock to its removal: a process is inside acquireLock  *)
(* or the try block that follows it.                                       *)
Holding == {"owner", "check", "build", "complete", "recheck", "validate",
            "swap", "cleanup", "release"}
Recovering == {"rec_owner", "rec_clean", "rec_unlock"}
ProcPC == {"idle", "read", "prepare", "acquire", "finalize", "dead"} \cup Holding \cup Recovering
ReaderPC == {"idle", "bm25", "compatibility", "vectors", "chunks", "done"}

(* The steps in front of a swap at which an error can be thrown. *)
Fallible == {"check", "build", "complete", "recheck", "validate", "swap"}

Alive(p) == pc[p] # "dead"

(* The documents a generation holds; none for the absent generation. *)
ContentOf(g) == IF g = NoGen THEN 0 ELSE content[g]

(* validateStoredKnowledgeGeneration *)
Valid(g) == g \in Gens /\ dirs[g] = "complete"

(* readActiveKnowledgeGeneration: a pointer to an invalid generation       *)
(* counts as no pointer.                                                   *)
ReadActive == IF Valid(active) THEN active ELSE NoGen

(* resolveKnowledgeGenerationFileById after `generationId ?? readActive' *)
ResolveOrActive(g) == IF g # NoGen THEN g ELSE ReadActive

Goto(p, label) == pc' = [pc EXCEPT ![p] = label]
Finish(p) == Goto(p, "idle") /\ op' = [op EXCEPT ![p] = IdleOp]

Init ==
  /\ source = 1 /\ marking = FALSE /\ dirty = TRUE
  /\ dirs = [g \in Gens |-> "absent"]
  /\ content = [g \in Gens |-> 0]
  /\ active = NoGen
  /\ lock = NoLock
  /\ pc = [p \in Procs |-> "idle"]
  /\ op = [p \in Procs |-> IdleOp]
  /\ pin = [r \in Readers |-> NoGen]
  /\ seen = [r \in Readers |-> {}]
  /\ rpc = [r \in Readers |-> "idle"]

-----------------------------------------------------------------------------
(* The knowledge documents: a reviewed slice is published, a solved case   *)
(* is curated.  The document is written first, its dirty flag second.      *)

WriteDocument ==
  /\ source < MaxSource
  /\ ~marking
  /\ source' = source + 1
  /\ marking' = TRUE
  /\ UNCHANGED <<dirty, fileVars, active, lock, pc, op, readVars>>

MarkDirty ==
  /\ marking
  /\ marking' = FALSE
  /\ dirty' = TRUE
  /\ UNCHANGED <<source, fileVars, active, lock, pc, op, readVars>>

-----------------------------------------------------------------------------
(* Preparing a candidate, outside the lock. *)

(* A process that has nothing to do starts an operation. *)
Begin(p) ==
  /\ pc[p] = "idle"
  /\ \E k \in Kinds \ {"recover"} : op' = [op EXCEPT ![p].kind = k]
  /\ Goto(p, "read")
  /\ UNCHANGED <<docVars, fileVars, active, lock, readVars>>

(* The active generation is read BEFORE anything is prepared. *)
ReadExpected(p) ==
  /\ pc[p] = "read"
  /\ op[p].kind = "rebuild" \/ ReadActive # NoGen
  /\ op' = [op EXCEPT ![p].expected = ReadActive]
  /\ Goto(p, "prepare")
  /\ UNCHANGED <<docVars, fileVars, active, lock, readVars>>

(* Without an active generation there is nothing to add vectors to and     *)
(* nothing to roll back from.                                              *)
NothingActive(p) ==
  /\ pc[p] = "read"
  /\ op[p].kind # "rebuild" /\ ReadActive = NoGen
  /\ Finish(p)
  /\ UNCHANGED <<docVars, fileVars, active, lock, readVars>>

(* A uuid nobody used before. *)
Fresh(g) == dirs[g] = "absent" /\ \A q \in Procs : op[q].gen # g

(* The documents a candidate is built from: rebuild reads them now,        *)
(* vectors re-use the chunks of the generation that is to be replaced.     *)
PreparedFrom(p) ==
  CASE op[p].kind = "rebuild" -> source
    [] op[p].kind = "vector"  -> ContentOf(op[p].expected)
    [] OTHER                  -> 0

(* A rollback is told which generation to go back to. *)
Prepare(p) ==
  /\ pc[p] = "prepare"
  /\ \E g \in Gens :
       /\ IF op[p].kind = "rollback" THEN g # op[p].expected ELSE Fresh(g)
       /\ op' = [op EXCEPT ![p] = [@ EXCEPT !.gen = g, !.prepared = PreparedFrom(p)]]
  /\ Goto(p, "acquire")
  /\ UNCHANGED <<docVars, fileVars, active, lock, readVars>>

(* The documents cannot be prepared, an embedding fails, the quality gate  *)
(* does not pass: nothing is published.                                    *)
Abandon(p) ==
  /\ pc[p] \in {"prepare", "acquire"}
  /\ op[p].kind # "rollback"
  /\ Finish(p)
  /\ UNCHANGED <<docVars, fileVars, active, lock, readVars>>

-----------------------------------------------------------------------------
(* publishKnowledgeGeneration and rollbackKnowledgeGeneration *)

(* The lock directory p creates, then its owner.json; `pid' is known to    *)
(* others only once owner.json is there.                                   *)
LockOf(p, owned, e) == [pid |-> p, owned |-> owned, expected |-> e, aged |-> FALSE]

(* Mutant: a stale lock is taken over. *)
StealAgedLock(p) ==
  /\ pc[p] = "acquire"
  /\ lock # NoLock => lock.aged
  /\ lock' = LockOf(p, FALSE, NoGen)
  /\ Goto(p, "owner")
  /\ UNCHANGED <<docVars, fileVars, active, op, readVars>>

(* mkdir of the lock directory *)
AcquireLock(p) ==
  /\ pc[p] = "acquire"
  /\ lock = NoLock
  /\ lock' = LockOf(p, FALSE, NoGen)
  /\ Goto(p, "owner")
  /\ UNCHANGED <<docVars, fileVars, active, op, readVars>>

(* generation_lock_busy, generation_lock_stale *)
LockBusy(p) ==
  /\ pc[p] = "acquire"
  /\ lock # NoLock
  /\ Finish(p)
  /\ UNCHANGED <<docVars, fileVars, active, lock, readVars>>

(* owner.json inside the lock directory *)
WriteOwner(p) ==
  /\ pc[p] = "owner"
  /\ lock # NoLock
  /\ lock' = LockOf(p, TRUE, op[p].expected)
  /\ Goto(p, "check")
  /\ UNCHANGED <<docVars, fileVars, active, op, readVars>>

(* generation_lock_failed: the lock directory is removed again. *)
WriteOwnerFails(p) ==
  /\ pc[p] = "owner"
  /\ lock' = NoLock
  /\ Finish(p)
  /\ UNCHANGED <<docVars, fileVars, active, readVars>>

(* The removal itself throws: the operation is over and the lock stays,    *)
(* with or without its owner.json.                                         *)
UnwindFails(p) ==
  /\ pc[p] = "owner"
  /\ lock # NoLock
  /\ lock' \in {LockOf(p, FALSE, NoGen), LockOf(p, TRUE, op[p].expected)}
  /\ Finish(p)
  /\ UNCHANGED <<docVars, fileVars, active, readVars>>

(* Mutant: nothing is compared. *)
AlwaysAsExpected(p) == TRUE

AsExpected(p) == ReadActive = op[p].expected

(* Mutant: under the lock the expectation is read again, not compared. *)
RefreshExpected(p) ==
  /\ pc[p] = "check"
  /\ op' = [op EXCEPT ![p].expected = ReadActive]
  /\ Goto(p, IF op[p].kind = "rollback" THEN "validate" ELSE "build")
  /\ UNCHANGED <<docVars, fileVars, active, lock, readVars>>

CheckExpected(p) ==
  /\ pc[p] = "check"
  /\ AsExpected(p)
  /\ Goto(p, IF op[p].kind = "rollback" THEN "validate" ELSE "build")
  /\ UNCHANGED <<docVars, fileVars, active, lock, op, readVars>>

(* assertExpectedActive throws KnowledgeGenerationConflictError. *)
Conflict(p) ==
  /\ pc[p] \in {"check", "recheck"}
  /\ ~AsExpected(p)
  /\ op' = [op EXCEPT ![p].result = "conflict"]
  /\ Goto(p, "cleanup")
  /\ UNCHANGED <<docVars, fileVars, active, lock, readVars>>

(* .gen_<id>.tmp with all files, manifest and completion marker *)
BuildTemporary(p) ==
  /\ pc[p] = "build"
  /\ dirs[op[p].gen] = "absent"
  /\ dirs' = [dirs EXCEPT ![op[p].gen] = "tmp"]
  /\ Goto(p, "complete")
  /\ UNCHANGED <<docVars, content, active, lock, op, readVars>>

(* rename of the temporary directory to its final name *)
CompleteDirectory(p) ==
  /\ pc[p] = "complete"
  /\ dirs[op[p].gen] = "tmp"
  /\ dirs' = [dirs EXCEPT ![op[p].gen] = "complete"]
  /\ content' = [content EXCEPT ![op[p].gen] = op[p].prepared]
  /\ Goto(p, "recheck")
  /\ UNCHANGED <<docVars, active, lock, op, readVars>>

RecheckExpected(p) ==
  /\ pc[p] = "recheck"
  /\ AsExpected(p)
  /\ Goto(p, "swap")
  /\ UNCHANGED <<docVars, fileVars, active, lock, op, readVars>>

(* Mutant: rollback trusts the generation it is given. *)
TrustPrevious(p) ==
  /\ pc[p] = "validate"
  /\ Goto(p, "swap")
  /\ UNCHANGED <<docVars, fileVars, active, lock, op, readVars>>

ValidatePrevious(p) ==
  /\ pc[p] = "validate"
  /\ Valid(op[p].gen)
  /\ Goto(p, "swap")
  /\ UNCHANGED <<docVars, fileVars, active, lock, op, readVars>>

(* replaceActivePointer: rename over active.json.  The fsync of the        *)
(* directory that follows can still fail, with the pointer moved.          *)
SwapPointer(p) ==
  /\ pc[p] = "swap"
  /\ active' = op[p].gen
  /\ \E r \in {"done", "failed"} : op' = [op EXCEPT ![p].result = r]
  /\ Goto(p, "cleanup")
  /\ UNCHANGED <<docVars, fileVars, lock, readVars>>

(* Any step of the try block may throw: a full disk, a directory that is   *)
(* already or no longer there, a rollback target that does not validate.   *)
StepFails(p) ==
  /\ pc[p] \in Fallible
  /\ op' = [op EXCEPT ![p].result = "failed"]
  /\ Goto(p, "cleanup")
  /\ UNCHANGED <<docVars, fileVars, active, lock, readVars>>

(* finally: the temporary directory of a publish is removed ... *)
Cleanup(p) ==
  /\ pc[p] = "cleanup"
  /\ dirs' = [g \in Gens |-> IF g = op[p].gen /\ op[p].kind # "rollback" /\ dirs[g] = "tmp"
                               THEN "absent" ELSE dirs[g]]
  /\ Goto(p, "release")
  /\ UNCHANGED <<docVars, content, active, lock, op, readVars>>

(* ... and if that throws, finally ends there: the lock stays, and the     *)
(* error takes the place of the result (a conflict is not retried).        *)
CleanupFails(p) ==
  /\ pc[p] = "cleanup"
  /\ op[p].kind # "rollback"
  /\ Finish(p)
  /\ UNCHANGED <<docVars, fileVars, active, lock, readVars>>

(* Mutant: one attempt too many. *)
CanRetryOnceMore(p) ==
  /\ op[p].kind = "rebuild"
  /\ op[p].result = "conflict"
  /\ op[p].attempt <= MaxAttempts

CanRetry(p) ==
  /\ op[p].kind = "rebuild"
  /\ op[p].result = "conflict"
  /\ op[p].attempt < MaxAttempts

Published(p) == op[p].kind = "rebuild" /\ op[p].result = "done"

(* ... and the lock directory, whoever owns it.  A rebuild that published  *)
(* goes on to clear dirty.flag; one that lost the comparison starts over.  *)
Release(p) ==
  /\ pc[p] = "release"
  /\ ~CanRetry(p)
  /\ lock' = NoLock
  /\ IF Published(p) THEN Goto(p, "finalize") /\ UNCHANGED op ELSE Finish(p)
  /\ UNCHANGED <<docVars, fileVars, active, readVars>>

ReleaseAndRetry(p) ==
  /\ pc[p] = "release"
  /\ CanRetry(p)
  /\ lock' = NoLock
  /\ op' = [op EXCEPT ![p] = [IdleOp EXCEPT !.kind = "rebuild", !.attempt = op[p].attempt + 1]]
  /\ Goto(p, "read")
  /\ UNCHANGED <<docVars, fileVars, active, readVars>>

(* A removal of a directory that breaks off: owner.json may be gone from   *)
(* the lock, the lock itself is not.                                       *)
BrokenOff(l) == {l, [l EXCEPT !.owned = FALSE]}

ReleaseFails(p) ==
  /\ pc[p] = "release"
  /\ lock # NoLock
  /\ lock' \in BrokenOff(lock)
  /\ Finish(p)
  /\ UNCHANGED <<docVars, fileVars, active, readVars>>

(* finalizeKnowledgeIndexGeneration *)
Finalize(p) ==
  /\ pc[p] = "finalize"
  /\ dirty' = FALSE
  /\ Finish(p)
  /\ UNCHANGED <<source, marking, fileVars, active, lock, readVars>>

-----------------------------------------------------------------------------
(* recoverStaleKnowledgeGenerationLock *)

(* The lock is there and old enough, and the active generation is read;    *)
(* a pointer to an invalid generation ends the recovery with an error.     *)
BeginRecovery(p) ==
  /\ pc[p] = "idle"
  /\ "recover" \in Kinds
  /\ OneOperator => \A q \in Procs : pc[q] \notin Recovering
  /\ lock # NoLock /\ lock.aged
  /\ active # NoGen => Valid(active)
  /\ op' = [op EXCEPT ![p] = [IdleOp EXCEPT !.kind = "recover", !.expected = active]]
  /\ Goto(p, "rec_owner")
  /\ UNCHANGED <<docVars, fileVars, active, lock, readVars>>

(* Mutant: no active generation is compared as undefined with null. *)
OwnerIsStaleUndefined(p) ==
  /\ lock # NoLock
  /\ lock.owned
  /\ lock.aged
  /\ ~Alive(lock.pid)
  /\ lock.expected = op[p].expected
  /\ lock.expected # NoGen

OwnerIsStale(p) ==
  /\ lock # NoLock
  /\ lock.owned
  /\ lock.aged
  /\ ~Alive(lock.pid)
  /\ lock.expected = op[p].expected

CheckOwner(p) ==
  /\ pc[p] = "rec_owner"
  /\ OwnerIsStale(p)
  /\ Goto(p, "rec_clean")
  /\ UNCHANGED <<docVars, fileVars, active, lock, op, readVars>>

(* busy, owner invalid (or gone), owner alive, active changed *)
RefuseRecovery(p) ==
  /\ pc[p] = "rec_owner"
  /\ ~OwnerIsStale(p)
  /\ Finish(p)
  /\ UNCHANGED <<docVars, fileVars, active, lock, readVars>>

(* Mutant: everything but the active generation is cleaned away. *)
NotActive(g) == g # active

(* recoverIncompleteGenerations removes what was never completed. *)
Incomplete(g) == dirs[g] = "tmp"

CleanIncomplete(p) ==
  /\ pc[p] = "rec_clean"
  /\ dirs' = [g \in Gens |-> IF Incomplete(g) THEN "absent" ELSE dirs[g]]
  /\ Goto(p, "rec_unlock")
  /\ UNCHANGED <<docVars, content, active, lock, op, readVars>>

RemoveStaleLock(p) ==
  /\ pc[p] = "rec_unlock"
  /\ lock' = NoLock
  /\ Finish(p)
  /\ UNCHANGED <<docVars, fileVars, active, readVars>>

(* Removals can fail here too; what was not removed is left for the next   *)
(* recovery.                                                               *)
CleanFails(p) ==
  /\ pc[p] = "rec_clean"
  /\ Finish(p)
  /\ UNCHANGED <<docVars, fileVars, active, lock, readVars>>

UnlockFails(p) ==
  /\ pc[p] = "rec_unlock"
  /\ lock # NoLock
  /\ lock' \in BrokenOff(lock)
  /\ Finish(p)
  /\ UNCHANGED <<docVars, fileVars, active, readVars>>

-----------------------------------------------------------------------------
(* Five minutes pass; a process is killed, or just ends. *)

LockAges ==
  /\ lock # NoLock
  /\ ~lock.aged
  /\ lock' = [lock EXCEPT !.aged = TRUE]
  /\ UNCHANGED <<docVars, fileVars, active, pc, op, readVars>>

Crash(p) ==
  /\ pc[p] # "dead"
  /\ Goto(p, "dead")
  /\ op' = [op EXCEPT ![p] = IdleOp]
  /\ UNCHANGED <<docVars, fileVars, active, lock, readVars>>

-----------------------------------------------------------------------------
(* retrieve: the generation is resolved when the request starts.  The BM25 *)
(* recall reads chunks; the embedding recall checks compatibility, waits   *)
(* for the query vector, then reads vectors and chunks.                    *)

StartRequest(r) ==
  /\ rpc[r] = "idle"
  /\ pin' = [pin EXCEPT ![r] = ReadActive]
  /\ rpc' = [rpc EXCEPT ![r] = "bm25"]
  /\ UNCHANGED <<docVars, fileVars, active, lock, pc, op, seen>>

ReadFiles(r, label, g, next) ==
  /\ rpc[r] = label
  /\ seen' = [seen EXCEPT ![r] = @ \cup {g}]
  /\ rpc' = [rpc EXCEPT ![r] = next]
  /\ UNCHANGED <<docVars, fileVars, active, lock, pc, op, pin>>

ReadBm25Chunks(r) == ReadFiles(r, "bm25", ResolveOrActive(pin[r]), "compatibility")
CheckCompatibility(r) == ReadFiles(r, "compatibility", ResolveOrActive(pin[r]), "vectors")
(* Mutant: the vectors are those of the generation active by now. *)
ReadActiveVectors(r) == ReadFiles(r, "vectors", ReadActive, "chunks")

ReadVectors(r) == ReadFiles(r, "vectors", pin[r], "chunks")

(* The last read; `done' keeps the files of the finished request visible   *)
(* until the next one starts.                                              *)
ReadVectorChunks(r) == ReadFiles(r, "chunks", ResolveOrActive(pin[r]), "done")

EndRequest(r) ==
  /\ rpc[r] \in {"compatibility", "vectors", "done"}
  /\ rpc' = [rpc EXCEPT ![r] = "idle"]
  /\ pin' = [pin EXCEPT ![r] = NoGen]
  /\ seen' = [seen EXCEPT ![r] = {}]
  /\ UNCHANGED <<docVars, fileVars, active, lock, pc, op>>

-----------------------------------------------------------------------------

PublishStep(p) ==
  \/ ReadExpected(p) \/ NothingActive(p) \/ Prepare(p) \/ Abandon(p)
  \/ AcquireLock(p) \/ LockBusy(p) \/ WriteOwner(p) \/ WriteOwnerFails(p)
  \/ UnwindFails(p) \/ CheckExpected(p) \/ Conflict(p) \/ BuildTemporary(p) \/ CompleteDirectory(p)
  \/ RecheckExpected(p) \/ ValidatePrevious(p) \/ SwapPointer(p) \/ StepFails(p)
  \/ Cleanup(p) \/ CleanupFails(p) \/ Release(p) \/ ReleaseAndRetry(p) \/ ReleaseFails(p)
  \/ Finalize(p)

RecoveryStep(p) ==
  \/ CheckOwner(p) \/ RefuseRecovery(p) \/ CleanIncomplete(p) \/ CleanFails(p)
  \/ RemoveStaleLock(p) \/ UnlockFails(p)

ReaderStep(r) ==
  \/ StartRequest(r) \/ ReadBm25Chunks(r) \/ CheckCompatibility(r)
  \/ ReadVectors(r) \/ ReadVectorChunks(r) \/ EndRequest(r)

Next ==
  \/ \E p \in Procs : Begin(p) \/ PublishStep(p) \/ BeginRecovery(p) \/ RecoveryStep(p) \/ Crash(p)
  \/ \E r \in Readers : ReaderStep(r)
  \/ WriteDocument \/ MarkDirty \/ LockAges

Spec == Init /\ [][Next]_vars

(* A process that runs keeps running: it takes its next step unless it is  *)
(* killed.  Time passes.  Nobody is obliged to begin anything.             *)
Fairness ==
  /\ \A p \in Procs : WF_vars(PublishStep(p) \/ RecoveryStep(p))
  /\ WF_vars(LockAges)

FairSpec == Spec /\ Fairness

(* Besides, operators who see a stale lock again and again do call the     *)
(* recovery, and a removal that is tried again and again succeeds.         *)
PersistentRecovery ==
  /\ FairSpec
  /\ SF_vars(\E p \in Procs : BeginRecovery(p))
  /\ SF_vars(\E p \in Procs : CleanIncomplete(p))
  /\ SF_vars(\E p \in Procs : RemoveStaleLock(p))

-----------------------------------------------------------------------------
(* Properties *)

FlagsTypeOK == marking \in BOOLEAN /\ dirty \in BOOLEAN

StoreTypeOK ==
  /\ source \in Nat
  /\ dirs \in [Gens -> {"absent", "tmp", "complete"}]
  /\ content \in [Gens -> Nat]
  /\ active \in GenOrNone
  /\ lock \in LockType \cup {NoLock}
  /\ pc \in [Procs -> ProcPC]
  /\ op \in [Procs -> OpType]
  /\ pin \in [Readers -> GenOrNone]
  /\ seen \in [Readers -> SUBSET GenOrNone]
  /\ rpc \in [Readers -> ReaderPC]

(* Every variable keeps its type; in particular a rebuild that keeps       *)
(* losing the comparison stops after MaxAttempts attempts.                 *)
TypeOK == FlagsTypeOK /\ StoreTypeOK

(* The lock directory admits one writer at a time: no two live processes   *)
(* are between the mkdir of the lock and its removal.                      *)
OneWriter == \A p, q \in Procs : pc[p] \in Holding /\ pc[q] \in Holding => p = q

(* active.json never names a generation whose directory is missing,        *)
(* temporary or removed by a recovery; neither does the generation a       *)
(* running retrieval resolved go away under it.                            *)
ActiveIsComplete ==
  /\ active # NoGen => Valid(active)
  /\ \A r \in Readers : pin[r] # NoGen => Valid(pin[r])

(* A request that resolved a generation reads only that generation's       *)
(* files, however the pointer moves while it waits.                        *)
PinnedRequestReadsOneGeneration ==
  \A r \in Readers : pin[r] # NoGen => seen[r] \subseteq {pin[r]}

(* Going forward never loses documents: the pointer moves to a generation  *)
(* built from older documents only by a rollback.  The expected-active     *)
(* comparison must be against what was active before the documents were    *)
(* read, or a slow rebuild overwrites a newer one.                         *)
ContentNeverRegresses ==
  [][active' # active =>
       \/ ContentOf(active)' >= ContentOf(active)
       \/ \E p \in Procs : op[p].kind = "rollback" /\ pc[p] = "swap" /\ active' = op[p].gen]_vars

(* Not so (README, section 4), though                                      *)
(* openspec/changes/fix-answer-fidelity-and-retrieval-quality/design.md:353 *)
(* has it: whatever a publish or rollback runs into, finally gives the     *)
(* lock back; only a crash leaves one behind.                              *)
LiveOwnerReleases ==
  \A p \in Procs :
    (lock # NoLock /\ lock.pid = p /\ pc[p] \in Holding \ {"owner"}) ~> (lock = NoLock \/ ~Alive(p))

(* The store implements the compare-and-set pointer.  A process has asked  *)
(* for a swap from the moment it owns the lock to the moment it moves the  *)
(* pointer or gives up.                                                    *)
Asking == {"owner", "check", "build", "complete", "recheck", "validate", "swap"}
Requests ==
  [p \in Procs |-> IF pc[p] \in Asking
                     THEN [expected |-> op[p].expected, target |-> op[p].gen]
                     ELSE [expected |-> NoGen, target |-> NoGen]]
Pointer == INSTANCE ActivePointer WITH
             Clients <- Procs, complete <- {g \in Gens : dirs[g] = "complete"}, request <- Requests
PointerSpec == Pointer!Spec

(* Not so (README, section 4), though                                      *)
(* openspec/specs/layered-knowledge-diagnosis/spec.md:201 has it: a saved  *)
(* document leaves dirty.flag so that a future indexing refreshes the      *)
(* derived data.  While no flag is up (and none is about to be), the       *)
(* active index holds the current documents.                               *)
CleanMeansCurrent == ~dirty /\ ~marking => ContentOf(active) = source

CrashedLock(p) == lock # NoLock /\ lock.owned /\ lock.pid = p /\ ~Alive(p)
OwnerLost == lock # NoLock /\ ~lock.owned
LockIsCleared == lock = NoLock \/ OwnerLost \/ \A p \in Procs : ~Alive(p)

(* A lock left behind, by a process killed before it moved the pointer or  *)
(* by one that failed to remove it and ended later, does not block the     *)
(* store for ever: once owner.json exists, persistent recovery clears the  *)
(* lock, also when the pointer did not exist yet (owner.json then says     *)
(* null) and although recoveries are killed and fail half-way.  The one    *)
(* exception is a removal that took owner.json and not the directory.      *)
LockOfUnfinishedPublishIsCleared ==
  \A p \in Procs : (CrashedLock(p) /\ lock.expected = active) ~> LockIsCleared

=============================================================================
