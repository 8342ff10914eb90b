------------------------ MODULE GenerationStoreProofs ------------------------
(***************************************************************************)
(* Theorems about GenerationStore, for any number of processes, requests,  *)
(* generations, document changes and attempts.                             *)
(***************************************************************************)
EXTENDS GenerationStore, TLAPS

-----------------------------------------------------------------------------
(* Type correctness.  The flags are Boolean and everything else is sets    *)
(* and numbers, so the two halves of TypeOK are proved apart.              *)

LEMMA IdleOpType == IdleOp \in OpType
  BY BoundsAssumption DEF IdleOp, OpType, GenOrNone

LEMMA OpUpdate ==
  ASSUME StoreTypeOK, NEW p \in Procs, NEW o \in OpType, op' = [op EXCEPT ![p] = o]
  PROVE  op' \in [Procs -> OpType]
  BY DEF StoreTypeOK

LEMMA OpPrepared ==
  ASSUME NEW o \in OpType, NEW g \in GenOrNone, NEW n \in Nat
  PROVE  [o EXCEPT !.gen = g, !.prepared = n] \in OpType
  BY DEF OpType

LEMMA OpRetry ==
  ASSUME NEW n \in 1..MaxAttempts
  PROVE  [IdleOp EXCEPT !.kind = "rebuild", !.attempt = n] \in OpType
  BY DEF OpType, IdleOp, GenOrNone

LEMMA NextAttempt ==
  ASSUME NEW p \in Procs, op[p] \in OpType, CanRetry(p)
  PROVE  op[p].attempt + 1 \in 1..MaxAttempts
<1>1. op[p].attempt \in 1..MaxAttempts
  BY DEF OpType
<1> QED BY <1>1, BoundsAssumption DEF CanRetry

LEMMA LockOfType ==
  \A p \in Procs, owned \in BOOLEAN, e \in GenOrNone : LockOf(p, owned, e) \in LockType
  BY DEF LockOf, LockType

LEMMA ReadActiveType == StoreTypeOK => ReadActive \in GenOrNone
  BY DEF ReadActive, Valid, GenOrNone, StoreTypeOK

LEMMA InitType == Init => TypeOK
<1> SUFFICES ASSUME Init PROVE TypeOK
  OBVIOUS
<1>1. FlagsTypeOK
  BY Zenon DEF Init, FlagsTypeOK
<1>2. StoreTypeOK
  BY IdleOpType DEF Init, StoreTypeOK, GenOrNone, ProcPC, ReaderPC
<1> QED BY <1>1, <1>2 DEF TypeOK

LEMMA FlagsType ==
  ASSUME FlagsTypeOK, Next
  PROVE  FlagsTypeOK'
<1>1. ASSUME UNCHANGED <<marking, dirty>>
      PROVE  FlagsTypeOK'
  BY <1>1 DEF FlagsTypeOK
<1>2. CASE WriteDocument
  BY <1>2, Zenon DEF FlagsTypeOK, WriteDocument
<1>3. CASE MarkDirty
  BY <1>3, Zenon DEF FlagsTypeOK, MarkDirty
<1>4. CASE \E p \in Procs : Finalize(p)
  BY <1>4, Zenon DEF FlagsTypeOK, Finalize
<1>5. CASE LockAges
  BY <1>5, <1>1 DEF LockAges, docVars
<1>6. CASE \E r \in Readers : ReaderStep(r)
  BY <1>6, <1>1 DEF ReaderStep, StartRequest, ReadBm25Chunks, CheckCompatibility, ReadVectors,
                    ReadVectorChunks, EndRequest, ReadFiles, docVars
<1>7. CASE \E p \in Procs : Begin(p) \/ BeginRecovery(p) \/ RecoveryStep(p) \/ Crash(p)
  BY <1>7, <1>1 DEF Begin, BeginRecovery, RecoveryStep, CheckOwner, RefuseRecovery, CleanIncomplete,
                    CleanFails, RemoveStaleLock, UnlockFails, Crash, docVars
<1>8. CASE \E p \in Procs : PublishStep(p) /\ ~Finalize(p)
  BY <1>8, <1>1
     DEF PublishStep, ReadExpected, NothingActive, Prepare, Abandon, AcquireLock, LockBusy,
         WriteOwner, WriteOwnerFails, UnwindFails, CheckExpected, Conflict, BuildTemporary, CompleteDirectory,
         RecheckExpected, ValidatePrevious, SwapPointer, StepFails, Cleanup, CleanupFails, Release, ReleaseFails,
         ReleaseAndRetry, docVars
<1> QED BY <1>2, <1>3, <1>4, <1>5, <1>6, <1>7, <1>8 DEF Next

(* The removals that can fail, and the lock they leave. *)
RemovalFails(p) ==
  UnwindFails(p) \/ CleanupFails(p) \/ ReleaseFails(p) \/ CleanFails(p) \/ UnlockFails(p)

LEMMA LeftLock ==
  ASSUME StoreTypeOK, NEW p \in Procs, RemovalFails(p)
  PROVE  /\ lock' \in LockType \cup {NoLock}
         /\ UnwindFails(p) \/ lock' = lock \/ (lock # NoLock /\ lock' # NoLock /\ lock'.pid = lock.pid)
<1>1. CASE UnwindFails(p)
  <2>1. op[p].expected \in GenOrNone
    BY DEF StoreTypeOK, OpType
  <2>2. LockOf(p, FALSE, NoGen) \in LockType /\ LockOf(p, TRUE, op[p].expected) \in LockType
    BY <2>1, LockOfType DEF GenOrNone
  <2> QED BY <1>1, <2>2 DEF UnwindFails
<1>2. CASE CleanupFails(p) \/ CleanFails(p)
  BY <1>2 DEF CleanupFails, CleanFails, StoreTypeOK
<1>3. CASE ReleaseFails(p) \/ UnlockFails(p)
  <2>1. lock \in LockType /\ lock' \in {lock, [lock EXCEPT !.owned = FALSE]}
    BY <1>3 DEF ReleaseFails, UnlockFails, BrokenOff, StoreTypeOK
  <2>2. [lock EXCEPT !.owned = FALSE] \in LockType /\ [lock EXCEPT !.owned = FALSE].pid = lock.pid
    BY <2>1 DEF LockType
  <2> QED BY <2>1, <2>2, NoLockAssumption
<1> QED BY <1>1, <1>2, <1>3 DEF RemovalFails

LEMMA StoreType ==
  ASSUME StoreTypeOK, Next
  PROVE  StoreTypeOK'
<1> USE DEF StoreTypeOK, docVars, fileVars, readVars
<1>1. CASE WriteDocument \/ MarkDirty
  BY <1>1, SMT DEF WriteDocument, MarkDirty
<1>2. CASE LockAges
  BY <1>2 DEF LockAges, LockType
<1>3. ASSUME NEW r \in Readers, ReaderStep(r)
      PROVE  StoreTypeOK'
  BY <1>3, ReadActiveType
     DEF ReaderStep, StartRequest, ReadBm25Chunks, CheckCompatibility, ReadVectors,
         ReadVectorChunks, EndRequest, ReadFiles, ResolveOrActive, ReaderPC, GenOrNone
<1>4. ASSUME NEW p \in Procs, Begin(p) \/ BeginRecovery(p) \/ PublishStep(p) \/ RecoveryStep(p) \/ Crash(p)
      PROVE  StoreTypeOK'
  <2> USE IdleOpType, ReadActiveType DEF Goto, Finish, ProcPC, Holding, Recovering
  <2>1. CASE Begin(p)
    BY <2>1, KindsAssumption DEF Begin, OpType
  <2>2. CASE ReadExpected(p)
    BY <2>2 DEF ReadExpected, OpType
  <2>3. CASE Prepare(p)
    <3>1. PreparedFrom(p) \in Nat
      BY DEF PreparedFrom, ContentOf, OpType, GenOrNone
    <3>2. PICK g \in Gens : op' = [op EXCEPT ![p] = [op[p] EXCEPT !.gen = g, !.prepared = PreparedFrom(p)]]
      BY <2>3 DEF Prepare
    <3>3. [op[p] EXCEPT !.gen = g, !.prepared = PreparedFrom(p)] \in OpType
      BY <3>1, OpPrepared DEF GenOrNone
    <3>4. op' \in [Procs -> OpType]
      BY <3>2, <3>3, OpUpdate
    <3> QED BY <2>3, <3>4 DEF Prepare
  <2>4. CASE NothingActive(p) \/ Abandon(p) \/ LockBusy(p) \/ WriteOwnerFails(p) \/ Finalize(p)
    BY <2>4 DEF NothingActive, Abandon, LockBusy, WriteOwnerFails, Finalize
  <2>5. CASE AcquireLock(p)
    <3>1. LockOf(p, FALSE, NoGen) \in LockType
      BY LockOfType DEF GenOrNone
    <3> QED BY <2>5, <3>1 DEF AcquireLock
  <2>6. CASE WriteOwner(p)
    <3>1. op[p].expected \in GenOrNone
      BY DEF OpType
    <3>2. LockOf(p, TRUE, op[p].expected) \in LockType
      BY <3>1, LockOfType
    <3> QED BY <2>6, <3>2 DEF WriteOwner
  <2>7. CASE CheckExpected(p) \/ RecheckExpected(p) \/ ValidatePrevious(p)
    BY <2>7 DEF CheckExpected, RecheckExpected, ValidatePrevious
  <2>8. CASE Conflict(p)
    BY <2>8 DEF Conflict, OpType
  <2>9. CASE BuildTemporary(p)
    BY <2>9 DEF BuildTemporary
  <2>10. CASE CompleteDirectory(p)
    BY <2>10 DEF CompleteDirectory, OpType
  <2>11. CASE SwapPointer(p)
    BY <2>11 DEF SwapPointer, OpType
  <2>12. CASE StepFails(p)
    BY <2>12 DEF StepFails, OpType
  <2>13. CASE Cleanup(p)
    BY <2>13 DEF Cleanup
  <2>14. CASE Release(p)
    BY <2>14 DEF Release
  <2>15. CASE ReleaseAndRetry(p)
    <3>1. [IdleOp EXCEPT !.kind = "rebuild", !.attempt = op[p].attempt + 1] \in OpType
      BY <2>15, NextAttempt, OpRetry DEF ReleaseAndRetry
    <3>2. op' \in [Procs -> OpType]
      BY <2>15, <3>1, OpUpdate DEF ReleaseAndRetry
    <3> QED BY <2>15, <3>2 DEF ReleaseAndRetry
  <2>16. CASE BeginRecovery(p)
    <3>1. [IdleOp EXCEPT !.kind = "recover", !.expected = active] \in OpType
      BY DEF OpType
    <3>2. op' \in [Procs -> OpType]
      BY <2>16, <3>1, OpUpdate DEF BeginRecovery
    <3> QED BY <2>16, <3>2 DEF BeginRecovery
  <2>17. CASE CheckOwner(p) \/ RefuseRecovery(p) \/ CleanIncomplete(p) \/ RemoveStaleLock(p)
    BY <2>17 DEF CheckOwner, RefuseRecovery, CleanIncomplete, RemoveStaleLock
  <2>18. CASE Crash(p)
    BY <2>18 DEF Crash
  <2>19. CASE RemovalFails(p)
    <3>1. lock' \in LockType \cup {NoLock}
      BY <2>19, LeftLock
    <3> QED BY <2>19, <3>1 DEF RemovalFails, UnwindFails, CleanupFails, ReleaseFails, CleanFails, UnlockFails
  <2> QED
    BY <1>4, <2>1, <2>2, <2>3, <2>4, <2>5, <2>6, <2>7, <2>8, <2>9, <2>10, <2>11, <2>12, <2>13,
       <2>14, <2>15, <2>16, <2>17, <2>18, <2>19
       DEF PublishStep, RecoveryStep, RemovalFails
<1> QED BY <1>1, <1>2, <1>3, <1>4 DEF Next

(* Every variable keeps its type in every reachable state, and a rebuild   *)
(* never starts more than MaxAttempts attempts.                            *)
THEOREM TypeCorrect == Spec => []TypeOK
<1>1. TypeOK /\ [Next]_vars => TypeOK'
  <2> SUFFICES ASSUME TypeOK, [Next]_vars PROVE TypeOK'
    OBVIOUS
  <2>1. CASE Next
    BY <2>1, FlagsType, StoreType DEF TypeOK
  <2>2. CASE UNCHANGED vars
    BY <2>2 DEF TypeOK, FlagsTypeOK, StoreTypeOK, vars
  <2> QED BY <2>1, <2>2
<1> QED BY <1>1, InitType, PTL DEF Spec

-----------------------------------------------------------------------------
(* Complete generations.  The pointer, the pins of the requests and the    *)
(* expectations of the processes all name complete generations, and no     *)
(* step takes a complete generation away.  This needs no lock: it also     *)
(* holds when two operators recover at once.                               *)

CompleteInv ==
  /\ active # NoGen => Valid(active)
  /\ \A r \in Readers : pin[r] # NoGen => Valid(pin[r])
  /\ \A p \in Procs : op[p].expected # NoGen => Valid(op[p].expected)
  /\ \A p \in Procs : pc[p] \in Holding \cup {"acquire"} => op[p].gen \in Gens
  /\ \A p \in Procs : pc[p] \in {"recheck", "swap"} => Valid(op[p].gen)

LEMMA CompleteStays ==
  ASSUME TypeOK, Next, NEW g \in Gens, dirs[g] = "complete"
  PROVE  dirs'[g] = "complete"
<1> USE DEF TypeOK, StoreTypeOK, docVars, fileVars, readVars
<1>1. CASE UNCHANGED dirs
  BY <1>1
<1>2. CASE \E p \in Procs : BuildTemporary(p) \/ CompleteDirectory(p) \/ Cleanup(p) \/ CleanIncomplete(p)
  BY <1>2 DEF BuildTemporary, CompleteDirectory, Cleanup, CleanIncomplete, Incomplete
<1>3. CASE WriteDocument \/ MarkDirty \/ LockAges \/ \E r \in Readers : ReaderStep(r)
  BY <1>3, <1>1
     DEF WriteDocument, MarkDirty, LockAges, ReaderStep, StartRequest, ReadBm25Chunks,
         CheckCompatibility, ReadVectors, ReadVectorChunks, EndRequest, ReadFiles
<1>4. CASE \E p \in Procs :
             \/ Begin(p) \/ BeginRecovery(p) \/ CheckOwner(p) \/ RefuseRecovery(p)
             \/ RemoveStaleLock(p) \/ RemovalFails(p) \/ Crash(p) \/ ReadExpected(p)
             \/ NothingActive(p) \/ Prepare(p) \/ Abandon(p) \/ AcquireLock(p) \/ LockBusy(p) \/ WriteOwner(p)
             \/ WriteOwnerFails(p) \/ CheckExpected(p) \/ Conflict(p) \/ RecheckExpected(p)
             \/ ValidatePrevious(p) \/ SwapPointer(p) \/ StepFails(p) \/ Release(p)
             \/ ReleaseAndRetry(p) \/ Finalize(p)
  BY <1>4, <1>1
     DEF Begin, BeginRecovery, CheckOwner, RefuseRecovery, RemoveStaleLock, RemovalFails, CleanFails, UnlockFails, Crash, ReadExpected,
         NothingActive, Prepare, Abandon, AcquireLock, LockBusy, WriteOwner, WriteOwnerFails, UnwindFails,
         CheckExpected, Conflict, RecheckExpected, ValidatePrevious, SwapPointer, StepFails,
         CleanupFails, ReleaseFails, Release, ReleaseAndRetry, Finalize
<1> QED BY <1>1, <1>2, <1>3, <1>4 DEF Next, PublishStep, RecoveryStep, RemovalFails

LEMMA ReadActiveValid == ReadActive = NoGen \/ Valid(ReadActive)
  BY DEF ReadActive

LEMMA CompleteInit == Init => CompleteInv
  BY DEF Init, CompleteInv, IdleOp, Holding

LEMMA CompleteStep ==
  ASSUME TypeOK, CompleteInv, Next
  PROVE  CompleteInv'
<1> USE DEF TypeOK, StoreTypeOK, CompleteInv, docVars, fileVars, readVars
<1>1. \A g : Valid(g) => Valid(g)'
  BY CompleteStays DEF Valid
<1>2. CASE WriteDocument \/ MarkDirty \/ LockAges
  BY <1>2, <1>1 DEF WriteDocument, MarkDirty, LockAges
<1>3. ASSUME NEW r \in Readers, ReaderStep(r)
      PROVE  CompleteInv'
  BY <1>3, <1>1, ReadActiveValid
     DEF ReaderStep, StartRequest, ReadBm25Chunks, CheckCompatibility, ReadVectors,
         ReadVectorChunks, EndRequest, ReadFiles
<1>4. ASSUME NEW p \in Procs, Begin(p) \/ BeginRecovery(p) \/ PublishStep(p) \/ RecoveryStep(p) \/ Crash(p)
      PROVE  CompleteInv'
  <2> USE <1>1 DEF Goto, Finish, IdleOp, Holding
  <2>1. CASE Begin(p)
    BY <2>1 DEF Begin
  <2>2. CASE ReadExpected(p)
    BY <2>2, ReadActiveValid DEF ReadExpected
  <2>3. CASE Prepare(p)
    BY <2>3 DEF Prepare
  <2>4. CASE NothingActive(p) \/ Abandon(p) \/ LockBusy(p) \/ WriteOwnerFails(p) \/ Finalize(p)
    BY <2>4 DEF NothingActive, Abandon, LockBusy, WriteOwnerFails, Finalize
  <2>5. CASE AcquireLock(p) \/ WriteOwner(p)
    BY <2>5 DEF AcquireLock, WriteOwner
  <2>6. CASE CheckExpected(p)
    BY <2>6 DEF CheckExpected
  <2>7. CASE Conflict(p)
    BY <2>7 DEF Conflict
  <2>8. CASE BuildTemporary(p)
    BY <2>8 DEF BuildTemporary
  <2>9. CASE CompleteDirectory(p)
    <3>1. op[p].gen \in Gens /\ dirs'[op[p].gen] = "complete"
      BY <2>9 DEF CompleteDirectory
    <3> QED BY <2>9, <3>1 DEF CompleteDirectory, Valid
  <2>10. CASE RecheckExpected(p)
    BY <2>10 DEF RecheckExpected
  <2>11. CASE ValidatePrevious(p)
    BY <2>11 DEF ValidatePrevious
  <2>12. CASE SwapPointer(p)
    BY <2>12 DEF SwapPointer
  <2>13. CASE StepFails(p)
    BY <2>13 DEF StepFails, Fallible
  <2>14. CASE Cleanup(p)
    BY <2>14 DEF Cleanup
  <2>15. CASE Release(p)
    BY <2>15 DEF Release
  <2>16. CASE ReleaseAndRetry(p)
    BY <2>16 DEF ReleaseAndRetry
  <2>17. CASE BeginRecovery(p)
    BY <2>17 DEF BeginRecovery
  <2>18. CASE CheckOwner(p) \/ RefuseRecovery(p) \/ CleanIncomplete(p) \/ RemoveStaleLock(p)
    BY <2>18 DEF CheckOwner, RefuseRecovery, CleanIncomplete, RemoveStaleLock
  <2>19. CASE Crash(p)
    BY <2>19 DEF Crash
  <2>20. CASE RemovalFails(p)
    <3>1. /\ pc' = [pc EXCEPT ![p] = "idle"] /\ op' = [op EXCEPT ![p] = IdleOp]
          /\ UNCHANGED <<dirs, active, pin>>
      BY <2>20 DEF RemovalFails, UnwindFails, CleanupFails, ReleaseFails, CleanFails, UnlockFails
    <3> QED BY <3>1
  <2> QED
    BY <1>4, <2>1, <2>2, <2>3, <2>4, <2>5, <2>6, <2>7, <2>8, <2>9, <2>10, <2>11, <2>12, <2>13,
       <2>14, <2>15, <2>16, <2>17, <2>18, <2>19, <2>20
       DEF PublishStep, RecoveryStep, RemovalFails
<1> QED BY <1>2, <1>3, <1>4 DEF Next

LEMMA CompleteInvariant == Spec => []CompleteInv
<1>1. TypeOK /\ CompleteInv /\ [Next]_vars => CompleteInv'
  <2> SUFFICES ASSUME TypeOK, CompleteInv, [Next]_vars PROVE CompleteInv'
    OBVIOUS
  <2>1. CASE Next
    BY <2>1, CompleteStep
  <2>2. CASE UNCHANGED vars
    BY <2>2 DEF CompleteInv, Valid, vars
  <2> QED BY <2>1, <2>2
<1> QED BY <1>1, CompleteInit, TypeCorrect, PTL DEF Spec

(* The generation the pointer names, and the one each running retrieval    *)
(* resolved, is complete in every reachable state, whatever crashes,       *)
(* rollbacks and (even concurrent) recoveries happen.                      *)
THEOREM ActiveAlwaysComplete == Spec => []ActiveIsComplete
<1>1. CompleteInv => ActiveIsComplete
  BY DEF CompleteInv, ActiveIsComplete
<1> QED BY <1>1, CompleteInvariant, PTL

-----------------------------------------------------------------------------
(* The lock.  With one recovery at a time the lock directory of a live     *)
(* process is removed by that process only: a recovery that has seen a     *)
(* dead owner still finds the same lock when it removes it, because the    *)
(* dead do not release and nobody else recovers.                           *)

LockInv ==
  /\ \A p \in Procs : pc[p] \in Holding => lock # NoLock /\ lock.pid = p
  /\ \A p, q \in Procs : pc[p] \in Recovering /\ pc[q] \in Recovering => p = q
  /\ \A p \in Procs : pc[p] \in {"rec_clean", "rec_unlock"} => lock # NoLock /\ pc[lock.pid] = "dead"

LEMMA LockInit == Init => LockInv
  BY DEF Init, LockInv, Holding, Recovering

LEMMA LockStep ==
  ASSUME OneOperator, TypeOK, LockInv, Next
  PROVE  LockInv'
<1> USE DEF TypeOK, StoreTypeOK, LockInv, docVars, fileVars, readVars
<1>1. CASE WriteDocument \/ MarkDirty
  BY <1>1 DEF WriteDocument, MarkDirty
<1>2. CASE LockAges
  BY <1>2, NoLockAssumption DEF LockAges, LockType
<1>3. ASSUME NEW r \in Readers, ReaderStep(r)
      PROVE  LockInv'
  BY <1>3
     DEF ReaderStep, StartRequest, ReadBm25Chunks, CheckCompatibility, ReadVectors,
         ReadVectorChunks, EndRequest, ReadFiles
<1>4. ASSUME NEW p \in Procs, Begin(p) \/ BeginRecovery(p) \/ PublishStep(p) \/ RecoveryStep(p) \/ Crash(p)
      PROVE  LockInv'
  <2> USE DEF Goto, Finish, Holding, Recovering
  <2>1. CASE Begin(p) \/ ReadExpected(p) \/ Prepare(p)
    <3>1. CASE Begin(p)
      BY <3>1 DEF Begin
    <3>2. CASE ReadExpected(p)
      BY <3>2 DEF ReadExpected
    <3>3. CASE Prepare(p)
      BY <3>3 DEF Prepare
    <3> QED BY <2>1, <3>1, <3>2, <3>3
  <2>2. CASE NothingActive(p) \/ Abandon(p) \/ LockBusy(p) \/ Finalize(p)
    <3>1. CASE NothingActive(p)
      BY <3>1 DEF NothingActive
    <3>2. CASE Abandon(p)
      BY <3>2 DEF Abandon
    <3>3. CASE LockBusy(p)
      BY <3>3 DEF LockBusy
    <3>4. CASE Finalize(p)
      BY <3>4 DEF Finalize
    <3> QED BY <2>2, <3>1, <3>2, <3>3, <3>4
  <2>3. CASE AcquireLock(p)
    <3>1. LockOf(p, FALSE, NoGen) # NoLock /\ LockOf(p, FALSE, NoGen).pid = p
      BY LockOfType, NoLockAssumption DEF LockOf, GenOrNone
    <3> QED BY <2>3, <3>1 DEF AcquireLock
  <2>4. CASE WriteOwner(p)
    <3>1. op[p].expected \in GenOrNone
      BY DEF OpType
    <3>2. LockOf(p, TRUE, op[p].expected) # NoLock /\ LockOf(p, TRUE, op[p].expected).pid = p
      BY <3>1, LockOfType, NoLockAssumption DEF LockOf
    <3> QED BY <2>4, <3>2 DEF WriteOwner
  <2>5. CASE CheckExpected(p) \/ RecheckExpected(p) \/ ValidatePrevious(p)
    BY <2>5 DEF CheckExpected, RecheckExpected, ValidatePrevious
  <2>6. CASE Conflict(p) \/ StepFails(p) \/ SwapPointer(p)
    BY <2>6 DEF Conflict, StepFails, Fallible, SwapPointer
  <2>7. CASE BuildTemporary(p) \/ CompleteDirectory(p) \/ Cleanup(p)
    BY <2>7 DEF BuildTemporary, CompleteDirectory, Cleanup
  <2>8. CASE WriteOwnerFails(p) \/ ReleaseAndRetry(p)
    BY <2>8 DEF WriteOwnerFails, ReleaseAndRetry
  <2>9. CASE Release(p)
    BY <2>9 DEF Release
  <2>10. CASE BeginRecovery(p)
    BY <2>10 DEF BeginRecovery
  <2>11. CASE CheckOwner(p)
    BY <2>11 DEF CheckOwner, OwnerIsStale, Alive
  <2>12. CASE RefuseRecovery(p)
    BY <2>12 DEF RefuseRecovery
  <2>13. CASE CleanIncomplete(p)
    BY <2>13 DEF CleanIncomplete
  <2>14. CASE RemoveStaleLock(p)
    BY <2>14 DEF RemoveStaleLock
  <2>15. CASE Crash(p)
    BY <2>15 DEF Crash
  <2>16. CASE RemovalFails(p)
    <3>1. pc' = [pc EXCEPT ![p] = "idle"] /\ pc[p] # "dead"
      BY <2>16 DEF RemovalFails, UnwindFails, CleanupFails, ReleaseFails, CleanFails, UnlockFails
    <3>2. CASE UnwindFails(p)
      BY <3>1, <3>2 DEF UnwindFails
    <3>3. CASE lock' = lock \/ (lock # NoLock /\ lock' # NoLock /\ lock'.pid = lock.pid)
      BY <3>1, <3>3
    <3> QED BY <2>16, <3>2, <3>3, LeftLock
  <2> QED
    BY <1>4, <2>1, <2>2, <2>3, <2>4, <2>5, <2>6, <2>7, <2>8, <2>9, <2>10, <2>11, <2>12, <2>13,
       <2>14, <2>15, <2>16
       DEF PublishStep, RecoveryStep, RemovalFails
<1> QED BY <1>1, <1>2, <1>3, <1>4 DEF Next

LEMMA LockInvariant == ASSUME OneOperator PROVE Spec => []LockInv
<1>1. TypeOK /\ LockInv /\ [Next]_vars => LockInv'
  <2> SUFFICES ASSUME TypeOK, LockInv, [Next]_vars PROVE LockInv'
    OBVIOUS
  <2>1. CASE Next
    BY <2>1, LockStep
  <2>2. CASE UNCHANGED vars
    BY <2>2 DEF LockInv, vars
  <2> QED BY <2>1, <2>2
<1> QED BY <1>1, LockInit, TypeCorrect, PTL DEF Spec

(* As long as nobody starts a recovery while another one runs, no two live *)
(* processes are in the locked section together, however many of them      *)
(* publish, roll back, fail or are killed.                                 *)
THEOREM MutualExclusion == ASSUME OneOperator PROVE Spec => []OneWriter
<1>1. LockInv => OneWriter
  BY DEF LockInv, OneWriter
<1> QED BY <1>1, LockInvariant, PTL

-----------------------------------------------------------------------------
(* Documents never regress.                                                *)

(* What a process that is about to move the pointer may rely on: it read   *)
(* the documents after it read the pointer, so its candidate is at least   *)
(* as new as what it expects; and what it expects is what is active.       *)
OpContent(p) ==
  /\ pc[p] \in {"read", "prepare"} => op[p].kind \in {"rebuild", "vector", "rollback"}
  /\ pc[p] = "validate" => op[p].kind = "rollback"
  /\ pc[p] \in {"build", "complete", "recheck"} => op[p].kind # "rollback"
  /\ pc[p] \in {"validate", "swap"} => active = op[p].expected
  /\ pc[p] \in Asking \cup {"acquire"} /\ op[p].kind # "rollback"
       => ContentOf(op[p].expected) <= op[p].prepared /\ op[p].prepared <= source
  /\ pc[p] \in {"recheck", "swap"} /\ op[p].kind # "rollback"
       => content[op[p].gen] = op[p].prepared

ContentInv ==
  /\ \A g \in Gens : content[g] <= source
  /\ \A p \in Procs : OpContent(p)

LEMMA ContentInit == Init => ContentInv
  BY DEF Init, ContentInv, OpContent, Asking

(* The documents of a complete generation do not change. *)
LEMMA ContentStays ==
  ASSUME TypeOK, Next, NEW g \in Gens, dirs[g] = "complete"
  PROVE  content'[g] = content[g]
<1> USE DEF TypeOK, StoreTypeOK, docVars, fileVars, readVars
<1>1. CASE UNCHANGED content
  BY <1>1
<1>2. CASE \E p \in Procs : CompleteDirectory(p)
  BY <1>2 DEF CompleteDirectory
<1>3. CASE WriteDocument \/ MarkDirty \/ LockAges \/ \E r \in Readers : ReaderStep(r)
  BY <1>3, <1>1
     DEF WriteDocument, MarkDirty, LockAges, ReaderStep, StartRequest, ReadBm25Chunks,
         CheckCompatibility, ReadVectors, ReadVectorChunks, EndRequest, ReadFiles
<1>4. CASE \E p \in Procs :
             \/ Begin(p) \/ BeginRecovery(p) \/ RecoveryStep(p) \/ Crash(p)
             \/ PublishStep(p) /\ ~CompleteDirectory(p)
  BY <1>4, <1>1
     DEF Begin, BeginRecovery, RecoveryStep, CheckOwner, RefuseRecovery, CleanIncomplete,
         CleanFails, RemoveStaleLock, UnlockFails, Crash, PublishStep, ReadExpected,
         NothingActive, Prepare, Abandon, AcquireLock, LockBusy, WriteOwner, WriteOwnerFails, UnwindFails,
         CheckExpected, Conflict, BuildTemporary, RecheckExpected, ValidatePrevious, SwapPointer,
         StepFails, Cleanup, CleanupFails, Release, ReleaseFails, ReleaseAndRetry, Finalize
<1> QED BY <1>1, <1>2, <1>3, <1>4 DEF Next

(* Only the completion of a directory changes what a generation holds. *)
LEMMA ContentMoves ==
  ASSUME TypeOK, Next, content' # content
  PROVE  \E p \in Procs : CompleteDirectory(p)
<1> USE DEF docVars, fileVars, readVars
<1>1. ~(WriteDocument \/ MarkDirty \/ LockAges \/ \E r \in Readers : ReaderStep(r))
  BY DEF WriteDocument, MarkDirty, LockAges, ReaderStep, StartRequest, ReadBm25Chunks,
         CheckCompatibility, ReadVectors, ReadVectorChunks, EndRequest, ReadFiles
<1>2. PICK p \in Procs : Begin(p) \/ BeginRecovery(p) \/ PublishStep(p) \/ RecoveryStep(p) \/ Crash(p)
  BY <1>1 DEF Next
<1> QED
  BY <1>2
     DEF Begin, BeginRecovery, RecoveryStep, CheckOwner, RefuseRecovery, CleanIncomplete,
         CleanFails, RemoveStaleLock, UnlockFails, Crash, PublishStep, ReadExpected,
         NothingActive, Prepare, Abandon, AcquireLock, LockBusy, WriteOwner, WriteOwnerFails, UnwindFails,
         CheckExpected, Conflict, BuildTemporary, RecheckExpected, ValidatePrevious, SwapPointer,
         StepFails, Cleanup, CleanupFails, Release, ReleaseFails, ReleaseAndRetry, Finalize

LEMMA SourceGrows == ASSUME TypeOK, Next PROVE source' \in Nat /\ source <= source'
<1> USE DEF TypeOK, StoreTypeOK, docVars, fileVars, readVars
<1>1. CASE UNCHANGED source
  BY <1>1
<1>2. CASE WriteDocument
  BY <1>2 DEF WriteDocument
<1>3. CASE MarkDirty \/ LockAges \/ \E r \in Readers : ReaderStep(r)
  BY <1>3, <1>1
     DEF MarkDirty, LockAges, ReaderStep, StartRequest, ReadBm25Chunks,
         CheckCompatibility, ReadVectors, ReadVectorChunks, EndRequest, ReadFiles
<1>4. CASE \E p \in Procs : Begin(p) \/ BeginRecovery(p) \/ PublishStep(p) \/ RecoveryStep(p) \/ Crash(p)
  BY <1>4, <1>1
     DEF Begin, BeginRecovery, RecoveryStep, CheckOwner, RefuseRecovery, CleanIncomplete,
         CleanFails, RemoveStaleLock, UnlockFails, Crash, PublishStep, ReadExpected,
         NothingActive, Prepare, Abandon, AcquireLock, LockBusy, WriteOwner, WriteOwnerFails, UnwindFails,
         CheckExpected, Conflict, BuildTemporary, CompleteDirectory, RecheckExpected,
         ValidatePrevious, SwapPointer, StepFails, Cleanup, CleanupFails, Release, ReleaseFails, ReleaseAndRetry, Finalize
<1> QED BY <1>1, <1>2, <1>3, <1>4 DEF Next

(* A process that does not move itself keeps what it relies on, unless the *)
(* pointer moves under it.                                                 *)
LEMMA OpContentStays ==
  ASSUME TypeOK, CompleteInv, Next, NEW p \in Procs, OpContent(p),
         pc'[p] = pc[p], op'[p] = op[p],
         active' = active \/ pc[p] \notin {"validate", "swap"}
  PROVE  OpContent(p)'
<1> USE DEF TypeOK, StoreTypeOK
<1>1. op[p].expected \in GenOrNone /\ op[p].prepared \in Nat /\ source \in Nat
  BY DEF OpType
<1>2. source <= source' /\ source' \in Nat
  BY SourceGrows
<1>3. ContentOf(op[p].expected) \in Nat
  BY <1>1 DEF ContentOf, GenOrNone
<1>4. ContentOf(op[p].expected)' = ContentOf(op[p].expected)
  <2>1. CASE op[p].expected = NoGen
    BY <2>1 DEF ContentOf
  <2>2. CASE op[p].expected # NoGen
    BY <2>2, ContentStays DEF CompleteInv, Valid, ContentOf
  <2> QED BY <2>1, <2>2
<1>5. pc[p] \in {"recheck", "swap"} => content'[op[p].gen] = content[op[p].gen]
  BY ContentStays DEF CompleteInv, Valid
<1> QED BY <1>1, <1>2, <1>3, <1>4, <1>5 DEF OpContent, Asking

(* Only a process that holds the lock moves the pointer, and it is the     *)
(* only one that does.                                                     *)
LEMMA OnlySwapMoves ==
  ASSUME TypeOK, Next, active' # active
  PROVE  \E p \in Procs : SwapPointer(p)
<1> USE DEF docVars, fileVars, readVars
<1>1. ~(WriteDocument \/ MarkDirty \/ LockAges \/ \E r \in Readers : ReaderStep(r))
  BY DEF WriteDocument, MarkDirty, LockAges, ReaderStep, StartRequest, ReadBm25Chunks,
         CheckCompatibility, ReadVectors, ReadVectorChunks, EndRequest, ReadFiles
<1>2. PICK p \in Procs : Begin(p) \/ BeginRecovery(p) \/ PublishStep(p) \/ RecoveryStep(p) \/ Crash(p)
  BY <1>1 DEF Next
<1> QED
  BY <1>2
     DEF Begin, BeginRecovery, RecoveryStep, CheckOwner, RefuseRecovery, CleanIncomplete,
         CleanFails, RemoveStaleLock, UnlockFails, Crash, PublishStep, ReadExpected,
         NothingActive, Prepare, Abandon, AcquireLock, LockBusy, WriteOwner, WriteOwnerFails, UnwindFails,
         CheckExpected, Conflict, BuildTemporary, CompleteDirectory, RecheckExpected,
         ValidatePrevious, StepFails, Cleanup, CleanupFails, Release, ReleaseFails, ReleaseAndRetry, Finalize

LEMMA OthersStay ==
  ASSUME TypeOK, Next, NEW p \in Procs, NEW q \in Procs, q # p,
         Begin(p) \/ BeginRecovery(p) \/ PublishStep(p) \/ RecoveryStep(p) \/ Crash(p)
  PROVE  pc'[q] = pc[q] /\ op'[q] = op[q]
  BY DEF TypeOK, StoreTypeOK, docVars, fileVars, readVars, Goto, Finish,
         Begin, BeginRecovery, RecoveryStep, CheckOwner, RefuseRecovery, CleanIncomplete,
         CleanFails, RemoveStaleLock, UnlockFails, Crash, PublishStep, ReadExpected,
         NothingActive, Prepare, Abandon, AcquireLock, LockBusy, WriteOwner, WriteOwnerFails, UnwindFails,
         CheckExpected, Conflict, BuildTemporary, CompleteDirectory, RecheckExpected,
         ValidatePrevious, SwapPointer, StepFails, Cleanup, CleanupFails, Release, ReleaseFails, ReleaseAndRetry, Finalize

LEMMA ActorKeepsContent ==
  ASSUME TypeOK, CompleteInv, ContentInv, NEW p \in Procs,
         Begin(p) \/ BeginRecovery(p) \/ PublishStep(p) \/ RecoveryStep(p) \/ Crash(p)
  PROVE  OpContent(p)'
<1> USE DEF TypeOK, StoreTypeOK, ContentInv, OpContent, Asking, Goto, Finish,
            docVars, fileVars, readVars
<1>1. CASE Begin(p)
  BY <1>1, KindsAssumption DEF Begin, OpType
<1>2. CASE ReadExpected(p)
  BY <1>2 DEF ReadExpected, OpType
<1>3. CASE NothingActive(p) \/ Abandon(p) \/ LockBusy(p) \/ Finalize(p)
  <2>1. pc'[p] = "idle"
    BY <1>3 DEF NothingActive, Abandon, LockBusy, Finalize
  <2> QED BY <2>1
<1>4. CASE Prepare(p)
  <2>1. PICK g \in Gens : op' = [op EXCEPT ![p] = [@ EXCEPT !.gen = g, !.prepared = PreparedFrom(p)]]
    BY <1>4 DEF Prepare
  <2>2. /\ op'[p].kind = op[p].kind
        /\ op'[p].expected = op[p].expected
        /\ op'[p].prepared = PreparedFrom(p)
    BY <2>1 DEF OpType
  <2>3. UNCHANGED <<source, content>> /\ pc'[p] = "acquire"
    BY <1>4 DEF Prepare
  <2>4. ContentOf(op[p].expected)' = ContentOf(op'[p].expected)
    BY <2>2, <2>3 DEF ContentOf
  <2>5. ContentOf(op[p].expected) <= source /\ ContentOf(op[p].expected) \in Nat
    BY DEF ContentOf, OpType, GenOrNone
  <2>6. op[p].kind # "rollback" => PreparedFrom(p) \in {source, ContentOf(op[p].expected)}
    BY <1>4 DEF PreparedFrom, Prepare
  <2> QED BY <2>2, <2>3, <2>4, <2>5, <2>6 DEF ContentOf
<1>5. CASE AcquireLock(p) \/ WriteOwner(p) \/ BuildTemporary(p)
  <2>1. \/ pc[p] \in {"acquire", "owner"} /\ pc'[p] \in {"owner", "check"}
        \/ pc[p] = "build" /\ pc'[p] = "complete"
    BY <1>5 DEF AcquireLock, WriteOwner, BuildTemporary
  <2>2. UNCHANGED <<op, source, content>>
    BY <1>5 DEF AcquireLock, WriteOwner, BuildTemporary
  <2> QED BY <2>1, <2>2 DEF ContentOf
<1>6. CASE WriteOwnerFails(p) \/ Release(p) \/ RemoveStaleLock(p) \/ RefuseRecovery(p)
  <2>1. pc'[p] \in {"idle", "finalize"}
    BY <1>6 DEF WriteOwnerFails, Release, RemoveStaleLock, RefuseRecovery
  <2> QED BY <2>1
<1>7. CASE CheckExpected(p)
  <2>1. active = op[p].expected
    BY <1>7 DEF CheckExpected, AsExpected, ReadActive, CompleteInv
  <2> QED BY <1>7, <2>1 DEF CheckExpected, ContentOf
<1>8. CASE Conflict(p) \/ StepFails(p) \/ SwapPointer(p)
  <2>1. pc'[p] = "cleanup"
    BY <1>8 DEF Conflict, StepFails, SwapPointer
  <2> QED BY <2>1
<1>9. CASE CompleteDirectory(p)
  <2>1. /\ pc[p] = "complete" /\ pc'[p] = "recheck" /\ UNCHANGED <<op, source>>
        /\ op[p].gen \in Gens /\ dirs[op[p].gen] = "tmp"
        /\ content' = [content EXCEPT ![op[p].gen] = op[p].prepared]
    BY <1>9 DEF CompleteDirectory, CompleteInv, Holding
  <2>2. op[p].expected # NoGen => op[p].expected # op[p].gen
    BY <2>1 DEF CompleteInv, Valid
  <2>3. ContentOf(op[p].expected)' = ContentOf(op[p].expected)
    BY <2>1, <2>2 DEF ContentOf, CompleteInv, Valid
  <2> QED BY <2>1, <2>3
<1>10. CASE RecheckExpected(p)
  <2>1. active = op[p].expected
    BY <1>10 DEF RecheckExpected, AsExpected, ReadActive, CompleteInv
  <2> QED BY <1>10, <2>1 DEF RecheckExpected, ContentOf
<1>11. CASE ValidatePrevious(p)
  BY <1>11 DEF ValidatePrevious, ContentOf
<1>12. CASE Cleanup(p)
  <2>1. pc'[p] = "release"
    BY <1>12 DEF Cleanup
  <2> QED BY <2>1
<1>13. CASE ReleaseAndRetry(p)
  <2>1. pc'[p] = "read"
    BY <1>13 DEF ReleaseAndRetry
  <2>2. op'[p].kind = "rebuild"
    BY <1>13 DEF ReleaseAndRetry, IdleOp
  <2> QED BY <2>1, <2>2
<1>14. CASE BeginRecovery(p) \/ CheckOwner(p) \/ CleanIncomplete(p) \/ Crash(p)
  <2>1. pc'[p] \in {"rec_owner", "rec_clean", "rec_unlock", "dead"}
    BY <1>14 DEF BeginRecovery, CheckOwner, CleanIncomplete, Crash
  <2> QED BY <2>1
<1>15. CASE RemovalFails(p)
  <2>1. pc'[p] = "idle"
    BY <1>15 DEF RemovalFails, UnwindFails, CleanupFails, ReleaseFails, CleanFails, UnlockFails
  <2> QED BY <2>1
<1> QED
  BY <1>1, <1>2, <1>3, <1>4, <1>5, <1>6, <1>7, <1>8, <1>9, <1>10, <1>11, <1>12, <1>13, <1>14, <1>15
     DEF PublishStep, RecoveryStep, RemovalFails

LEMMA ContentStep ==
  ASSUME TypeOK, CompleteInv, LockInv, ContentInv, Next
  PROVE  ContentInv'
<1>1. \A g \in Gens : content'[g] <= source'
  <2>1. CASE UNCHANGED content
    BY <2>1, SourceGrows DEF ContentInv, TypeOK, StoreTypeOK
  <2>2. CASE \E p \in Procs : CompleteDirectory(p)
    <3>1. PICK p \in Procs : CompleteDirectory(p)
      BY <2>2
    <3>2. op[p].prepared <= source
      BY <3>1 DEF CompleteDirectory, ContentInv, OpContent, Asking
    <3> QED BY <3>1, <3>2 DEF CompleteDirectory, ContentInv, TypeOK, StoreTypeOK, docVars
  <2> QED BY <2>1, <2>2, ContentMoves
<1>2. ASSUME NEW q \in Procs
      PROVE  OpContent(q)'
  <2>1. CASE pc'[q] = pc[q] /\ op'[q] = op[q] /\ active' = active
    BY <2>1, OpContentStays DEF ContentInv
  <2>2. CASE \E p \in Procs : p # q /\ SwapPointer(p)
    <3>1. PICK p \in Procs : p # q /\ SwapPointer(p)
      BY <2>2
    <3>2. pc[q] \notin {"validate", "swap"}
      BY <3>1 DEF SwapPointer, LockInv, Holding
    <3>3. pc'[q] = pc[q] /\ op'[q] = op[q]
      BY <3>1, OthersStay DEF PublishStep
    <3> QED BY <3>2, <3>3, OpContentStays DEF ContentInv
  <2>3. CASE Begin(q) \/ BeginRecovery(q) \/ PublishStep(q) \/ RecoveryStep(q) \/ Crash(q)
    BY <2>3, ActorKeepsContent
  <2>4. CASE WriteDocument \/ MarkDirty \/ LockAges \/ \E r \in Readers : ReaderStep(r)
    <3>1. UNCHANGED <<pc, op, active>>
      BY <2>4
         DEF WriteDocument, MarkDirty, LockAges, ReaderStep, StartRequest, ReadBm25Chunks,
             CheckCompatibility, ReadVectors, ReadVectorChunks, EndRequest, ReadFiles
    <3> QED BY <3>1, <2>1
  <2>5. ASSUME NEW p \in Procs, p # q,
               Begin(p) \/ BeginRecovery(p) \/ PublishStep(p) \/ RecoveryStep(p) \/ Crash(p)
        PROVE  OpContent(q)'
    <3>1. pc'[q] = pc[q] /\ op'[q] = op[q]
      BY <2>5, OthersStay
    <3>2. CASE active' = active
      BY <3>1, <3>2, <2>1
    <3>3. CASE active' # active
      <4>1. PICK s \in Procs : SwapPointer(s)
        BY <3>3, OnlySwapMoves
      <4>2. CASE s = q
        BY <4>1, <4>2, <2>3 DEF PublishStep
      <4>3. CASE s # q
        BY <4>1, <4>3, <2>2
      <4> QED BY <4>2, <4>3
    <3> QED BY <3>2, <3>3
  <2> QED BY <2>3, <2>4, <2>5 DEF Next
<1> QED BY <1>1, <1>2 DEF ContentInv

LEMMA ContentInvariant == ASSUME OneOperator PROVE Spec => []ContentInv
<1>1. TypeOK /\ CompleteInv /\ LockInv /\ ContentInv /\ [Next]_vars => ContentInv'
  <2> SUFFICES ASSUME TypeOK, CompleteInv, LockInv, ContentInv, [Next]_vars PROVE ContentInv'
    OBVIOUS
  <2>1. CASE Next
    BY <2>1, ContentStep
  <2>2. CASE UNCHANGED vars
    BY <2>2 DEF ContentInv, OpContent, ContentOf, vars
  <2> QED BY <2>1, <2>2
<1> QED BY <1>1, ContentInit, TypeCorrect, CompleteInvariant, LockInvariant, PTL DEF Spec

(* With one recovery at a time no publication ever replaces the active     *)
(* generation by one built from older documents: the comparison under the  *)
(* lock, against what was active before the documents were read, rules out *)
(* the slow rebuild that overwrites a newer one.  Only a rollback goes     *)
(* back.                                                                   *)
THEOREM PublishGoesForward == ASSUME OneOperator PROVE Spec => ContentNeverRegresses
<1> DEFINE Forward ==
      \/ ContentOf(active)' >= ContentOf(active)
      \/ \E p \in Procs : op[p].kind = "rollback" /\ pc[p] = "swap" /\ active' = op[p].gen
<1>1. TypeOK /\ CompleteInv /\ ContentInv /\ [Next]_vars => [active' # active => Forward]_vars
  <2> SUFFICES ASSUME TypeOK, CompleteInv, ContentInv, Next, active' # active
               PROVE  Forward
    BY DEF vars
  <2>1. PICK p \in Procs : SwapPointer(p)
    BY OnlySwapMoves
  <2>2. CASE op[p].kind = "rollback"
    BY <2>1, <2>2 DEF SwapPointer
  <2>3. CASE op[p].kind # "rollback"
    <3>1. /\ active = op[p].expected
          /\ ContentOf(op[p].expected) <= op[p].prepared
          /\ content[op[p].gen] = op[p].prepared
          /\ op[p].gen # NoGen
      BY <2>1, <2>3, NoGenAssumption
         DEF SwapPointer, ContentInv, OpContent, Asking, CompleteInv, Valid
    <3>2. ContentOf(active)' = content[op[p].gen]
      BY <2>1, <3>1 DEF SwapPointer, ContentOf, fileVars
    <3> QED BY <3>1, <3>2 DEF TypeOK, StoreTypeOK, OpType, ContentOf
  <2> QED BY <2>2, <2>3
<1> QED
  BY <1>1, TypeCorrect, CompleteInvariant, ContentInvariant, PTL DEF Spec, ContentNeverRegresses

-----------------------------------------------------------------------------
(* Requests.  What a request has read is that of its own generation from   *)
(* its first read on, because a request starts with nothing read and       *)
(* resolves its generation before it reads anything.                       *)

PinInv ==
  /\ PinnedRequestReadsOneGeneration
  /\ \A r \in Readers : rpc[r] \in {"idle", "bm25"} => seen[r] = {}

LEMMA PinStep ==
  ASSUME TypeOK, PinInv, Next
  PROVE  PinInv'
<1> USE DEF TypeOK, StoreTypeOK, PinInv, PinnedRequestReadsOneGeneration, docVars, fileVars, readVars
<1>1. ASSUME UNCHANGED readVars PROVE PinInv'
  BY <1>1
<1>2. ASSUME NEW r \in Readers, StartRequest(r) PROVE PinInv'
  BY <1>2 DEF StartRequest
<1>3. ASSUME NEW r \in Readers,
             ReadBm25Chunks(r) \/ CheckCompatibility(r) \/ ReadVectors(r) \/ ReadVectorChunks(r)
      PROVE  PinInv'
  <2>1. \A g : pin[r] # NoGen /\ g = ResolveOrActive(pin[r]) => g = pin[r]
    BY DEF ResolveOrActive
  <2>2. PICK g :
          /\ pin[r] # NoGen => g = pin[r]
          /\ seen' = [seen EXCEPT ![r] = @ \cup {g}]
          /\ \E next \in {"compatibility", "vectors", "chunks", "done"} :
                rpc' = [rpc EXCEPT ![r] = next]
          /\ pin' = pin
    BY <1>3, <2>1
       DEF ReadBm25Chunks, CheckCompatibility, ReadVectors, ReadVectorChunks, ReadFiles
  <2> QED BY <2>2
<1>4. ASSUME NEW r \in Readers, EndRequest(r) PROVE PinInv'
  BY <1>4 DEF EndRequest
<1>5. CASE WriteDocument \/ MarkDirty \/ LockAges
  BY <1>5, <1>1 DEF WriteDocument, MarkDirty, LockAges
<1>6. CASE \E p \in Procs : Begin(p) \/ PublishStep(p) \/ BeginRecovery(p) \/ RecoveryStep(p) \/ Crash(p)
  BY <1>6, <1>1
     DEF Begin, BeginRecovery, RecoveryStep, CheckOwner, RefuseRecovery, CleanIncomplete,
         CleanFails, RemoveStaleLock, UnlockFails, Crash, PublishStep, ReadExpected,
         NothingActive, Prepare, Abandon, AcquireLock, LockBusy, WriteOwner, WriteOwnerFails, UnwindFails,
         CheckExpected, Conflict, BuildTemporary, CompleteDirectory, RecheckExpected,
         ValidatePrevious, SwapPointer, StepFails, Cleanup, CleanupFails, Release, ReleaseFails, ReleaseAndRetry, Finalize
<1> QED BY <1>2, <1>3, <1>4, <1>5, <1>6 DEF Next, ReaderStep

(* A request that resolved a generation reads that generation's chunks and *)
(* vectors only, through every publication, rollback and recovery that     *)
(* happens while it waits for an embedding.                                *)
THEOREM RequestsStayPinned == Spec => []PinnedRequestReadsOneGeneration
<1>1. Init => PinInv
  BY DEF Init, PinInv, PinnedRequestReadsOneGeneration
<1>2. TypeOK /\ PinInv /\ [Next]_vars => PinInv'
  <2>1. PinInv /\ UNCHANGED vars => PinInv'
    BY DEF PinInv, PinnedRequestReadsOneGeneration, vars
  <2> QED BY <2>1, PinStep
<1>3. PinInv => PinnedRequestReadsOneGeneration
  BY DEF PinInv
<1> QED BY <1>1, <1>2, <1>3, TypeCorrect, PTL DEF Spec

-----------------------------------------------------------------------------
(* The store implements the compare-and-set pointer.  A process asks when  *)
(* it takes the lock, commits when it renames the pointer and withdraws    *)
(* when it fails or dies; that a commit finds the pointer as it expects it *)
(* is the work of the lock (LockInv, under OneOperator) and of the         *)
(* comparison made under it (ContentInv).                                  *)

(* What the abstract step sees of an action of p. *)
AskOf(p) == [expected |-> op[p].expected, target |-> op[p].gen]
NoAsk == [expected |-> NoGen, target |-> NoGen]

LEMMA RequestsAre ==
  ASSUME NEW p \in Procs
  PROVE  Requests[p] = IF pc[p] \in Asking THEN AskOf(p) ELSE NoAsk
  BY DEF Requests, AskOf, NoAsk

(* One process acts: its own request is the only one that changes. *)
LEMMA OneRequestMoves ==
  ASSUME TypeOK, Next, NEW p \in Procs,
         Begin(p) \/ BeginRecovery(p) \/ PublishStep(p) \/ RecoveryStep(p) \/ Crash(p)
  PROVE  Requests' = [Requests EXCEPT ![p] = IF pc'[p] \in Asking THEN AskOf(p)' ELSE NoAsk]
<1>1. \A q \in Procs : q # p => pc'[q] = pc[q] /\ op'[q] = op[q]
  BY OthersStay
<1>2. \A q \in Procs : q # p => Requests'[q] = Requests[q]
  BY <1>1 DEF Requests
<1>3. Requests'[p] = IF pc'[p] \in Asking THEN AskOf(p)' ELSE NoAsk
  BY DEF Requests, AskOf, NoAsk
<1>4. DOMAIN Requests' = Procs /\ DOMAIN Requests = Procs
  BY DEF Requests
<1>5. /\ Requests = [q \in Procs |-> Requests[q]]
      /\ Requests' = [q \in Procs |-> Requests'[q]]
  BY DEF Requests
<1> QED BY <1>2, <1>3, <1>4, <1>5

(* Whoever asks, asks for a generation. *)
LEMMA AskingIsARequest ==
  ASSUME TypeOK, CompleteInv, NEW p \in Procs, pc[p] \in Asking
  PROVE  Requests[p] = AskOf(p) /\ Requests[p] # NoAsk
<1>1. op[p].gen \in Gens
  BY DEF CompleteInv, Asking, Holding
<1> QED BY <1>1, NoGenAssumption, RequestsAre DEF AskOf, NoAsk

LEMMA PointerStep ==
  ASSUME TypeOK, CompleteInv, ContentInv, Next, NEW p \in Procs,
         Begin(p) \/ BeginRecovery(p) \/ PublishStep(p) \/ RecoveryStep(p) \/ Crash(p)
  PROVE  [Pointer!Next]_(Pointer!vars)
<1> USE DEF TypeOK, StoreTypeOK
<1>1. Requests' = [Requests EXCEPT ![p] = IF pc'[p] \in Asking THEN AskOf(p)' ELSE NoAsk]
  BY OneRequestMoves
<1>2. Requests[p] = IF pc[p] \in Asking THEN AskOf(p) ELSE NoAsk
  BY RequestsAre
<1>3. Requests = [Requests EXCEPT ![p] = Requests[p]]
  BY DEF Requests
<1>4. Pointer!NoRequest = NoAsk
  BY DEF Pointer!NoRequest, NoAsk
<1>5. pc'[p] \in ProcPC
  <2>1. pc' \in [Procs -> ProcPC]
    BY StoreType
  <2> QED BY <2>1
(* Steps of p that leave what p asks for as it is. *)
<1>6. ASSUME UNCHANGED <<dirs, active>>, pc'[p] \notin Asking, pc[p] \notin Asking
      PROVE  UNCHANGED Pointer!vars
  BY <1>1, <1>2, <1>3, <1>6 DEF Pointer!vars
<1>7. ASSUME UNCHANGED <<dirs, active, op>>, pc'[p] \in Asking, pc[p] \in Asking
      PROVE  UNCHANGED Pointer!vars
  BY <1>1, <1>2, <1>3, <1>7 DEF Pointer!vars, AskOf
<1>8. ASSUME UNCHANGED <<dirs, active>>, pc'[p] \notin Asking, pc[p] \in Asking
      PROVE  Pointer!Withdraw(p)
  <2>1. Requests[p] # NoAsk
    BY <1>8, AskingIsARequest
  <2> QED BY <1>1, <1>4, <1>8, <2>1 DEF Pointer!Withdraw
<1>9. CASE AcquireLock(p)
  <2>1. /\ pc[p] = "acquire" /\ pc'[p] = "owner" /\ UNCHANGED <<dirs, active, op>>
        /\ op[p].gen \in Gens /\ op[p].expected \in GenOrNone
    BY <1>9 DEF AcquireLock, Goto, fileVars, CompleteInv, OpType
  <2>2. Requests[p] = NoAsk /\ Requests' = [Requests EXCEPT ![p] = AskOf(p)]
    BY <1>1, <1>2, <2>1 DEF Asking, AskOf
  <2>3. Pointer!Request(p)
    BY <1>4, <2>1, <2>2 DEF Pointer!Request, AskOf, GenOrNone
  <2> QED BY <2>3 DEF Pointer!Next
<1>10. CASE CompleteDirectory(p)
  <2>1. /\ pc[p] = "complete" /\ pc'[p] = "recheck" /\ UNCHANGED <<op, active>>
        /\ op[p].gen \in Gens /\ dirs' = [dirs EXCEPT ![op[p].gen] = "complete"]
    BY <1>10 DEF CompleteDirectory, Goto, CompleteInv, Holding
  <2>2. Requests[p] = AskOf(p) /\ Requests[p] # NoAsk /\ UNCHANGED Requests
    BY <1>1, <1>3, <2>1, AskingIsARequest DEF Asking, AskOf
  <2>3. {g \in Gens : dirs'[g] = "complete"} = {g \in Gens : dirs[g] = "complete"} \cup {op[p].gen}
    BY <2>1
  <2>4. Requests[p].target = op[p].gen
    BY <2>2 DEF AskOf
  <2>5. Pointer!Complete(p)
    BY <1>4, <2>1, <2>2, <2>3, <2>4 DEF Pointer!Complete
  <2> QED BY <2>5 DEF Pointer!Next
<1>11. CASE SwapPointer(p)
  <2>1. /\ pc[p] = "swap" /\ pc'[p] = "cleanup" /\ UNCHANGED dirs /\ active' = op[p].gen
    BY <1>11 DEF SwapPointer, Goto, fileVars
  <2>2. Requests[p] = AskOf(p) /\ Requests[p] # NoAsk /\ Requests' = [Requests EXCEPT ![p] = NoAsk]
    BY <1>1, <2>1, AskingIsARequest DEF Asking
  <2>3. active = op[p].expected /\ op[p].gen \in Gens /\ dirs[op[p].gen] = "complete"
    BY <2>1 DEF ContentInv, OpContent, CompleteInv, Valid
  <2>4. Requests[p].expected = op[p].expected /\ Requests[p].target = op[p].gen
    BY <2>2 DEF AskOf
  <2>5. Pointer!Commit(p)
    BY <1>4, <2>1, <2>2, <2>3, <2>4 DEF Pointer!Commit
  <2> QED BY <2>5 DEF Pointer!Next
<1>12. CASE BuildTemporary(p) \/ Cleanup(p) \/ CleanIncomplete(p)
  <2>1. {g \in Gens : dirs'[g] = "complete"} = {g \in Gens : dirs[g] = "complete"}
    BY <1>12 DEF BuildTemporary, Cleanup, CleanIncomplete, Incomplete
  <2>2. UNCHANGED <<active, op>> /\ (pc[p] \in Asking <=> pc'[p] \in Asking)
    BY <1>12 DEF BuildTemporary, Cleanup, CleanIncomplete, Goto, Asking
  <2>3. UNCHANGED Requests
    BY <1>1, <1>2, <1>3, <2>2 DEF AskOf
  <2> QED BY <2>1, <2>2, <2>3 DEF Pointer!vars
<1>13. CASE WriteOwner(p) \/ CheckExpected(p) \/ RecheckExpected(p) \/ ValidatePrevious(p)
  <2>1. UNCHANGED <<dirs, active, op>> /\ pc'[p] \in Asking /\ pc[p] \in Asking
    BY <1>13 DEF WriteOwner, CheckExpected, RecheckExpected, ValidatePrevious, Goto, Asking, fileVars
  <2> QED BY <1>7, <2>1
<1>14. CASE WriteOwnerFails(p) \/ UnwindFails(p) \/ Conflict(p) \/ StepFails(p)
  <2>1. UNCHANGED <<dirs, active>> /\ pc'[p] \notin Asking /\ pc[p] \in Asking
    BY <1>14 DEF WriteOwnerFails, UnwindFails, Conflict, StepFails, Goto, Finish, Asking, Fallible, fileVars
  <2> QED BY <1>8, <2>1 DEF Pointer!Next
<1>15. CASE Crash(p)
  <2>1. UNCHANGED <<dirs, active>> /\ pc'[p] \notin Asking
    BY <1>15 DEF Crash, Goto, Asking, fileVars
  <2> QED BY <1>6, <1>8, <2>1 DEF Pointer!Next
<1>16. CASE \/ Begin(p) \/ BeginRecovery(p) \/ CheckOwner(p) \/ RefuseRecovery(p) \/ RemoveStaleLock(p)
            \/ ReadExpected(p) \/ NothingActive(p) \/ Prepare(p) \/ Abandon(p) \/ LockBusy(p)
            \/ Release(p) \/ ReleaseAndRetry(p) \/ Finalize(p)
            \/ CleanupFails(p) \/ ReleaseFails(p) \/ CleanFails(p) \/ UnlockFails(p)
  <2>1. UNCHANGED <<dirs, active>> /\ pc'[p] \notin Asking /\ pc[p] \notin Asking
    BY <1>16
       DEF Begin, BeginRecovery, CheckOwner, RefuseRecovery, RemoveStaleLock, ReadExpected,
           NothingActive, Prepare, Abandon, LockBusy, Release, ReleaseAndRetry, Finalize,
           CleanupFails, ReleaseFails, CleanFails, UnlockFails, Goto, Finish, Asking, fileVars
  <2> QED BY <1>6, <2>1
<1> QED
  BY <1>9, <1>10, <1>11, <1>12, <1>13, <1>14, <1>15, <1>16 DEF PublishStep, RecoveryStep

(* With one recovery at a time the lock directory, the temporary           *)
(* directories and the renamed pointer file together are a pointer that    *)
(* names complete generations only and moves by compare-and-set only,      *)
(* whatever is killed, fails, retries, rolls back or recovers in between.  *)
THEOREM StoreIsAPointer == ASSUME OneOperator PROVE Spec => PointerSpec
<1>1. Init => Pointer!Init
  <2> SUFFICES ASSUME Init PROVE Pointer!Init
    OBVIOUS
  <2>1. active = NoGen /\ {g \in Gens : dirs[g] = "complete"} = {}
    BY DEF Init
  <2>2. Requests = [p \in Procs |-> NoAsk]
    BY DEF Init, Requests, NoAsk, Asking
  <2> QED BY <2>1, <2>2 DEF Pointer!Init, Pointer!NoRequest, NoAsk
<1>2. TypeOK /\ CompleteInv /\ ContentInv /\ [Next]_vars => [Pointer!Next]_(Pointer!vars)
  <2> SUFFICES ASSUME TypeOK, CompleteInv, ContentInv, [Next]_vars
               PROVE  [Pointer!Next]_(Pointer!vars)
    OBVIOUS
  <2>1. ASSUME UNCHANGED <<dirs, active, pc, op>> PROVE UNCHANGED Pointer!vars
    BY <2>1 DEF Pointer!vars, Requests
  <2>2. CASE WriteDocument \/ MarkDirty \/ LockAges \/ \E r \in Readers : ReaderStep(r)
    <3>1. UNCHANGED <<dirs, active, pc, op>>
      BY <2>2
         DEF WriteDocument, MarkDirty, LockAges, ReaderStep, StartRequest, ReadBm25Chunks,
             CheckCompatibility, ReadVectors, ReadVectorChunks, EndRequest, ReadFiles, fileVars
    <3> QED BY <2>1, <3>1
  <2>3. CASE UNCHANGED vars
    BY <2>1, <2>3 DEF vars
  <2>4. CASE \E p \in Procs : Begin(p) \/ PublishStep(p) \/ BeginRecovery(p) \/ RecoveryStep(p) \/ Crash(p)
    BY <2>4, PointerStep DEF Next
  <2> QED BY <2>2, <2>3, <2>4 DEF Next
<1> QED
  BY <1>1, <1>2, TypeCorrect, CompleteInvariant, ContentInvariant, PTL
     DEF Spec, PointerSpec, Pointer!Spec
=============================================================================
