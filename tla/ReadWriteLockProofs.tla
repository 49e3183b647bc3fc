------------------------- MODULE ReadWriteLockProofs -------------------------
(***************************************************************************)
(* Proofs about ReadWriteLock, for any finite set of threads, any mix of   *)
(* calls and cancellation points, and any bound on the number of calls:    *)
(* first that readers and writers exclude each other, then what is true of *)
(* those that sleep.                                                       *)
(***************************************************************************)
EXTENDS ReadWriteLock, FiniteSetTheorems, TLAPS

(* The inductive invariant.                                                 *)

\* Between pthread_mutex_lock and pthread_mutex_unlock a thread owns mutex_,
\* as long as the mutex exists.
Critical == {"test", "grant", "granted", "refused", "release", "released"}
Ownership == mutexLive => \A t \in Thread : pc[t] \in Critical => mutex_ = t

\* Once the mutex is destroyed nobody owns it and nobody is about to take the
\* lock.
DestroyedIsDrained ==
    ~mutexLive => /\ mutex_ = None
                  /\ \A t \in Thread : pc[t] \notin {"test", "grant", "granted"}

\* What the loop condition found still holds when the counter is updated.
GrantStillValid == \A t \in Thread : pc[t] = "grant" => ~Busy(t)

\* Weaker than RefCountMatchesHolders, but true also when the lock is marked
\* invalid under threads that have it: they leave without undoing their count.
RefSafe ==
    mutexLive => \/ Writers = {} /\ ref_count_ >= Cardinality(Readers)
                 \/ Readers = {} /\ ref_count_ = -1

\* Counts left behind like that are bounded: their threads stay idle.
Settled == {t \in Thread : pc[t] \in Holding \cup {"idle"}}
RefBound == mutexLive /\ ~valid_ => ref_count_ <= Cardinality(Settled)

IInv ==
    /\ TypeOK
    /\ Ownership
    /\ DestroyedIsDrained
    /\ GrantStillValid
    /\ MutualExclusion
    /\ RefSafe
    /\ RefCountMatchesHolders
    /\ RefBound

------------------------------------------------------------------------------
LEMMA FiniteHolders ==
    /\ IsFiniteSet(Readers) /\ Cardinality(Readers) \in Nat
    /\ IsFiniteSet(Settled) /\ Cardinality(Settled) \in Nat
    /\ Cardinality(Thread) \in Nat
    /\ Cardinality(Readers) <= Cardinality(Settled)
    /\ Cardinality(Settled) <= Cardinality(Thread)
<1>1. IsFiniteSet(Thread)
  BY LockAssumption
<1>2. Settled \subseteq Thread
  BY DEF Settled
<1>3. Readers \subseteq Settled
  BY DEF Readers, Settled
<1>4. IsFiniteSet(Settled) /\ Cardinality(Settled) <= Cardinality(Thread)
  BY <1>1, <1>2, FS_Subset
<1>5. IsFiniteSet(Readers) /\ Cardinality(Readers) <= Cardinality(Settled)
  BY <1>3, <1>4, FS_Subset
<1> QED
  BY <1>1, <1>4, <1>5, FS_CardinalityType

LEMMA NoReaders == Readers = {} <=> Cardinality(Readers) = 0
  BY FiniteHolders, FS_EmptySet

\* The initial state satisfies the inductive invariant.
LEMMA InitIInv == Init => IInv
<1> SUFFICES ASSUME Init PROVE IInv
  OBVIOUS
<1>1. Readers = {} /\ Writers = {}
  BY DEF Init, Readers, Writers, Holding
<1>2. Cardinality(Readers) = 0
  BY <1>1, NoReaders
<1>3. TypeOK
  BY FiniteHolders, LockAssumption DEF Init, TypeOK, PCs, DPCs, Uses, AllNew
<1>4. Ownership /\ DestroyedIsDrained /\ GrantStillValid
  BY DEF Init, Ownership, DestroyedIsDrained, GrantStillValid, Critical
<1>5. MutualExclusion /\ RefSafe /\ RefCountMatchesHolders /\ RefBound
  BY <1>1, <1>2 DEF Init, MutualExclusion, RefSafe, RefCountMatchesHolders,
     RefBound
<1> QED
  BY <1>3, <1>4, <1>5 DEF IInv
------------------------------------------------------------------------------
\* The steps that leave every hold, and all that the counting rests on, alone.
Undisturbed ==
    /\ UNCHANGED <<ref_count_, mutexLive, valid_>>
    /\ \A u \in Thread : /\ pc'[u] \in Holding <=> pc[u] \in Holding
                         /\ pc[u] \in Holding => call'[u] = call[u]
    /\ ~valid_ => \A u \in Thread : pc[u] = "idle" => pc'[u] = "idle"

LEMMA QuietSteps ==
    ASSUME IInv, Undisturbed
    PROVE  /\ MutualExclusion' /\ RefSafe' /\ RefCountMatchesHolders' /\ RefBound'
           /\ UNCHANGED mode
<1>1. Readers' = Readers /\ Writers' = Writers
  BY DEF Undisturbed, Readers, Writers, IsReader
<1>2. MutualExclusion' /\ RefSafe' /\ RefCountMatchesHolders'
  BY <1>1 DEF Undisturbed, IInv, MutualExclusion, RefSafe, RefCountMatchesHolders
<1>3. RefBound'
  <2> SUFFICES ASSUME mutexLive, ~valid_
               PROVE  ref_count_ <= Cardinality(Settled')
    BY DEF Undisturbed, RefBound
  <2>1. Settled \subseteq Settled'
    BY DEF Undisturbed, Settled
  <2>2. IsFiniteSet(Settled')
    <3>1. Settled' \subseteq Thread
      BY DEF Settled
    <3> QED
      BY <3>1, FS_Subset, LockAssumption
  <2>3. Cardinality(Settled) <= Cardinality(Settled')
    BY <2>1, <2>2, FS_Subset
  <2>4. Cardinality(Settled') \in Nat
    BY <2>2, FS_CardinalityType
  <2> QED
    BY <2>3, <2>4, FiniteHolders DEF IInv, RefBound, TypeOK
<1>4. UNCHANGED mode
  BY <1>1 DEF mode
<1> QED
  BY <1>2, <1>3, <1>4

------------------------------------------------------------------------------
(* Steps that leave the holds alone.                                        *)

\* The part of the invariant that does not count.
Control == TypeOK /\ Ownership /\ DestroyedIsDrained /\ GrantStillValid

LEMMA QuietIInv ==
    ASSUME IInv, Control', Undisturbed
    PROVE  IInv' /\ UNCHANGED mode
  BY QuietSteps DEF Control, IInv

LEMMA CallKeeps ==
    ASSUME IInv, NEW t \in Thread, NEW c \in Calls, Call(t, c)
    PROVE  IInv' /\ UNCHANGED mode
<1>1. TypeOK'
  <2>1. calls' \in [Thread -> 0 .. MaxCalls]
    BY LockAssumption DEF IInv, TypeOK, Call
  <2> QED
    BY <2>1 DEF IInv, TypeOK, Call, Goto, counters, destroyVars, PCs, Uses
<1>2. Ownership' /\ DestroyedIsDrained'
  BY LockAssumption DEF IInv, TypeOK, Ownership, DestroyedIsDrained, Critical,
     Call, Goto, counters, destroyVars
<1>3. GrantStillValid'
  BY DEF IInv, TypeOK, GrantStillValid, Busy, IsReader, Call, Goto, counters, destroyVars
<1>4. Undisturbed
  BY DEF IInv, TypeOK, Undisturbed, Holding, Call, Goto, counters, destroyVars
<1> QED
  BY <1>1, <1>2, <1>3, <1>4, QuietIInv DEF Control

LEMMA LockMutexKeeps ==
    ASSUME IInv, NEW t \in Thread, LockMutex(t)
    PROVE  IInv' /\ UNCHANGED mode
<1>1. TypeOK'
  BY DEF IInv, TypeOK, LockMutex, Goto, counters, destroyVars, PCs
<1>2. Ownership' /\ DestroyedIsDrained'
  BY LockAssumption DEF IInv, TypeOK, Ownership, DestroyedIsDrained, Critical,
     LockMutex, Goto, counters, destroyVars
<1>3. GrantStillValid'
  BY DEF IInv, TypeOK, GrantStillValid, Busy, IsReader, LockMutex, Goto, counters, destroyVars
<1>4. Undisturbed
  BY DEF IInv, TypeOK, Undisturbed, Holding, LockMutex, Goto, counters, destroyVars
<1> QED
  BY <1>1, <1>2, <1>3, <1>4, QuietIInv DEF Control

LEMMA LockMutexFailsKeeps ==
    ASSUME IInv, NEW t \in Thread, LockMutexFails(t)
    PROVE  IInv' /\ UNCHANGED mode
<1>1. TypeOK'
  BY DEF IInv, TypeOK, LockMutexFails, Goto, GotoIdle, counters, destroyVars, PCs
<1>2. Ownership' /\ DestroyedIsDrained'
  BY LockAssumption DEF IInv, TypeOK, Ownership, DestroyedIsDrained, Critical,
     LockMutexFails, Goto, GotoIdle, counters, destroyVars
<1>3. GrantStillValid'
  BY DEF IInv, TypeOK, GrantStillValid, Busy, IsReader, LockMutexFails, Goto, GotoIdle, counters, destroyVars
<1>4. Undisturbed
  BY DEF IInv, TypeOK, Undisturbed, Holding, LockMutexFails, Goto, GotoIdle, counters, destroyVars
<1> QED
  BY <1>1, <1>2, <1>3, <1>4, QuietIInv DEF Control

LEMMA TestKeeps ==
    ASSUME IInv, NEW t \in Thread, Test(t)
    PROVE  IInv' /\ UNCHANGED mode
<1>1. TypeOK'
  <2>1. mutex_' \in Thread \cup {None} /\ use' \in [Thread -> Uses]
    BY DEF IInv, TypeOK, Test, ChangeUse, Uses, counters
  <2>2. reader_waiting_num_' \in Int /\ writer_waiting_num_' \in Int
    BY DEF IInv, TypeOK, Test, CountWaiter, counters
  <2>3. pc' \in [Thread -> PCs] /\ ref_count_' = ref_count_
    BY DEF IInv, TypeOK, Test, Goto, counters, PCs
  <2> QED
    BY <2>1, <2>2, <2>3 DEF IInv, TypeOK, Test, destroyVars
<1>2. Ownership' /\ DestroyedIsDrained'
  BY LockAssumption DEF IInv, TypeOK, Ownership, DestroyedIsDrained, Critical,
     Test, Goto, CountWaiter, counters, destroyVars
<1>3. GrantStillValid'
  BY DEF IInv, TypeOK, GrantStillValid, Busy, IsReader, Test, Goto, CountWaiter, counters, destroyVars
<1>4. Undisturbed
  BY DEF IInv, TypeOK, Undisturbed, Holding, Test, Goto, CountWaiter, counters, destroyVars
<1> QED
  BY <1>1, <1>2, <1>3, <1>4, QuietIInv DEF Control

LEMMA ReturnKeeps ==
    ASSUME IInv, NEW t \in Thread, Return(t)
    PROVE  IInv' /\ UNCHANGED mode
<1>1. TypeOK'
  BY DEF IInv, TypeOK, Return, Goto, GotoIdle, counters, destroyVars, PCs
<1>2. Ownership' /\ DestroyedIsDrained'
  BY LockAssumption DEF IInv, TypeOK, Ownership, DestroyedIsDrained, Critical,
     Return, Goto, GotoIdle, counters, destroyVars
<1>3. GrantStillValid'
  BY DEF IInv, TypeOK, GrantStillValid, Busy, IsReader, Return, Goto, GotoIdle, counters, destroyVars
<1>4. Undisturbed
  BY DEF IInv, TypeOK, Undisturbed, Holding, Return, Goto, GotoIdle, counters, destroyVars
<1> QED
  BY <1>1, <1>2, <1>3, <1>4, QuietIInv DEF Control

LEMMA LeaveWaitKeeps ==
    ASSUME IInv, NEW t \in Thread, NEW l \in {"woken", "timedout", "cancelled"}, LeaveWait(t, l)
    PROVE  IInv' /\ UNCHANGED mode
<1>1. TypeOK'
  BY DEF IInv, TypeOK, LeaveWait, Goto, counters, destroyVars, PCs
<1>2. Ownership' /\ DestroyedIsDrained'
  BY LockAssumption DEF IInv, TypeOK, Ownership, DestroyedIsDrained, Critical,
     LeaveWait, Goto, counters, destroyVars
<1>3. GrantStillValid'
  BY DEF IInv, TypeOK, GrantStillValid, Busy, IsReader, LeaveWait, Goto, counters, destroyVars
<1>4. Undisturbed
  BY DEF IInv, TypeOK, Undisturbed, Holding, LeaveWait, Goto, counters, destroyVars
<1> QED
  BY <1>1, <1>2, <1>3, <1>4, QuietIInv DEF Control

LEMMA ResumeKeeps ==
    ASSUME IInv, NEW t \in Thread, Resume(t)
    PROVE  IInv' /\ UNCHANGED mode
<1>1. TypeOK'
  BY DEF IInv, TypeOK, Resume, Goto, CountWaiter, counters, destroyVars, PCs
<1>2. Ownership' /\ DestroyedIsDrained'
  BY LockAssumption DEF IInv, TypeOK, Ownership, DestroyedIsDrained, Critical,
     Resume, Goto, CountWaiter, counters, destroyVars
<1>3. GrantStillValid'
  BY DEF IInv, TypeOK, GrantStillValid, Busy, IsReader, Resume, Goto, CountWaiter, counters, destroyVars
<1>4. Undisturbed
  BY DEF IInv, TypeOK, Undisturbed, Holding, Resume, Goto, CountWaiter, counters, destroyVars
<1> QED
  BY <1>1, <1>2, <1>3, <1>4, QuietIInv DEF Control

LEMMA CleanUpKeeps ==
    ASSUME IInv, NEW t \in Thread, CleanUp(t)
    PROVE  IInv' /\ UNCHANGED mode
<1>1. TypeOK'
  BY DEF IInv, TypeOK, CleanUp, Goto, CountWaiter, counters, destroyVars, PCs
<1>2. Ownership' /\ DestroyedIsDrained'
  BY LockAssumption DEF IInv, TypeOK, Ownership, DestroyedIsDrained, Critical,
     CleanUp, Goto, CountWaiter, counters, destroyVars
<1>3. GrantStillValid'
  BY DEF IInv, TypeOK, GrantStillValid, Busy, IsReader, CleanUp, Goto, CountWaiter, counters, destroyVars
<1>4. Undisturbed
  BY DEF IInv, TypeOK, Undisturbed, Holding, CleanUp, Goto, CountWaiter, counters, destroyVars
<1> QED
  BY <1>1, <1>2, <1>3, <1>4, QuietIInv DEF Control

------------------------------------------------------------------------------
(* Steps that take or give up a hold.                                       *)

\* With the lock valid, unlock() only begins; else the thread walks away.
LEMMA CallUnlockKeeps ==
    ASSUME IInv, NEW t \in Thread, CallUnlock(t)
    PROVE  IInv'
<1> USE DEF Goto, GotoIdle, counters, destroyVars
<1>1. Control'
  <2>1. TypeOK'
    BY DEF IInv, TypeOK, CallUnlock, PCs
  <2>2. Ownership' /\ DestroyedIsDrained'
    BY DEF IInv, TypeOK, Ownership, DestroyedIsDrained, Critical, CallUnlock
  <2>3. GrantStillValid'
    BY DEF IInv, TypeOK, GrantStillValid, Busy, IsReader, CallUnlock
  <2> QED
    BY <2>1, <2>2, <2>3 DEF Control
<1>2. CASE valid_
  <2>1. Undisturbed
    BY <1>2 DEF IInv, TypeOK, Undisturbed, Holding, CallUnlock
  <2> QED
    BY <1>1, <2>1, QuietIInv
<1>3. CASE ~valid_
  <2>1. Readers' \subseteq Readers /\ Writers' \subseteq Writers
    BY DEF IInv, TypeOK, CallUnlock, Readers, Writers, IsReader, Holding
  <2>2. Cardinality(Readers') <= Cardinality(Readers) /\ Cardinality(Readers') \in Nat
    BY <2>1, FiniteHolders, FS_Subset, FS_CardinalityType
  <2>3. Settled' = Settled
    BY <1>3 DEF IInv, TypeOK, CallUnlock, Settled, Holding
  <2>4. MutualExclusion'
    BY <2>1 DEF IInv, MutualExclusion
  <2>5. RefSafe'
    BY <2>1, <2>2, FiniteHolders DEF IInv, TypeOK, RefSafe, CallUnlock
  <2>6. RefCountMatchesHolders' /\ RefBound'
    BY <1>3, <2>3 DEF IInv, RefCountMatchesHolders, RefBound, CallUnlock
  <2> QED
    BY <1>1, <2>4, <2>5, <2>6 DEF Control, IInv
<1> QED
  BY <1>2, <1>3

\* What the counter says of the holders when the condition was found false.
LEMMA GrantMeansFree ==
    ASSUME IInv, NEW t \in Thread, pc[t] = "grant"
    PROVE  /\ mutexLive
           /\ Writers = {}
           /\ ref_count_ >= Cardinality(Readers)
           /\ ~IsReader(t) => ref_count_ = 0 /\ Readers = {}
<1>1. mutexLive
  BY DEF IInv, DestroyedIsDrained
<1>2. ref_count_ >= 0 /\ (~IsReader(t) => ref_count_ = 0)
  BY DEF IInv, TypeOK, GrantStillValid, Busy
<1>3. Writers = {} /\ ref_count_ >= Cardinality(Readers)
  BY <1>1, <1>2 DEF IInv, TypeOK, RefSafe
<1>4. ~IsReader(t) => Readers = {}
  BY <1>2, <1>3, FiniteHolders, NoReaders
<1> QED
  BY <1>1, <1>2, <1>3, <1>4

\* The counter goes up with a reader and to -1 with a writer; nobody else can
\* be at its own update, for t owns the mutex.
LEMMA GrantKeeps ==
    ASSUME IInv, NEW t \in Thread, Grant(t)
    PROVE  IInv'
<1> USE DEF Goto, destroyVars
<1>1. pc[t] = "grant"
  BY DEF Grant
<1>2. /\ mutexLive
      /\ Writers = {}
      /\ ref_count_ >= Cardinality(Readers)
      /\ ~IsReader(t) => ref_count_ = 0 /\ Readers = {}
  BY <1>1, GrantMeansFree
<1>3. pc' = [pc EXCEPT ![t] = "granted"] /\ call' = call /\ pc \in [Thread -> PCs]
  BY DEF Grant, IInv, TypeOK
<1>4. ref_count_' = IF IsReader(t) THEN ref_count_ + 1 ELSE -1
  BY <1>2 DEF Grant, IsReader, ReadCalls
<1>5. \A u \in Thread : u # t => pc[u] \notin Critical
  BY <1>1, <1>2 DEF IInv, Ownership, Critical
<1>6. Settled' = Settled \cup {t} /\ t \notin Settled
  BY <1>1, <1>3 DEF Settled, Holding
<1>7. Cardinality(Settled') = Cardinality(Settled) + 1 /\ Cardinality(Settled') \in Nat
  <2>1. Cardinality(Settled \cup {t}) = Cardinality(Settled) + 1
    BY <1>6, FiniteHolders, FS_AddElement
  <2> QED
    BY <1>6, <2>1, FiniteHolders
<1>8. Cardinality(Settled') <= Cardinality(Thread)
  <2>1. Settled' \subseteq Thread
    BY DEF Settled
  <2> QED
    BY <2>1, LockAssumption, FS_Subset
<1>9. ref_count_ <= Cardinality(Settled)
  BY <1>2, FiniteHolders DEF IInv, TypeOK, RefCountMatchesHolders, RefBound
<1>10. TypeOK'
  <2>1. ref_count_' \in -1 .. Cardinality(Thread)
    BY <1>2, <1>4, <1>7, <1>8, <1>9, FiniteHolders DEF IInv, TypeOK
  <2> QED
    BY <2>1 DEF IInv, TypeOK, Grant, PCs, ChangeUse, Uses
<1>11. Ownership' /\ DestroyedIsDrained' /\ GrantStillValid'
  BY <1>2, <1>3, <1>5 DEF IInv, Ownership, DestroyedIsDrained, GrantStillValid,
     Critical, Grant
<1>12. CASE IsReader(t)
  <2>1. Readers' = Readers \cup {t} /\ t \notin Readers /\ Writers' = Writers
    BY <1>1, <1>3, <1>12 DEF Readers, Writers, IsReader, Holding
  <2>2. Cardinality(Readers') = Cardinality(Readers) + 1
    BY <2>1, FiniteHolders, FS_AddElement
  <2>3. MutualExclusion'
    BY <1>2, <2>1 DEF MutualExclusion
  <2>4. RefSafe' /\ RefCountMatchesHolders'
    BY <1>2, <1>4, <1>12, <2>1, <2>2, FiniteHolders DEF IInv, TypeOK, RefSafe,
       RefCountMatchesHolders, Grant
  <2>5. RefBound'
    BY <1>4, <1>7, <1>9, <1>12, FiniteHolders DEF IInv, TypeOK, RefBound
  <2> QED
    BY <1>10, <1>11, <2>3, <2>4, <2>5 DEF IInv
<1>13. CASE ~IsReader(t)
  <2>1. Readers' = {} /\ Writers' = {t}
    BY <1>1, <1>2, <1>3, <1>13 DEF Readers, Writers, IsReader, Holding
  <2>2. MutualExclusion' /\ RefSafe' /\ RefCountMatchesHolders'
    BY <1>4, <1>13, <2>1 DEF MutualExclusion, RefSafe, RefCountMatchesHolders
  <2>3. RefBound'
    BY <1>4, <1>7, <1>13 DEF RefBound
  <2> QED
    BY <1>10, <1>11, <2>2, <2>3 DEF IInv
<1> QED
  BY <1>12, <1>13

\* Those that unlock() wakes were asleep.
LEMMA WokenWereAsleep ==
    ASSUME NEW ref, NEW W \in Wakeups(ref)
    PROVE  \A u \in W : pc[u] = "wait"
  BY DEF Wakeups, OneOf, Asleep

\* The counter goes down with the hold it stands for.  Without the mutex the
\* counter may be off, and then nothing depends on it any more.
LEMMA ReleaseKeeps ==
    ASSUME IInv, NEW t \in Thread, Release(t)
    PROVE  IInv'
<1>1. PICK ref \in AfterRelease(t) :
        /\ ref_count_' = ref
        /\ \E W \in Wakeups(ref) :
              pc' = [u \in Thread |-> CASE u = t -> "released"
                                        [] u # t /\ u \in W -> "woken"
                                        [] OTHER -> pc[u]]
  BY DEF Release
<1>2. PICK W \in Wakeups(ref) :
        pc' = [u \in Thread |-> CASE u = t -> "released"
                                  [] u # t /\ u \in W -> "woken"
                                  [] OTHER -> pc[u]]
  BY <1>1
<1>3. \A u \in W : pc[u] = "wait"
  BY WokenWereAsleep
<1>4. pc[t] = "release" /\ UNCHANGED <<mutex_, mutexLive, valid_, dpc, call, calls,
                                     use, reader_waiting_num_, writer_waiting_num_>>
  BY DEF Release, destroyVars
<1>5. /\ pc'[t] = "released"
      /\ \A u \in Thread : u # t => \/ pc'[u] = pc[u]
                                    \/ pc[u] = "wait" /\ pc'[u] = "woken"
  BY <1>2, <1>3
<1>6. pc' \in [Thread -> PCs]
  BY <1>2 DEF IInv, TypeOK, PCs
<1>7. mutexLive => mutex_ = t /\ \A u \in Thread : u # t => pc[u] \notin Critical
  BY <1>4 DEF IInv, Ownership, Critical
<1>8. ref_count_' \in {Decremented, ref_count_} /\ (mutexLive => ref_count_' = Decremented)
  BY <1>1, <1>7 DEF AfterRelease
<1>9. TypeOK'
  <2>1. ref_count_' \in -1 .. Cardinality(Thread)
    BY <1>8, FiniteHolders DEF Decremented, IInv, TypeOK
  <2> QED
    BY <1>4, <1>6, <2>1 DEF IInv, TypeOK
<1>10. Ownership' /\ DestroyedIsDrained'
  BY <1>4, <1>5 DEF IInv, Ownership, DestroyedIsDrained, Critical
<1>11. GrantStillValid'
  BY <1>4, <1>5, <1>7 DEF IInv, GrantStillValid, DestroyedIsDrained, Critical
<1>12. /\ Readers' = Readers \ {t}
       /\ Writers' = Writers \ {t}
       /\ IF IsReader(t) THEN t \in Readers ELSE t \in Writers
  BY <1>4, <1>5 DEF Readers, Writers, IsReader, Holding
<1>13. MutualExclusion'
  BY <1>12 DEF IInv, MutualExclusion
<1>14. RefSafe' /\ RefCountMatchesHolders'
  <2> SUFFICES ASSUME mutexLive
               PROVE  RefSafe' /\ RefCountMatchesHolders'
    BY <1>4 DEF RefSafe, RefCountMatchesHolders
  <2>1. ref_count_' = IF ref_count_ > 0 THEN ref_count_ - 1 ELSE 0
    BY <1>8 DEF Decremented
  <2>2. CASE IsReader(t)
    <3>1. t \in Readers /\ Readers # {} /\ Cardinality(Readers) >= 1
      BY <1>12, <2>2, FiniteHolders, NoReaders
    <3>2. Cardinality(Readers') = Cardinality(Readers) - 1
      BY <1>12, <3>1, FiniteHolders, FS_RemoveElement
    <3>3. Writers = {} /\ Writers' = {}
      BY <1>12, <3>1 DEF IInv, MutualExclusion
    <3> QED
      BY <1>4, <2>1, <3>1, <3>2, <3>3, FiniteHolders DEF IInv, TypeOK, RefSafe,
         RefCountMatchesHolders
  <2>3. CASE ~IsReader(t)
    <3>1. t \in Writers /\ Readers = {} /\ Writers = {t}
      BY <1>12, <2>3 DEF IInv, MutualExclusion
    <3>2. ref_count_ = -1 /\ ref_count_' = 0
      BY <2>1, <3>1 DEF IInv, RefSafe
    <3>3. Readers' = {} /\ Writers' = {} /\ Cardinality(Readers') = 0
      BY <1>12, <3>1, FS_EmptySet
    <3> QED
      BY <3>2, <3>3 DEF RefSafe, RefCountMatchesHolders
  <2> QED
    BY <2>2, <2>3
<1>15. RefBound'
  <2> SUFFICES ASSUME mutexLive, ~valid_
               PROVE  ref_count_' <= Cardinality(Settled')
    BY <1>4 DEF RefBound
  <2>1. Settled' = Settled \ {t} /\ t \in Settled
    BY <1>4, <1>5 DEF Settled, Holding
  <2>2. /\ Cardinality(Settled \ {t}) = Cardinality(Settled) - 1
        /\ IsFiniteSet(Settled \ {t})
    BY <2>1, FiniteHolders, FS_RemoveElement
  <2>3. Cardinality(Settled \ {t}) \in Nat
    BY <2>2, FS_CardinalityType
  <2>4. ref_count_ <= Cardinality(Settled)
    BY DEF IInv, RefBound
  <2> QED
    BY <1>8, <2>1, <2>2, <2>3, <2>4, FiniteHolders DEF Decremented, IInv, TypeOK
<1> QED
  BY <1>9, <1>10, <1>11, <1>13, <1>14, <1>15 DEF IInv

\* destroy() changes no hold.  It marks the lock invalid when the counter still
\* is exact, or after the mutex is gone.
LEMMA DestroyKeeps ==
    ASSUME IInv, Destroy
    PROVE  IInv' /\ UNCHANGED mode
<1> USE DEF counters
<1>1. UNCHANGED <<mutex_, ref_count_, reader_waiting_num_, writer_waiting_num_, pc,
                  call, calls>>
  BY DEF Destroy, BeginDestroy, Check, DestroyMutex, DestroyConds
<1>2. /\ mutexLive' => mutexLive
      /\ mutexLive' # mutexLive => mutex_ = None
      /\ valid_' => valid_
  <2>1. \/ UNCHANGED mutexLive
        \/ mutexLive' = (mutex_ # None /\ mutexLive)
    BY DEF Destroy, BeginDestroy, Check, DestroyMutex, DestroyConds
  <2>2. UNCHANGED valid_ \/ valid_' = FALSE
    BY DEF Destroy, BeginDestroy, Check, DestroyMutex, DestroyConds
  <2> QED
    BY <2>1, <2>2 DEF IInv, TypeOK
<1>3. TypeOK'
  <2>1. use' \in [Thread -> Uses]
    BY DEF IInv, TypeOK, Uses, AllNew, Destroy, BeginDestroy, Check, DestroyMutex, DestroyConds
  <2>2. QED
    BY <2>1 DEF IInv, TypeOK, DPCs, Destroy, BeginDestroy, Check, DestroyMutex, DestroyConds
<1>4. Readers' = Readers /\ Writers' = Writers /\ Settled' = Settled
  BY <1>1 DEF Readers, Writers, Settled, IsReader
<1>5. Ownership' /\ DestroyedIsDrained'
  BY <1>1, <1>2, LockAssumption DEF IInv, TypeOK, Ownership, DestroyedIsDrained,
     Critical
<1>6. GrantStillValid' /\ MutualExclusion'
  BY <1>1, <1>4 DEF IInv, GrantStillValid, Busy, IsReader, MutualExclusion
<1>7. RefSafe' /\ RefCountMatchesHolders'
  BY <1>1, <1>2, <1>4 DEF IInv, RefSafe, RefCountMatchesHolders
<1>8. RefBound'
  <2> SUFFICES ASSUME mutexLive
               PROVE  ref_count_ <= Cardinality(Settled)
    BY <1>1, <1>2, <1>4 DEF RefBound
  <2> QED
    BY FiniteHolders DEF IInv, TypeOK, RefBound, RefCountMatchesHolders
<1>9. UNCHANGED mode
  BY <1>4 DEF mode
<1> QED
  BY <1>3, <1>5, <1>6, <1>7, <1>8, <1>9 DEF IInv

------------------------------------------------------------------------------
(* The steps, as their callers see them.                                    *)

\* An update of the counter takes the lock as SharedExclusiveLock allows it.
LEMMA GrantAcquires ==
    ASSUME IInv, NEW t \in Thread, Grant(t)
    PROVE  Abstract!Next
<1>1. /\ pc[t] = "grant" /\ pc' = [pc EXCEPT ![t] = "granted"] /\ call' = call
      /\ pc \in [Thread -> PCs]
  BY DEF Grant, Goto, IInv, TypeOK
<1>2. Writers = {} /\ (~IsReader(t) => Readers = {})
  BY <1>1, GrantMeansFree
<1>3. CASE IsReader(t)
  <2>1. Readers' = Readers \cup {t} /\ t \notin Readers /\ Writers' = Writers
    BY <1>1, <1>3 DEF Readers, Writers, IsReader, Holding
  <2>2. mode[t] = "none" /\ \A u \in Thread : mode[u] # "exclusive"
    BY <1>2, <2>1 DEF mode
  <2>3. mode' = [mode EXCEPT ![t] = "shared"]
    BY <1>2, <2>1 DEF mode
  <2> QED
    BY <2>2, <2>3 DEF Abstract!Next, Abstract!AcquireShared
<1>4. CASE ~IsReader(t)
  <2>1. Readers' = {} /\ Writers' = {t}
    BY <1>1, <1>2, <1>4 DEF Readers, Writers, IsReader, Holding
  <2>2. \A u \in Thread : mode[u] = "none"
    BY <1>2, <1>4 DEF mode
  <2>3. mode' = [mode EXCEPT ![t] = "exclusive"]
    BY <1>2, <1>4, <2>1 DEF mode
  <2> QED
    BY <2>2, <2>3 DEF Abstract!Next, Abstract!AcquireExclusive
<1> QED
  BY <1>3, <1>4

\* A step after which t has the lock no more, and all else is as it was.
LEMMA DroppedHold ==
    ASSUME NEW t \in Thread, t \in Readers \cup Writers,
           Readers' = Readers \ {t}, Writers' = Writers \ {t}
    PROVE  Abstract!Next
<1>1. mode[t] # "none"
  BY DEF mode
<1>2. mode' = [mode EXCEPT ![t] = "none"]
  BY DEF mode
<1> QED
  BY <1>1, <1>2 DEF Abstract!Next, Abstract!Release

LEMMA ReleaseReleases ==
    ASSUME IInv, NEW t \in Thread, Release(t)
    PROVE  Abstract!Next
<1> DEFINE Moved(W) == pc' = [u \in Thread |-> CASE u = t -> "released"
                                               [] u # t /\ u \in W -> "woken"
                                               [] OTHER -> pc[u]]
<1>0. PICK ref \in AfterRelease(t) : \E W \in Wakeups(ref) : Moved(W)
  BY DEF Release
<1>1. PICK W \in Wakeups(ref) : Moved(W)
  BY <1>0
<1>2. \A u \in W : pc[u] = "wait"
  BY <1>1, WokenWereAsleep
<1>3. pc[t] = "release" /\ call' = call
  BY DEF Release
<1>4. Readers' = Readers \ {t} /\ Writers' = Writers \ {t} /\ t \in Readers \cup Writers
  BY <1>1, <1>2, <1>3 DEF Readers, Writers, IsReader, Holding
<1> QED
  BY <1>4, DroppedHold

LEMMA CallUnlockReleases ==
    ASSUME IInv, NEW t \in Thread, CallUnlock(t)
    PROVE  [Abstract!Next]_mode
<1> USE DEF Goto, GotoIdle
<1>1. CASE valid_
  <2>1. Readers' = Readers /\ Writers' = Writers
    BY <1>1 DEF IInv, TypeOK, CallUnlock, Readers, Writers, IsReader, Holding
  <2> QED
    BY <2>1 DEF mode
<1>2. CASE ~valid_
  <2>1. Readers' = Readers \ {t} /\ Writers' = Writers \ {t} /\ t \in Readers \cup Writers
    BY <1>2 DEF IInv, TypeOK, CallUnlock, Readers, Writers, IsReader, Holding
  <2> QED
    BY <2>1, DroppedHold
<1> QED
  BY <1>1, <1>2

------------------------------------------------------------------------------
\* Every step preserves the inductive invariant and is a step, or none, of the
\* abstract lock.
LEMMA NextKeeps ==
    ASSUME IInv, [Next]_vars
    PROVE  IInv' /\ [Abstract!Next]_mode
<1>1. CASE UNCHANGED vars
  <2>1. Control' /\ Undisturbed
    BY <1>1 DEF IInv, Control, TypeOK, Ownership, DestroyedIsDrained,
       GrantStillValid, Busy, IsReader, Undisturbed, vars, counters, destroyVars
  <2> QED
    BY <2>1, QuietIInv
<1>2. ASSUME NEW t \in Thread, NEW c \in Calls, Call(t, c)
      PROVE  IInv' /\ [Abstract!Next]_mode
  BY <1>2, CallKeeps
<1>3. ASSUME NEW t \in Thread, Step(t)
      PROVE  IInv' /\ [Abstract!Next]_mode
  <2>1. CASE LockMutex(t)
    BY <2>1, LockMutexKeeps
  <2>2. CASE LockMutexFails(t)
    BY <2>2, LockMutexFailsKeeps
  <2>3. CASE Test(t)
    BY <2>3, TestKeeps
  <2>4. CASE Grant(t)
    BY <2>4, GrantKeeps, GrantAcquires
  <2>5. CASE Return(t)
    BY <2>5, ReturnKeeps
  <2>6. CASE Timeout(t)
    BY <2>6, LeaveWaitKeeps DEF Timeout
  <2>7. CASE Resume(t)
    BY <2>7, ResumeKeeps
  <2>8. CASE CleanUp(t)
    BY <2>8, CleanUpKeeps
  <2>9. CASE CallUnlock(t)
    BY <2>9, CallUnlockKeeps, CallUnlockReleases
  <2>10. CASE Release(t)
    BY <2>10, ReleaseKeeps, ReleaseReleases
  <2> QED
    BY <1>3, <2>1, <2>2, <2>3, <2>4, <2>5, <2>6, <2>7, <2>8, <2>9, <2>10 DEF Step
<1>4. ASSUME NEW t \in Thread, SpuriousWake(t) \/ Cancel(t)
      PROVE  IInv' /\ [Abstract!Next]_mode
  BY <1>4, LeaveWaitKeeps DEF SpuriousWake, Cancel
<1>5. CASE Destroy
  BY <1>5, DestroyKeeps
<1> QED
  BY <1>1, <1>2, <1>3, <1>4, <1>5 DEF Next, Terminated

\* The inductive invariant holds in every reachable state.
THEOREM Invariance == Spec => []IInv
<1>1. Init => IInv
  BY InitIInv
<1>2. IInv /\ [Next]_vars => IInv'
  BY NextKeeps
<1> QED
  BY <1>1, <1>2, PTL DEF Spec

\* Types, with ref_count_ between -1 and the number of threads: no sequence of
\* calls, failures and destroys makes the counter run away.
THEOREM TypeCorrect == Spec => []TypeOK
<1>1. IInv => TypeOK
  BY DEF IInv
<1> QED
  BY <1>1, Invariance, PTL

\* A writer is alone, for every mix of calls, cancellations and a destroy().
THEOREM MutualExclusionHolds == Spec => []MutualExclusion
<1>1. IInv => MutualExclusion
  BY DEF IInv
<1> QED
  BY <1>1, Invariance, PTL

\* Until the lock is destroyed, ref_count_ is exactly who has it.
THEOREM RefCountIsExact == Spec => []RefCountMatchesHolders
<1>1. IInv => RefCountMatchesHolders
  BY DEF IInv
<1> QED
  BY <1>1, Invariance, PTL

\* The lock implements the shared/exclusive lock.
THEOREM Refinement == Spec => ImplementsSharedExclusive
<1>1. Init => Abstract!Init
  BY DEF Init, Abstract!Init, mode, Readers, Writers, Holding
<1>2. IInv /\ [Next]_vars => [Abstract!Next]_mode
  BY NextKeeps
<1> QED
  BY <1>1, <1>2, Invariance, PTL DEF Spec, ImplementsSharedExclusive, Abstract!Spec

------------------------------------------------------------------------------
(* The sleepers: how they are counted, what destroy() learns from the counts, *)
(* what a cancelled thread leaves behind, and that unlock() loses no wake-up.  *)

\* A thread that was cancelled in a timed call stays counted as waiting.
Ghost(t) == pc[t] = "dead" /\ call[t] \in TimedCalls
Counted(kind) == {t \in Thread : call[t] \in kind /\ (pc[t] \in InWait \/ Ghost(t))}
CountsAreExact ==
    /\ reader_waiting_num_ = Cardinality(Counted(ReadCalls))
    /\ writer_waiting_num_ = Cardinality(Counted(WriteCalls))

\* Where a thread is says which calls it can be in.
CallsFit ==
    \A t \in Thread :
       /\ pc[t] # "idle" => call[t] \in Calls
       /\ pc[t] = "timedout" => call[t] \in TimedCalls
       /\ pc[t] \in {"cancelled", "dead"} => call[t] \in CancelPoints

\* Only a call without a cleanup handler dies with the mutex.
GraveMutex == \A t \in Thread : pc[t] = "dead" /\ mutex_ = t => call[t] \in TimedCalls

\* What each read of destroy() has settled: of the threads it was about, none is
\* still as it was before destroy() began.
DestroyStages ==
    /\ dpc \in {"ref", "readers", "writers", "mutex"} => valid_ /\ mutexLive
    /\ dpc \in {"rcond", "wcond"} => valid_
    /\ dpc = "idle" /\ valid_ => mutexLive
    /\ \A t \in Thread :
          /\ dpc \notin {"idle", "ref"} /\ pc[t] \in Holding => use[t] # "before"
          /\ dpc \notin {"idle", "ref", "readers"} /\ pc[t] \in InWait /\ IsReader(t)
                => use[t] # "before"
          /\ dpc \in {"mutex", "rcond", "wcond"} /\ pc[t] \in InWait => use[t] # "before"

WaitInv ==
    /\ IInv
    /\ CallsFit
    /\ CountsAreExact
    /\ GraveMutex
    /\ DestroyStages

------------------------------------------------------------------------------
(* Counting.                                                                *)

LEMMA FiniteCounted ==
    ASSUME NEW kind
    PROVE  /\ IsFiniteSet(Counted(kind)) /\ Cardinality(Counted(kind)) \in Nat
           /\ Cardinality(Counted(kind)) = 0 <=> Counted(kind) = {}
<1>1. Counted(kind) \subseteq Thread
  BY DEF Counted
<1>2. IsFiniteSet(Counted(kind))
  BY <1>1, FS_Subset, LockAssumption
<1>3. QED
  BY <1>2, FS_CardinalityType, FS_EmptySet

LEMMA Kinds ==
    ASSUME WaitInv, NEW t \in Thread, pc[t] # "idle"
    PROVE  /\ call[t] \in ReadCalls \/ call[t] \in WriteCalls
           /\ ~(call[t] \in ReadCalls /\ call[t] \in WriteCalls)
  BY LockAssumption DEF WaitInv, CallsFit, ReadCalls, WriteCalls

\* No thread begins or ends to wait, or takes the lock unless its use of it is
\* newer than destroy(), and destroy() does not move.
Settle ==
    /\ UNCHANGED <<reader_waiting_num_, writer_waiting_num_, destroyVars>>
    /\ \A u \in Thread :
          /\ (pc'[u] \in InWait \/ Ghost(u)') <=> (pc[u] \in InWait \/ Ghost(u))
          /\ pc[u] \in InWait \/ Ghost(u) => call'[u] = call[u]
          /\ pc'[u] \in InWait => pc[u] \in InWait
          /\ pc'[u] \in Holding => pc[u] \in Holding \/ use'[u] # "before"
          /\ use[u] # "before" => use'[u] # "before"

LEMMA SettledCounts ==
    ASSUME WaitInv, Settle
    PROVE  CountsAreExact' /\ DestroyStages'
<1>1. Counted(ReadCalls)' = Counted(ReadCalls) /\ Counted(WriteCalls)' = Counted(WriteCalls)
  BY DEF Settle, Counted
<1>2. CountsAreExact'
  BY <1>1 DEF Settle, WaitInv, CountsAreExact
<1>3. DestroyStages'
  BY DEF Settle, WaitInv, DestroyStages, destroyVars, IsReader
<1>4. QED
  BY <1>2, <1>3

------------------------------------------------------------------------------
(* The steps that leave the waiting alone.                                  *)

LEMMA CallWaits ==
    ASSUME WaitInv, NEW t \in Thread, NEW c \in Calls, Call(t, c)
    PROVE  WaitInv'
<1> USE DEF WaitInv, IInv, TypeOK, Call, Goto, counters, destroyVars, InWait
<1>1. IInv'
  BY CallKeeps DEF WaitInv
<1>2. CallsFit'
  BY LockAssumption DEF CallsFit
<1>3. GraveMutex'
  BY LockAssumption DEF GraveMutex
<1>4. Settle
  BY DEF Settle, Ghost, Holding
<1>5. QED
  BY <1>1, <1>2, <1>3, <1>4, SettledCounts DEF WaitInv

LEMMA LockMutexWaits ==
    ASSUME WaitInv, NEW t \in Thread, LockMutex(t)
    PROVE  WaitInv'
<1> USE DEF WaitInv, IInv, TypeOK, LockMutex, Goto, counters, destroyVars, InWait
<1>1. IInv'
  BY LockMutexKeeps DEF WaitInv
<1>2. CallsFit'
  BY LockAssumption DEF CallsFit
<1>3. GraveMutex'
  BY LockAssumption DEF GraveMutex
<1>4. Settle
  BY DEF Settle, Ghost, Holding
<1>5. QED
  BY <1>1, <1>2, <1>3, <1>4, SettledCounts DEF WaitInv

LEMMA LockMutexFailsWaits ==
    ASSUME WaitInv, NEW t \in Thread, LockMutexFails(t)
    PROVE  WaitInv'
<1> USE DEF WaitInv, IInv, TypeOK, LockMutexFails, GotoIdle, Goto, counters, destroyVars, InWait
<1>1. IInv'
  BY LockMutexFailsKeeps DEF WaitInv
<1>2. CallsFit'
  BY LockAssumption DEF CallsFit
<1>3. GraveMutex'
  BY LockAssumption DEF GraveMutex
<1>4. Settle
  BY DEF Settle, Ghost, Holding
<1>5. QED
  BY <1>1, <1>2, <1>3, <1>4, SettledCounts DEF WaitInv

LEMMA GrantWaits ==
    ASSUME WaitInv, NEW t \in Thread, Grant(t)
    PROVE  WaitInv'
<1> USE DEF WaitInv, IInv, TypeOK, Grant, Goto, counters, destroyVars, InWait
<1>1. IInv'
  BY GrantKeeps DEF WaitInv
<1>2. CallsFit'
  BY LockAssumption DEF CallsFit
<1>3. GraveMutex'
  BY LockAssumption DEF GraveMutex
<1>4. Settle
  BY DEF Settle, Ghost, Holding, ChangeUse
<1>5. QED
  BY <1>1, <1>2, <1>3, <1>4, SettledCounts DEF WaitInv

LEMMA ReturnWaits ==
    ASSUME WaitInv, NEW t \in Thread, Return(t)
    PROVE  WaitInv'
<1> USE DEF WaitInv, IInv, TypeOK, Return, GotoIdle, Goto, counters, destroyVars, InWait
<1>1. IInv'
  BY ReturnKeeps DEF WaitInv
<1>2. CallsFit'
  BY LockAssumption DEF CallsFit
<1>3. GraveMutex'
  BY LockAssumption DEF GraveMutex
<1>4. Settle
  BY DEF Settle, Ghost, Holding
<1>5. QED
  BY <1>1, <1>2, <1>3, <1>4, SettledCounts DEF WaitInv

LEMMA LeaveWaitWaits ==
    ASSUME WaitInv, NEW t \in Thread, NEW l \in {"woken", "timedout", "cancelled"}, LeaveWait(t, l),
           l = "timedout" => call[t] \in TimedCalls, l = "cancelled" => call[t] \in CancelPoints
    PROVE  WaitInv'
<1> USE DEF WaitInv, IInv, TypeOK, LeaveWait, Goto, counters, destroyVars, InWait
<1>1. IInv'
  BY LeaveWaitKeeps DEF WaitInv
<1>2. CallsFit'
  BY LockAssumption DEF CallsFit
<1>3. GraveMutex'
  BY LockAssumption DEF GraveMutex
<1>4. Settle
  BY DEF Settle, Ghost, Holding
<1>5. QED
  BY <1>1, <1>2, <1>3, <1>4, SettledCounts DEF WaitInv

LEMMA CallUnlockWaits ==
    ASSUME WaitInv, NEW t \in Thread, CallUnlock(t)
    PROVE  WaitInv'
<1> USE DEF WaitInv, IInv, TypeOK, CallUnlock, GotoIdle, Goto, counters, destroyVars, InWait
<1>1. IInv'
  BY CallUnlockKeeps DEF WaitInv
<1>2. CallsFit'
  BY LockAssumption DEF CallsFit
<1>3. GraveMutex'
  BY LockAssumption DEF GraveMutex
<1>4. Settle
  BY DEF Settle, Ghost, Holding
<1>5. QED
  BY <1>1, <1>2, <1>3, <1>4, SettledCounts DEF WaitInv

------------------------------------------------------------------------------
(* The steps in which a thread goes to sleep, or is back from its wait.     *)

LEMMA WaiterComes ==
    ASSUME WaitInv, NEW t \in Thread, pc[t] \notin InWait \cup {"idle", "dead"},
           CountWaiter(t, 1), pc'[t] = "wait", call' = call,
           \A u \in Thread : u # t => pc'[u] = pc[u]
    PROVE  CountsAreExact'
<1> USE DEF InWait
<1>1. ASSUME NEW kind, call[t] \in kind
      PROVE  /\ Counted(kind)' = Counted(kind) \cup {t}
             /\ Cardinality(Counted(kind)') = Cardinality(Counted(kind)) + 1
  <2>1. Counted(kind)' = Counted(kind) \cup {t} /\ t \notin Counted(kind)
    BY <1>1 DEF Counted, Ghost
  <2>2. IsFiniteSet(Counted(kind))
    BY FiniteCounted
  <2>3. Cardinality(Counted(kind) \cup {t}) = Cardinality(Counted(kind)) + 1
    BY <2>1, <2>2, FS_AddElement
  <2>4. QED
    BY <2>1, <2>3
<1>2. ASSUME NEW kind, call[t] \notin kind
      PROVE  Counted(kind)' = Counted(kind)
  BY <1>2 DEF Counted, Ghost
<1>3. CASE IsReader(t)
  BY <1>1, <1>2, <1>3, Kinds DEF WaitInv, CountsAreExact, CountWaiter, IsReader
<1>4. CASE ~IsReader(t)
  BY <1>1, <1>2, <1>4, Kinds DEF WaitInv, CountsAreExact, CountWaiter, IsReader
<1>5. QED
  BY <1>3, <1>4

LEMMA WaiterGoes ==
    ASSUME WaitInv, NEW t \in Thread, pc[t] \in InWait,
           CountWaiter(t, -1), pc'[t] \notin InWait, ~Ghost(t)', call' = call,
           \A u \in Thread : u # t => pc'[u] = pc[u]
    PROVE  CountsAreExact'
<1>1. ASSUME NEW kind, call[t] \in kind
      PROVE  Cardinality(Counted(kind)') = Cardinality(Counted(kind)) - 1
  <2>1. Counted(kind)' = Counted(kind) \ {t} /\ t \in Counted(kind)
    BY <1>1 DEF Counted, Ghost
  <2>2. IsFiniteSet(Counted(kind))
    BY FiniteCounted
  <2>3. Cardinality(Counted(kind) \ {t}) = Cardinality(Counted(kind)) - 1
    BY <2>1, <2>2, FS_RemoveElement
  <2>4. QED
    BY <2>1, <2>3
<1>2. ASSUME NEW kind, call[t] \notin kind
      PROVE  Counted(kind)' = Counted(kind)
  BY <1>2 DEF Counted, Ghost
<1>3. pc[t] # "idle"
  BY DEF InWait
<1>4. CASE IsReader(t)
  BY <1>1, <1>2, <1>3, <1>4, Kinds DEF WaitInv, CountsAreExact, CountWaiter, IsReader, IInv, TypeOK
<1>5. CASE ~IsReader(t)
  BY <1>1, <1>2, <1>3, <1>5, Kinds DEF WaitInv, CountsAreExact, CountWaiter, IsReader, IInv, TypeOK
<1>6. QED
  BY <1>4, <1>5

LEMMA TestWaits ==
    ASSUME WaitInv, NEW t \in Thread, Test(t)
    PROVE  WaitInv'
<1> USE DEF WaitInv, IInv, TypeOK, Test, Goto, counters, destroyVars, InWait
<1>1. IInv'
  BY TestKeeps DEF WaitInv
<1>2. CallsFit'
  BY DEF CallsFit
<1>3. GraveMutex'
  BY LockAssumption DEF GraveMutex
<1>4. CASE pc'[t] # "wait"
  <2>1. Settle
    BY <1>4 DEF Settle, Ghost, Holding, ChangeUse
  <2>2. QED
    BY <1>1, <1>2, <1>3, <2>1, SettledCounts DEF WaitInv
<1>5. CASE pc'[t] = "wait"
  <2>1. CountWaiter(t, 1) /\ pc' = [pc EXCEPT ![t] = "wait"] /\ call' = call
    BY <1>5
  <2>2. use'[t] # "before" /\ \A u \in Thread : u # t => use'[u] = use[u]
    BY <1>5 DEF ChangeUse
  <2>3. CountsAreExact'
    BY <2>1, WaiterComes
  <2>4. DestroyStages'
    BY <2>1, <2>2 DEF DestroyStages, Holding, IsReader
  <2>5. QED
    BY <1>1, <1>2, <1>3, <2>3, <2>4
<1>6. QED
  BY <1>4, <1>5

LEMMA ResumeWaits ==
    ASSUME WaitInv, NEW t \in Thread, Resume(t)
    PROVE  WaitInv'
<1> USE DEF WaitInv, IInv, TypeOK, Resume, Goto, destroyVars, InWait
<1>1. IInv'
  BY ResumeKeeps DEF WaitInv
<1>2. CallsFit'
  BY DEF CallsFit
<1>3. GraveMutex'
  BY LockAssumption DEF GraveMutex
<1>4. CountsAreExact'
  BY WaiterGoes DEF Ghost
<1>5. DestroyStages'
  BY DEF DestroyStages, Holding, IsReader
<1>6. QED
  BY <1>1, <1>2, <1>3, <1>4, <1>5

LEMMA CleanUpWaits ==
    ASSUME WaitInv, NEW t \in Thread, CleanUp(t)
    PROVE  WaitInv'
<1> USE DEF WaitInv, IInv, TypeOK, CleanUp, Goto, counters, destroyVars, InWait
<1>1. IInv'
  BY CleanUpKeeps DEF WaitInv
<1>2. CallsFit'
  BY DEF CallsFit
<1>3. GraveMutex'
  BY LockAssumption DEF GraveMutex, DestroyedIsDrained
<1>4. CASE call[t] \in TimedCalls
  <2>1. Settle
    BY <1>4 DEF Settle, Ghost, Holding
  <2>2. QED
    BY <1>1, <1>2, <1>3, <2>1, SettledCounts DEF WaitInv
<1>5. CASE call[t] \notin TimedCalls
  <2>1. CountsAreExact'
    BY <1>5, WaiterGoes DEF Ghost
  <2>2. DestroyStages'
    BY DEF DestroyStages, Holding, IsReader
  <2>3. QED
    BY <1>1, <1>2, <1>3, <2>1, <2>2
<1>6. QED
  BY <1>4, <1>5

\* unlock() moves itself on, and some of the sleepers to "woken".
LEMMA ReleaseMoves ==
    ASSUME NEW t \in Thread, Release(t)
    PROVE  /\ pc[t] = "release" /\ pc'[t] = "released"
           /\ \A u \in Thread : u # t => \/ pc'[u] = pc[u]
                                         \/ pc[u] = "wait" /\ pc'[u] = "woken"
           /\ UNCHANGED <<mutex_, reader_waiting_num_, writer_waiting_num_, mutexLive, valid_, dpc,
                          call, calls, use>>
<1> DEFINE Moved(W) == pc' = [u \in Thread |-> CASE u = t -> "released"
                                               [] u # t /\ u \in W -> "woken"
                                               [] OTHER -> pc[u]]
<1>1. PICK ref \in AfterRelease(t) : \E W \in Wakeups(ref) : Moved(W)
  BY DEF Release
<1>2. PICK W \in Wakeups(ref) : Moved(W)
  BY <1>1
<1>3. \A u \in W : pc[u] = "wait"
  BY WokenWereAsleep
<1>4. pc[t] = "release" /\ UNCHANGED <<mutex_, reader_waiting_num_, writer_waiting_num_, mutexLive, valid_,
                                      dpc, call, calls, use>>
  BY DEF Release, destroyVars
<1>5. QED
  BY <1>2, <1>3, <1>4

LEMMA ReleaseWaits ==
    ASSUME WaitInv, NEW t \in Thread, Release(t)
    PROVE  WaitInv'
<1>1. IInv'
  BY ReleaseKeeps DEF WaitInv
<1>2. CallsFit'
  BY ReleaseMoves DEF WaitInv, CallsFit
<1>3. GraveMutex'
  BY ReleaseMoves DEF WaitInv, GraveMutex
<1>4. Settle
  BY ReleaseMoves DEF Settle, Ghost, Holding, InWait, destroyVars
<1>5. QED
  BY <1>1, <1>2, <1>3, <1>4, SettledCounts DEF WaitInv

------------------------------------------------------------------------------
(* The steps of destroy().                                                  *)

\* What a count of zero tells destroy().
LEMMA ZeroMeansNone ==
    ASSUME WaitInv
    PROVE  /\ valid_ /\ mutexLive /\ ref_count_ = 0 => Readers = {} /\ Writers = {}
           /\ reader_waiting_num_ = 0 => \A t \in Thread : ~(pc[t] \in InWait /\ IsReader(t))
           /\ writer_waiting_num_ = 0 => \A t \in Thread : ~(pc[t] \in InWait /\ ~IsReader(t))
<1>1. valid_ /\ mutexLive /\ ref_count_ = 0 => Readers = {} /\ Writers = {}
  BY NoReaders DEF WaitInv, IInv, RefCountMatchesHolders
<1>2. /\ reader_waiting_num_ = 0 => Counted(ReadCalls) = {}
      /\ writer_waiting_num_ = 0 => Counted(WriteCalls) = {}
  BY FiniteCounted DEF WaitInv, CountsAreExact
<1>3. \A t \in Thread : pc[t] \in InWait => call[t] \in ReadCalls \/ call[t] \in WriteCalls
  BY Kinds DEF InWait
<1>4. QED
  BY <1>1, <1>2, <1>3 DEF Counted, IsReader

LEMMA DestroyWaits ==
    ASSUME WaitInv, Destroy
    PROVE  WaitInv'
<1> USE DEF counters
<1>1. UNCHANGED <<mutex_, ref_count_, reader_waiting_num_, writer_waiting_num_, pc, call, calls>>
  BY DEF Destroy, BeginDestroy, Check, DestroyMutex, DestroyConds
<1>2. IInv' /\ CallsFit' /\ GraveMutex'
  BY <1>1, DestroyKeeps DEF WaitInv, CallsFit, GraveMutex
<1>3. CountsAreExact'
  BY <1>1 DEF WaitInv, CountsAreExact, Counted, Ghost
<1>4. DestroyStages'
  <2> USE DEF WaitInv, IInv, TypeOK, DPCs, DestroyStages
  <2>1. CASE BeginDestroy
    BY <1>1, <2>1 DEF BeginDestroy
  <2>2. CASE Check("ref", ref_count_, "readers")
    BY <1>1, <2>2, ZeroMeansNone DEF Check, Readers, Writers
  <2>3. CASE Check("readers", reader_waiting_num_, "writers")
    BY <1>1, <2>3, ZeroMeansNone DEF Check, IsReader
  <2>4. CASE Check("writers", writer_waiting_num_, "mutex")
    BY <1>1, <2>4, ZeroMeansNone DEF Check, IsReader
  <2>5. CASE DestroyMutex
    BY <1>1, <2>5 DEF DestroyMutex, IsReader
  <2>6. CASE DestroyConds
    BY <1>1, <2>6 DEF DestroyConds, IsReader
  <2>7. QED
    BY <2>1, <2>2, <2>3, <2>4, <2>5, <2>6 DEF Destroy
<1>5. QED
  BY <1>2, <1>3, <1>4 DEF WaitInv

------------------------------------------------------------------------------
LEMMA InitWaits == Init => WaitInv
<1> SUFFICES ASSUME Init PROVE WaitInv
  OBVIOUS
<1>1. Counted(ReadCalls) = {} /\ Counted(WriteCalls) = {}
  BY DEF Init, Counted, Ghost, InWait
<1>2. CountsAreExact
  BY <1>1, FiniteCounted DEF Init, CountsAreExact
<1>3. CallsFit /\ GraveMutex /\ DestroyStages
  BY DEF Init, CallsFit, GraveMutex, DestroyStages
<1>4. QED
  BY <1>2, <1>3, InitIInv DEF WaitInv

LEMMA NextWaits ==
    ASSUME WaitInv, [Next]_vars
    PROVE  WaitInv'
<1>1. CASE UNCHANGED vars
  <2>1. IInv'
    BY NextKeeps DEF WaitInv
  <2>2. CallsFit' /\ GraveMutex' /\ Settle
    BY <1>1 DEF WaitInv, CallsFit, GraveMutex, Settle, Ghost, vars, counters, destroyVars
  <2>3. QED
    BY <2>1, <2>2, SettledCounts DEF WaitInv
<1>2. ASSUME NEW t \in Thread, NEW c \in Calls, Call(t, c)
      PROVE  WaitInv'
  BY <1>2, CallWaits
<1>3. ASSUME NEW t \in Thread, Step(t)
      PROVE  WaitInv'
  <2>1. CASE Timeout(t)
    BY <2>1, LeaveWaitWaits DEF Timeout
  <2>2. QED
    BY <1>3, <2>1, LockMutexWaits, LockMutexFailsWaits, TestWaits, GrantWaits, ReturnWaits, ResumeWaits,
       CleanUpWaits, CallUnlockWaits, ReleaseWaits DEF Step
<1>4. ASSUME NEW t \in Thread, SpuriousWake(t) \/ Cancel(t)
      PROVE  WaitInv'
  BY <1>4, LeaveWaitWaits DEF SpuriousWake, Cancel
<1>5. CASE Destroy
  BY <1>5, DestroyWaits
<1>6. QED
  BY <1>1, <1>2, <1>3, <1>4, <1>5 DEF Next, Terminated

\* The sleepers are counted, and destroy() knows what it read, in every
\* reachable state, cancelled timed calls included.
THEOREM WaitInvariance == Spec => []WaitInv
<1>1. WaitInv /\ [Next]_vars => WaitInv'
  BY NextWaits
<1>2. QED
  BY InitWaits, <1>1, PTL DEF Spec

\* destroy() never takes the lock apart under a hold or a sleep that lasts since
\* before it began, whatever happens between its unprotected reads.
THEOREM LastingUseIsRefused == Spec => []DestroyRefusesLastingUse
<1>1. WaitInv => DestroyRefusesLastingUse
  BY DEF WaitInv, DestroyStages, DestroyRefusesLastingUse
<1>2. QED
  BY WaitInvariance, <1>1, PTL

\* If no thread is cancelled in a timed call, the waiting counters are exactly
\* the threads inside a condition wait.
THEOREM WaitersAreCounted ==
    ASSUME CancelPoints \cap TimedCalls = {}
    PROVE  Spec => []WaitingCountsMatchSleepers
<1>1. ASSUME WaitInv
      PROVE  WaitingCountsMatchSleepers
  <2>1. \A t \in Thread : ~Ghost(t)
    BY <1>1 DEF WaitInv, CallsFit, Ghost
  <2>2. ASSUME NEW kind
        PROVE  Counted(kind) = {t \in Thread : pc[t] \in InWait /\ call[t] \in kind}
    BY <2>1 DEF Counted
  <2>3. QED
    BY <1>1, <2>2 DEF WaitInv, CountsAreExact, WaitingCountsMatchSleepers
<1>2. QED
  BY WaitInvariance, <1>1, PTL

\* If no thread is cancelled in a timed call, none dies with the mutex.
THEOREM NoMutexInTheGrave ==
    ASSUME CancelPoints \cap TimedCalls = {}
    PROVE  Spec => []NoAbandonedMutex
<1>1. WaitInv => NoAbandonedMutex
  BY DEF WaitInv, CallsFit, GraveMutex, NoAbandonedMutex
<1>2. QED
  BY WaitInvariance, <1>1, PTL

------------------------------------------------------------------------------
(* No wake-up is lost, as long as no writer can leave its wait other than by *)
(* waking up and nobody destroys the lock.                                   *)

WritersStay == "timed_write_wait" \notin Calls /\ CancelPoints \cap WriteCalls = {} /\ ~MayDestroy

\* Each of these threads takes a free lock.
Coming == {"lock", "woken", "test", "grant"}
SomeoneComes ==
    Readers \cup Writers = {} /\ (\E t \in Thread : pc[t] = "wait") =>
        \E t \in Thread : pc[t] \in Coming

AwakeInv ==
    /\ WaitInv
    /\ dpc = "idle" /\ valid_ /\ mutexLive
    /\ SomeoneComes

LEMMA NobodyDestroys ==
    ASSUME WritersStay, AwakeInv, [Next]_vars
    PROVE  dpc' = "idle" /\ valid_' /\ mutexLive' /\ ~Destroy
<1>1. ~Destroy
  BY DEF WritersStay, AwakeInv, Destroy, BeginDestroy, Check, DestroyMutex, DestroyConds
<1>2. UNCHANGED destroyVars
  <2>1. CASE UNCHANGED vars
    BY <2>1 DEF vars
  <2>2. CASE Next
    BY <1>1, <2>2 DEF Next, Step, Call, LockMutex, LockMutexFails, Test, Grant, Return, Timeout, Resume,
       CleanUp, CallUnlock, Release, SpuriousWake, Cancel, LeaveWait, Terminated, vars
  <2>3. QED
    BY <2>1, <2>2
<1>3. QED
  BY <1>1, <1>2 DEF AwakeInv, destroyVars

\* A free lock is not busy.
LEMMA FreeIsNotBusy ==
    ASSUME AwakeInv, Readers \cup Writers = {}, NEW t \in Thread
    PROVE  ref_count_ = 0 /\ ~Busy(t)
<1>1. ref_count_ = 0
  BY NoReaders DEF AwakeInv, WaitInv, IInv, RefCountMatchesHolders
<1>2. QED
  BY <1>1 DEF Busy

\* The unlock() that frees the lock wakes a writer, finds one awake already, or
\* leaves nobody asleep.
LEMMA LastReleaseWakes ==
    ASSUME WritersStay, AwakeInv, NEW t \in Thread, Release(t), (Readers \cup Writers)' = {},
           NEW s \in Thread, pc'[s] = "wait"
    PROVE  \E u \in Thread : pc'[u] = "woken"
<1> DEFINE Moved(W) == pc' = [u \in Thread |-> CASE u = t -> "released"
                                               [] u # t /\ u \in W -> "woken"
                                               [] OTHER -> pc[u]]
<1>1. PICK ref \in AfterRelease(t) : ref_count_' = ref /\ \E W \in Wakeups(ref) : Moved(W)
  BY DEF Release
<1>2. PICK W \in Wakeups(ref) : Moved(W)
  BY <1>1
<1>3. W \subseteq Thread /\ \A u \in W : pc[u] = "wait"
  BY WokenWereAsleep DEF Wakeups, OneOf, Asleep
<1>4. pc[t] = "release"
  BY DEF Release
<1>5. \A u \in W : pc'[u] = "woken"
  BY <1>2, <1>3, <1>4
<1>6. ref = 0
  <2>1. IInv'
    BY ReleaseKeeps DEF AwakeInv, WaitInv
  <2>2. mutexLive' /\ valid_'
    BY ReleaseMoves DEF AwakeInv
  <2>3. Cardinality(Readers') = 0 /\ Writers' = {}
    BY FS_EmptySet
  <2>4. QED
    BY <1>1, <2>1, <2>2, <2>3 DEF IInv, RefCountMatchesHolders
<1>7. pc[s] = "wait" /\ s \notin W
  BY <1>2, <1>3
<1>8. s \in Counted(ReadCalls) \/ s \in Counted(WriteCalls)
  BY <1>7, Kinds DEF AwakeInv, Counted, InWait
<1>9. CASE Counted(WriteCalls) # {}
  <2>1. writer_waiting_num_ > 0
    BY <1>9, FiniteCounted DEF AwakeInv, WaitInv, CountsAreExact
  <2>2. W \in OneOf(Asleep(WriteCalls))
    BY <1>6, <2>1 DEF Wakeups
  <2>3. CASE Asleep(WriteCalls) # {}
    BY <1>3, <1>5, <2>2, <2>3 DEF OneOf
  <2>4. CASE Asleep(WriteCalls) = {}
    <3>1. PICK u \in Counted(WriteCalls) : u \in Thread
      BY <1>9 DEF Counted
    <3>2. pc[u] # "wait" /\ call[u] \in WriteCalls
      BY <2>4, <3>1 DEF Asleep, Counted
    <3>3. pc[u] # "timedout" /\ pc[u] # "cancelled" /\ ~Ghost(u)
      <4>1. pc[u] # "idle"
        BY <3>1 DEF Counted, Ghost, InWait
      <4>2. call[u] \in Calls /\ call[u] \notin TimedCalls /\ call[u] \notin CancelPoints
        BY <3>1, <3>2, <4>1 DEF AwakeInv, WaitInv, CallsFit, WritersStay, WriteCalls, TimedCalls
      <4>3. QED
        BY <3>1, <4>2 DEF AwakeInv, WaitInv, CallsFit, Ghost
    <3>4. pc[u] = "woken"
      BY <3>1, <3>2, <3>3 DEF Counted, InWait
    <3>5. pc'[u] = "woken"
      BY <1>2, <1>4, <3>1, <3>4
    <3>6. QED
      BY <3>1, <3>5
  <2>5. QED
    BY <2>3, <2>4
<1>10. CASE Counted(WriteCalls) = {}
  <2>1. writer_waiting_num_ = 0 /\ reader_waiting_num_ > 0
    BY <1>8, <1>10, FiniteCounted DEF AwakeInv, WaitInv, CountsAreExact
  <2>2. W = Asleep(ReadCalls)
    BY <2>1 DEF Wakeups
  <2>3. s \in W
    BY <1>7, <1>8, <1>10, <2>2 DEF Asleep, Counted
  <2>4. QED
    BY <1>7, <2>3
<1>11. QED
  BY <1>9, <1>10

\* While the lock is free and somebody sleeps, who comes goes on coming until it
\* has the lock; and a thread goes to sleep only when the lock is taken.
LEMMA ComersStay ==
    ASSUME WritersStay, AwakeInv, [Next]_vars, Readers \cup Writers = {},
           (Readers \cup Writers)' = {}, \E s \in Thread : pc'[s] = "wait"
    PROVE  \E u \in Thread : pc'[u] \in Coming
<1> USE DEF AwakeInv, WaitInv, IInv, TypeOK, Goto, GotoIdle, Coming
<1>1. \A u \in Thread : pc[u] \notin Holding /\ pc'[u] \notin Holding
  BY DEF Readers, Writers, IsReader
<1>2. CASE UNCHANGED vars
  BY <1>2 DEF vars, SomeoneComes
<1>3. ASSUME NEW t \in Thread, NEW c \in Calls, Call(t, c)
      PROVE  \E u \in Thread : pc'[u] \in Coming
  BY <1>3 DEF Call
<1>4. ASSUME NEW t \in Thread, \/ LockMutex(t) \/ LockMutexFails(t) \/ Test(t) \/ Grant(t) \/ Return(t)
                               \/ Timeout(t) \/ Resume(t) \/ CleanUp(t) \/ SpuriousWake(t) \/ Cancel(t)
      PROVE  \E u \in Thread : pc'[u] \in Coming
  <2>1. PICK l : pc' = [pc EXCEPT ![t] = l]
    BY <1>4 DEF LockMutex, LockMutexFails, Test, Grant, Return, Timeout, Resume, CleanUp, SpuriousWake,
       Cancel, LeaveWait
  <2>2. l = "wait" => pc[t] = "wait"
    BY <1>4, <2>1, FreeIsNotBusy DEF LockMutex, LockMutexFails, Test, Grant, Return, Timeout, Resume,
       CleanUp, SpuriousWake, Cancel, LeaveWait
  <2>3. \E s \in Thread : pc[s] = "wait"
    BY <2>1, <2>2
  <2>4. PICK u \in Thread : pc[u] \in Coming
    BY <2>3 DEF SomeoneComes
  <2>5. u = t => l \in Coming
    BY <1>1, <1>4, <2>1, <2>4, FreeIsNotBusy DEF LockMutex, LockMutexFails, Test, Grant, Return, Timeout,
       Resume, CleanUp, SpuriousWake, Cancel, LeaveWait, Holding
  <2>6. QED
    BY <2>1, <2>4, <2>5
<1>5. ASSUME NEW t \in Thread, CallUnlock(t) \/ Release(t)
      PROVE  FALSE
  BY <1>1, <1>5 DEF CallUnlock, Release, Holding
<1>6. QED
  BY <1>2, <1>3, <1>4, <1>5, NobodyDestroys DEF Next, Step, Terminated

\* Only unlock() frees the lock.
LEMMA OnlyReleaseFrees ==
    ASSUME WritersStay, AwakeInv, [Next]_vars, Readers \cup Writers # {}, (Readers \cup Writers)' = {}
    PROVE  \E t \in Thread : Release(t)
<1> USE DEF AwakeInv, WaitInv, IInv, TypeOK, Goto, GotoIdle, Holding
<1>1. (\E u \in Thread : pc[u] \in Holding) /\ (\A u \in Thread : pc'[u] \notin Holding)
  BY DEF Readers, Writers, IsReader
<1>2. ~UNCHANGED vars
  BY <1>1 DEF vars
<1>3. ASSUME NEW t \in Thread, NEW c \in Calls, Call(t, c)
      PROVE  FALSE
  BY <1>1, <1>3 DEF Call
<1>4. ASSUME NEW t \in Thread, \/ LockMutex(t) \/ LockMutexFails(t) \/ Test(t) \/ Grant(t) \/ Return(t)
                               \/ Timeout(t) \/ Resume(t) \/ CleanUp(t) \/ SpuriousWake(t) \/ Cancel(t)
                               \/ CallUnlock(t)
      PROVE  FALSE
  BY <1>1, <1>4 DEF LockMutex, LockMutexFails, Test, Grant, Return, Timeout, Resume, CleanUp, SpuriousWake,
       Cancel, LeaveWait, CallUnlock
<1>5. QED
  BY <1>2, <1>3, <1>4, NobodyDestroys DEF Next, Step, Terminated

LEMMA NextAwake ==
    ASSUME WritersStay, AwakeInv, [Next]_vars
    PROVE  AwakeInv'
<1>1. WaitInv'
  BY NextWaits DEF AwakeInv
<1>2. SomeoneComes'
  <2> SUFFICES ASSUME (Readers \cup Writers)' = {}, NEW s \in Thread, pc'[s] = "wait"
               PROVE  \E u \in Thread : pc'[u] \in Coming
    BY DEF SomeoneComes
  <2>1. CASE Readers \cup Writers = {}
    BY <2>1, ComersStay
  <2>2. CASE Readers \cup Writers # {}
    BY <2>2, OnlyReleaseFrees, LastReleaseWakes DEF Coming
  <2>3. QED
    BY <2>1, <2>2
<1>3. QED
  BY <1>1, <1>2, NobodyDestroys DEF AwakeInv

\* When the lock is free and a thread sleeps, another is on its way to the lock:
\* no order of unlock(), sleeps, timeouts of readers and spurious wake-ups loses
\* the wake-up.
THEOREM NoWakeUpIsLost ==
    ASSUME WritersStay
    PROVE  Spec => []NoStrandedWaiter
<1>1. Init => AwakeInv
  BY InitWaits DEF Init, AwakeInv, SomeoneComes
<1>2. AwakeInv /\ [Next]_vars => AwakeInv'
  BY NextAwake
<1>3. AwakeInv => NoStrandedWaiter
  BY DEF AwakeInv, SomeoneComes, NoStrandedWaiter, Coming
<1>4. QED
  BY <1>1, <1>2, <1>3, PTL DEF Spec
==============================================================================
