---------------------------- MODULE ReadWriteLock ----------------------------
(***************************************************************************)
(* class ReadWriteLock of cpp_utils/rwlock.cpp: a readers-writer lock made *)
(* of one pthread mutex, two condition variables and three counters.       *)
(*                                                                         *)
(* A thread's steps are cut where another thread can be scheduled: at the  *)
(* unprotected read of valid_, at pthread_mutex_lock, between the loop     *)
(* test and the update it guards, inside the condition wait and at         *)
(* pthread_mutex_unlock.  destroy() takes no mutex, so each field it reads *)
(* is a step of its own.                                                   *)
(*                                                                         *)
(* pthreads is external and is modelled from how the code uses it: a wait  *)
(* releases the mutex and sleeps in one step and takes the mutex again     *)
(* before it returns; a signal wakes one sleeper if there is one; a        *)
(* sleeper may wake spuriously, time out or be cancelled; cancellation     *)
(* acts in the condition waits only; locking a destroyed mutex fails.      *)
(***************************************************************************)
EXTENDS Integers, FiniteSets

CONSTANTS
    Thread,         \* the threads that share the lock
    None,           \* owner of a mutex nobody owns
    Calls,          \* the lock calls these threads make
    CancelPoints,   \* the calls in whose condition wait pthread_cancel may act
    MayDestroy,     \* whether some thread calls destroy()
    MaxCalls        \* bound: lock calls one thread makes in its life

ReadCalls  == {"read_lock", "timed_read_lock", "try_read_lock"}
WriteCalls == {"write_lock", "timed_write_wait", "try_write_lock"}
TryCalls   == {"try_read_lock", "try_write_lock"}
TimedCalls == {"timed_read_lock", "timed_write_wait"}

ASSUME LockAssumption ==
    /\ IsFiniteSet(Thread)
    /\ None \notin Thread
    /\ Calls \subseteq ReadCalls \cup WriteCalls
    /\ CancelPoints \subseteq Calls \ TryCalls
    /\ MayDestroy \in BOOLEAN
    /\ MaxCalls \in Nat

VARIABLES
    mutex_,               \* the thread that owns mutex_, or None
    mutexLive,            \* FALSE once pthread_mutex_destroy has succeeded
    ref_count_,           \* < 0: writing, > 0: number of readers
    reader_waiting_num_,
    writer_waiting_num_,
    valid_,
    pc,                   \* where each thread is
    call,                 \* the lock call it is in, or holds the lock from
    calls,                \* how many lock calls it has made
    dpc,                  \* where the thread that calls destroy() is
    use                   \* history: whether a thread's use of the lock is older
                          \* than the destroy() call under way

counters == <<ref_count_, reader_waiting_num_, writer_waiting_num_>>
destroyVars == <<mutexLive, valid_, dpc>>
vars == <<mutex_, counters, destroyVars, pc, call, calls, use>>

(***************************************************************************)
(* Outside: idle, held, dead.  In a lock call: lock (about to lock the     *)
(* mutex), test (owns it, at the loop condition), grant (condition found   *)
(* false), wait (asleep), woken, timedout, cancelled (left the wait, needs *)
(* the mutex), granted and refused (about to unlock the mutex and return). *)
(* In unlock(): ulock, release, released.                                  *)
(***************************************************************************)
PCs == {"idle", "held", "dead", "lock", "test", "grant", "wait", "woken",
        "timedout", "cancelled", "granted", "refused", "ulock", "release",
        "released"}
DPCs == {"idle", "ref", "readers", "writers", "mutex", "rcond", "wcond"}

IsReader(t) == call[t] \in ReadCalls

\* A thread has the lock from the counter update to the update that undoes it.
Holding == {"granted", "held", "ulock", "release"}
Readers == {t \in Thread : pc[t] \in Holding /\ IsReader(t)}
Writers == {t \in Thread : pc[t] \in Holding /\ ~IsReader(t)}

Asleep(kind) == {t \in Thread : pc[t] = "wait" /\ call[t] \in kind}
InWait == {"wait", "woken", "timedout", "cancelled"}

(***************************************************************************)
(* A hold or a wait that destroy() would have counted when it began is     *)
(* before; when its thread takes the lock, or sleeps again, in the same    *)
(* call it is changed; that of a later call, or of one not yet counted, is *)
(* new.                                                                    *)
(***************************************************************************)
Uses == {"before", "changed", "new"}
AllNew == [t \in Thread |-> "new"]
ChangeUse(t) == use' = [use EXCEPT ![t] = IF @ = "before" THEN "changed" ELSE @]
------------------------------------------------------------------------------
Init ==
    /\ mutex_ = None
    /\ mutexLive = TRUE
    /\ ref_count_ = 0
    /\ reader_waiting_num_ = 0
    /\ writer_waiting_num_ = 0
    /\ valid_ = TRUE
    /\ pc = [t \in Thread |-> "idle"]
    /\ call = [t \in Thread |-> "none"]
    /\ calls = [t \in Thread |-> 0]
    /\ dpc = "idle"
    /\ use = AllNew

Goto(t, l) == pc' = [pc EXCEPT ![t] = l]

\* Back to the caller without the lock.
GotoIdle(t) ==
    /\ Goto(t, "idle")
    /\ call' = [call EXCEPT ![t] = "none"]

------------------------------------------------------------------------------
(* The lock calls.                                                          *)

\* Entry of the six lock calls: an invalid lock is refused without the mutex.
Call(t, c) ==
    /\ pc[t] = "idle"
    /\ calls[t] < MaxCalls
    /\ calls' = [calls EXCEPT ![t] = @ + 1]
    /\ IF valid_
       THEN /\ Goto(t, "lock")
            /\ call' = [call EXCEPT ![t] = c]
            /\ use' = [use EXCEPT ![t] = "new"]
       ELSE UNCHANGED <<pc, call, use>>
    /\ UNCHANGED <<mutex_, counters, destroyVars>>

\* pthread_mutex_lock, in a lock call or in unlock().
LockMutex(t) ==
    /\ mutexLive
    /\ mutex_ = None
    /\ \/ pc[t] = "lock" /\ Goto(t, "test")
       \/ pc[t] = "ulock" /\ Goto(t, "release")
    /\ mutex_' = t
    /\ UNCHANGED <<counters, destroyVars, call, calls, use>>

\* pthread_mutex_lock of a destroyed mutex: a lock call returns EC_LOCK_BUSY,
\* unlock() notes it and goes on without the mutex.
LockMutexFails(t) ==
    /\ ~mutexLive
    /\ \/ pc[t] = "lock" /\ GotoIdle(t)
       \/ pc[t] = "ulock" /\ Goto(t, "release") /\ UNCHANGED call
    /\ UNCHANGED <<mutex_, counters, destroyVars, calls, use>>

\* Faulty loop conditions, for the mutants of Busy.
BusyIgnoringReaders(t) == ref_count_ < 0
BusyIgnoringWriter(t) == IF IsReader(t) THEN ref_count_ < 0 ELSE ref_count_ > 0

\* The loop condition: a reader waits for the writer, a writer for everyone.
Busy(t) == IF IsReader(t) THEN ref_count_ < 0 ELSE ref_count_ # 0

\* Add d to the number of waiting threads of t's kind.
CountWaiter(t, d) ==
    IF IsReader(t)
    THEN /\ reader_waiting_num_' = reader_waiting_num_ + d
         /\ UNCHANGED writer_waiting_num_
    ELSE /\ writer_waiting_num_' = writer_waiting_num_ + d
         /\ UNCHANGED reader_waiting_num_

\* The loop condition is evaluated.  A try call that finds the lock taken gives
\* up; the other calls count themselves and sleep, which releases the mutex.
Test(t) ==
    /\ pc[t] = "test"
    /\ \/ /\ ~Busy(t)
          /\ Goto(t, "grant")
          /\ UNCHANGED <<mutex_, counters, use>>
       \/ /\ Busy(t)
          /\ call[t] \in TryCalls
          /\ Goto(t, "refused")
          /\ UNCHANGED <<mutex_, counters, use>>
       \/ /\ Busy(t)
          /\ call[t] \notin TryCalls
          /\ Goto(t, "wait")
          /\ CountWaiter(t, 1)
          /\ mutex_' = None
          /\ ChangeUse(t)
          /\ UNCHANGED ref_count_
    /\ UNCHANGED <<destroyVars, call, calls>>

\* ++ref_count_ of a reader; --ref_count_, or = -1 in try_write_lock, of a writer.
Grant(t) ==
    /\ pc[t] = "grant"
    /\ ref_count_' = CASE IsReader(t) -> ref_count_ + 1
                       [] call[t] = "try_write_lock" -> -1
                       [] OTHER -> ref_count_ - 1
    /\ Goto(t, "granted")
    /\ ChangeUse(t)
    /\ UNCHANGED <<mutex_, reader_waiting_num_, writer_waiting_num_, destroyVars,
                   call, calls>>

\* pthread_mutex_unlock, then the call returns: with the lock, without it
\* (refused), or from unlock().
Return(t) ==
    /\ pc[t] \in {"granted", "refused", "released"}
    /\ IF pc[t] = "granted" THEN Goto(t, "held") /\ UNCHANGED call
                            ELSE GotoIdle(t)
    /\ mutex_' = IF mutex_ = t THEN None ELSE mutex_
    /\ UNCHANGED <<counters, destroyVars, calls, use>>

------------------------------------------------------------------------------
(* The condition wait.                                                      *)

LeaveWait(t, l) ==
    /\ pc[t] = "wait"
    /\ Goto(t, l)
    /\ UNCHANGED <<mutex_, counters, destroyVars, call, calls, use>>

SpuriousWake(t) == LeaveWait(t, "woken")

Timeout(t) == call[t] \in TimedCalls /\ LeaveWait(t, "timedout")

Cancel(t) == call[t] \in CancelPoints /\ LeaveWait(t, "cancelled")

\* The wait returns with the mutex taken again: woken up, the thread tests the
\* condition once more; timed out, or with a mutex that is gone, it gives up.
Resume(t) ==
    /\ pc[t] \in {"woken", "timedout"}
    /\ IF mutexLive
       THEN /\ mutex_ = None
            /\ mutex_' = t
            /\ Goto(t, IF pc[t] = "woken" THEN "test" ELSE "refused")
       ELSE UNCHANGED mutex_ /\ Goto(t, "refused")
    /\ CountWaiter(t, -1)
    /\ UNCHANGED <<ref_count_, destroyVars, call, calls, use>>

\* Faulty variants of CleanUp: the cleanup handler forgets the counter, or the
\* mutex.
CleanUpKeepingCount(t) ==
    /\ pc[t] = "cancelled"
    /\ mutexLive => mutex_ = None
    /\ Goto(t, "dead")
    /\ UNCHANGED <<mutex_, counters, destroyVars, call, calls, use>>
CleanUpKeepingMutex(t) ==
    /\ pc[t] = "cancelled"
    /\ mutexLive => mutex_ = None
    /\ Goto(t, "dead")
    /\ mutex_' = IF mutexLive THEN t ELSE mutex_
    /\ CountWaiter(t, -1)
    /\ UNCHANGED <<ref_count_, destroyVars, call, calls, use>>

\* A cancelled wait also takes the mutex again.  In read_lock and write_lock the
\* cleanup handler then drops the count and releases the mutex; the timed calls
\* push no handler, and the thread dies with the mutex, counted as waiting.
CleanUp(t) ==
    /\ pc[t] = "cancelled"
    /\ mutexLive => mutex_ = None
    /\ Goto(t, "dead")
    /\ IF call[t] \in TimedCalls
       THEN /\ mutex_' = IF mutexLive THEN t ELSE mutex_
            /\ UNCHANGED counters
       ELSE /\ CountWaiter(t, -1)
            /\ UNCHANGED <<mutex_, ref_count_>>
    /\ UNCHANGED <<destroyVars, call, calls, use>>

------------------------------------------------------------------------------
(* unlock().  Its return code is left out: no caller in the file reads it.  *)

CallUnlock(t) ==
    /\ pc[t] = "held"
    /\ IF valid_ THEN Goto(t, "ulock") /\ UNCHANGED call ELSE GotoIdle(t)
    /\ UNCHANGED <<mutex_, counters, destroyVars, calls, use>>

Decremented == IF ref_count_ > 0 THEN ref_count_ - 1 ELSE 0

\* Faulty variant of AfterRelease: the last reader is forgotten.
AfterReleaseOffByOne(t) ==
    {CASE ref_count_ > 1 -> ref_count_ - 1
       [] ref_count_ < 0 -> 0
       [] OTHER -> ref_count_}

\* The values unlock() can leave in ref_count_.  Without the mutex (it was
\* destroyed) the update races with that of other threads and may be lost.
AfterRelease(t) == {Decremented} \cup (IF mutex_ = t THEN {} ELSE {ref_count_})

\* A signal wakes one sleeper of the kind, if there is one.
OneOf(S) == IF S = {} THEN {{}} ELSE {{u} : u \in S}

\* Faulty variants of Wakeups: readers before writers; readers never.
WakeupsReadersFirst(ref) ==
    CASE reader_waiting_num_ > 0 -> {Asleep(ReadCalls)}
      [] reader_waiting_num_ <= 0 /\ writer_waiting_num_ > 0 /\ ref = 0 ->
             OneOf(Asleep(WriteCalls))
      [] OTHER -> {{}}
WakeupsOfWriters(ref) ==
    IF writer_waiting_num_ > 0 /\ ref = 0 THEN OneOf(Asleep(WriteCalls)) ELSE {{}}

\* The sets of sleepers that unlock() may wake when it leaves ref behind: one
\* writer if one is counted and the lock is free, else every reader.
Wakeups(ref) ==
    CASE writer_waiting_num_ > 0 /\ ref = 0 -> OneOf(Asleep(WriteCalls))
      [] ~(writer_waiting_num_ > 0 /\ ref = 0) /\ reader_waiting_num_ > 0 ->
             {Asleep(ReadCalls)}
      [] OTHER -> {{}}

\* The body of unlock() between the lock and the unlock of the mutex.
Release(t) ==
    /\ pc[t] = "release"
    /\ \E ref \in AfterRelease(t) :
          /\ ref_count_' = ref
          /\ \E W \in Wakeups(ref) :
                pc' = [u \in Thread |-> CASE u = t -> "released"
                                          [] u # t /\ u \in W -> "woken"
                                          [] OTHER -> pc[u]]
    /\ UNCHANGED <<mutex_, reader_waiting_num_, writer_waiting_num_, destroyVars,
                   call, calls, use>>

------------------------------------------------------------------------------
(* destroy(), called by one further thread.                                 *)

BeginDestroy ==
    /\ MayDestroy
    /\ dpc = "idle"
    /\ valid_
    /\ dpc' = "ref"
    /\ use' = [t \in Thread |-> IF pc[t] \in Holding \cup InWait THEN "before" ELSE "new"]
    /\ UNCHANGED <<mutex_, counters, mutexLive, valid_, pc, call, calls>>

\* Faulty variant of Check: waiting writers are not looked at.
CheckIgnoringWriters(field, count, next) ==
    /\ dpc = field
    /\ \/ /\ count = 0 \/ field = "writers"
          /\ dpc' = next
          /\ UNCHANGED use
       \/ /\ count # 0 /\ field # "writers"
          /\ dpc' = "idle"
          /\ use' = AllNew
    /\ UNCHANGED <<mutex_, counters, mutexLive, valid_, pc, call, calls>>

\* One operand of the condition that answers EC_LOCK_USING, read without mutex_.
Check(field, count, next) ==
    /\ dpc = field
    /\ \/ /\ count = 0
          /\ dpc' = next
          /\ UNCHANGED use
       \/ /\ count # 0
          /\ dpc' = "idle"
          /\ use' = AllNew
    /\ UNCHANGED <<mutex_, counters, mutexLive, valid_, pc, call, calls>>

\* pthread_mutex_destroy refuses a mutex that is locked; destroy() goes on.
DestroyMutex ==
    /\ dpc = "mutex"
    /\ dpc' = "rcond"
    /\ mutexLive' = (mutex_ # None /\ mutexLive)
    /\ UNCHANGED <<mutex_, counters, valid_, pc, call, calls, use>>

\* pthread_cond_destroy waits for the sleepers to leave; after the second one
\* the lock is marked invalid.
DestroyConds ==
    /\ \/ /\ dpc = "rcond"
          /\ Asleep(ReadCalls) = {}
          /\ dpc' = "wcond"
          /\ UNCHANGED <<valid_, use>>
       \/ /\ dpc = "wcond"
          /\ Asleep(WriteCalls) = {}
          /\ dpc' = "idle"
          /\ valid_' = FALSE
          /\ use' = AllNew
    /\ UNCHANGED <<mutex_, counters, mutexLive, pc, call, calls>>

Destroy ==
    \/ BeginDestroy
    \/ Check("ref", ref_count_, "readers")
    \/ Check("readers", reader_waiting_num_, "writers")
    \/ Check("writers", writer_waiting_num_, "mutex")
    \/ DestroyMutex
    \/ DestroyConds

------------------------------------------------------------------------------
\* Every thread has made its calls and is outside the lock, or is dead.
Terminated ==
    /\ \A t \in Thread : pc[t] = "dead" \/ (pc[t] = "idle" /\ calls[t] = MaxCalls)
    /\ UNCHANGED vars

Step(t) ==
    \/ LockMutex(t) \/ LockMutexFails(t) \/ Test(t) \/ Grant(t) \/ Return(t)
    \/ Timeout(t) \/ Resume(t) \/ CleanUp(t) \/ CallUnlock(t) \/ Release(t)

Next ==
    \/ \E t \in Thread : \/ \E c \in Calls : Call(t, c)
                         \/ Step(t) \/ SpuriousWake(t) \/ Cancel(t)
    \/ Destroy
    \/ Terminated

Spec == Init /\ [][Next]_vars

\* A thread inside a call keeps running, a deadline passes, and who holds the
\* lock unlocks it; nobody has to call, to cancel or to destroy.
FairSpec == Spec /\ \A t \in Thread : WF_vars(Step(t))

------------------------------------------------------------------------------
(* Properties.                                                              *)

\* ref_count_ stays between -1 and the number of threads, so two writers, or a
\* writer that counts itself over readers, show as an ill-typed count.
TypeOK ==
    /\ mutex_ \in Thread \cup {None}
    /\ mutexLive \in BOOLEAN
    /\ ref_count_ \in -1 .. Cardinality(Thread)
    /\ reader_waiting_num_ \in Int
    /\ writer_waiting_num_ \in Int
    /\ valid_ \in BOOLEAN
    /\ pc \in [Thread -> PCs]
    /\ call \in [Thread -> Calls \cup {"none"}]
    /\ calls \in [Thread -> 0 .. MaxCalls]
    /\ dpc \in DPCs
    /\ use \in [Thread -> Uses]

\* While a writer has the lock nobody else has it, whichever of the blocking,
\* timed and try calls the threads mix, and also when destroy() runs meanwhile.
MutualExclusion ==
    \A w \in Writers : Readers = {} /\ Writers = {w}

\* ref_count_ says exactly who has the lock until destroy() marks it invalid
\* (unlock() then returns at once): minus one for a writer, else the number of
\* readers.
RefCountMatchesHolders ==
    valid_ /\ mutexLive => ref_count_ = IF Writers = {} THEN Cardinality(Readers) ELSE -1

\* Each waiting counter equals the number of threads that are inside that kind
\* of condition wait: sleeping, or not yet back from it with the mutex.  Timed
\* out and cancelled threads included, so unlock() never signals for ghosts
\* that are gone for good.
WaitingCountsMatchSleepers ==
    LET waiting(kind) == {t \in Thread : pc[t] \in InWait /\ call[t] \in kind}
    IN  /\ reader_waiting_num_ = Cardinality(waiting(ReadCalls))
        /\ writer_waiting_num_ = Cardinality(waiting(WriteCalls))

\* A cancelled thread does not take the mutex to its grave (the cleanup
\* handlers, lines 239-251, and the comment at line 79).
NoAbandonedMutex ==
    \A t \in Thread : pc[t] = "dead" => mutex_ # t

\* If a thread sleeps while nobody has the lock, some thread is awake inside a
\* call and its next unlock is still to come: no wake-up was lost.
NoStrandedWaiter ==
    (valid_ /\ Readers \cup Writers = {} /\ \E t \in Thread : pc[t] = "wait")
        => \E t \in Thread : pc[t] \notin {"idle", "held", "dead", "wait"}

\* destroy() never takes the lock apart under a hold or a sleep that lasts since
\* before it began: one of its reads, made one by one without mutex_, meets the
\* counter of it, whatever the other threads do in between.
DestroyRefusesLastingUse ==
    dpc \in {"mutex", "rcond", "wcond"} =>
        \A t \in Thread : pc[t] \in Holding \cup InWait => use[t] # "before"

\* A lock that is in use is not destroyed but answered with EC_LOCK_USING (lines
\* 13 and 59): who has the lock, or waits for it, when destroy() takes it apart
\* came to it after destroy() had begun.
DestroyRefusesEstablishedUse ==
    dpc \in {"mutex", "rcond", "wcond"} =>
        \A t \in Thread : pc[t] \in Holding \cup InWait => use[t] = "new"

\* What the callers see: how each thread holds the lock.
mode == [t \in Thread |-> IF t \in Readers THEN "shared"
                          ELSE IF t \in Writers THEN "exclusive" ELSE "none"]
Abstract == INSTANCE SharedExclusiveLock

\* The lock is a shared/exclusive lock: each step takes or gives back one hold
\* as SharedExclusiveLock allows it, or changes nothing the callers see.
ImplementsSharedExclusive == Abstract!Spec

\* Every call returns: unless sleepers keep waking up for no reason, no thread
\* stays in a lock call or in unlock() for ever.
Inside(t) == pc[t] \notin {"idle", "held", "dead"}
EveryCallReturns ==
    <>[][~\E t \in Thread : SpuriousWake(t)]_vars
        => \A t \in Thread : Inside(t) ~> ~Inside(t)
==============================================================================
