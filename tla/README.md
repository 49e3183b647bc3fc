# tiny-utils: specifications and proofs

tiny-utils is a collection of small, independent C, C++, Python and shell
utilities. There is no program that ties them together: each source file is a
component with its own state, and most have a `main` that shows how it is meant
to be used. The specifications follow that shape. Each component that keeps
state has a module of its own, an abstract module that says what the component
promises, and a module that instantiates it for TLC. No component calls another,
so no module makes two of them interact; the six smallest share one module for
TLC, `MCUtilities`, in which a behaviour picks one of them and follows it.

## 1. Inventory

| Component | State | Operations | Where it is hard | What makes it correct |
|---|---|---|---|---|
| `cpp_utils/rwlock.cpp` ReadWriteLock | `mutex_`, `ref_count_`, two waiting counters, two condition variables, `valid_` | `read_lock`, `timed_read_lock`, `try_read_lock`, the same three for writing, `unlock`, `destroy`, the cancellation handlers | threads block, time out, wake for no reason and are cancelled; `destroy` reads the counters without the mutex | writers are alone, the counters are exact, no wake-up is lost, every call returns |
| `cpp_utils/lockfree_queue.cpp` LockFreeQueue | a linked list with a dummy node, `tail`, `publisher`, an atomic `size` | `Enqueue`, `Dequeue`, `queue_size`, `Empty`, destructor | one producer and one consumer without a lock; plain pointers; nodes are reused by the allocator | FIFO, nothing unpublished is read, no freed node is touched, no node leaks |
| `c_utils/cstr.c` Cstr | one block: `cap`, `used`, bytes and terminator | constructors, assign, copy, sub, insert, append, reverse, case, clear, trims, searches | the block is resized under the string; four size limits; off-by-one at each | `cap` and `used` tell the truth, no write leaves the block, the value is what was asked for |
| `cpp_utils/object_pool.cpp` ObjectPool | a queue of idle objects, `mutex_`, `inited_` | `init`, `take_one`, `add_one`, the deleter of a handle | the deleter pushes without the mutex; constructors throw | no object is lost or lent twice |
| `cpp_utils/singleton.cpp` Singleton | `instance_`, one spin flag for all types, a static cleaner per type (`pthread_once` before C++11) | `Instance`, the cleaner | double-checked creation with a plain pointer; constructors that ask for other singletons, or throw | one object per type, seen whole, destroyed once; every call returns |
| `cpp_utils/observer.cpp` BaseSubject | a list of pointers to observers | add, two removals, `NotifyOne`, `NotifyAll`, destructor | callbacks that change the list or notify again | everyone in the list is told once, and deleted once |
| `cpp_utils/token_frequency_control.cpp` | tokens, time of the last access | `Grant` | rounding to milliseconds, overflow of int | no window grants more than its time is worth |
| `cpp_utils/num_base_x.cpp` | two conversion tables | `Add` | numbers of different length, carries | the sum |
| `python_utils/mylib_date.py` MylibDate | tables of holidays and workdays, today | the working-day test and four counts | where weekends, holidays and replaced workdays meet | the n-th working day from here |
| `c_utils/utf8_substr.cpp` | none | `utf8_to_charset`, `utf8_substr` | thresholds of the first byte; cut or invalid text | characters are not split |
| `cpp_utils/lock.cpp` ZSpinLock, ZMutexLock | a flag, a mutex | `lock`, `try_lock`, `unlock` | `lock` must block | not modelled: does not compile, or is one call of pthreads |
| `cpp_utils/timer.cpp`, `c_utils/clocker.h`, `c_utils/timeutils.cpp` | timestamps | wrappers | none | not modelled |
| other Python, shell and CMake files | none | input and output | none | not modelled |

The hazards of each are listed, line by line, in `PROJECT.json`.

## 2. Modules

| Module | What it is |
|---|---|
| `SharedExclusiveLock` | what a readers-writer lock promises: who holds it and how |
| `ReadWriteLock` | `rwlock.cpp` |
| `MCReadWriteLock` | its symmetry for TLC |
| `ReadWriteLockProofs` | theorems about `ReadWriteLock`: who holds it, who waits for it, and its destruction |
| `FifoChannel` | what a queue promises |
| `LockFreeQueue`, `MCLockFreeQueue` | `lockfree_queue.cpp` |
| `LockFreeQueueProofs` | theorems about `LockFreeQueue` |
| `TextBuffer` | what the operations of a string do to its value |
| `CString`, `MCCString` | `cstr.c`, the operations that change a string |
| `CStringProofs` | theorems about `CString` |
| `CStringSearch`, `MCCStringSearch` | `cstr.c`, searches and comparisons |
| `CStringSearchProofs` | theorems about `CStringSearch` |
| `IdlePool` | what an object pool promises |
| `ObjectPool`, `MCObjectPool` | `object_pool.cpp` |
| `ObjectPoolProofs` | theorems about `ObjectPool` |
| `OnePerType` | what a singleton promises |
| `Singleton` | `singleton.cpp`, both versions |
| `SingletonProofs` | theorems about `Singleton` |
| `Subject` | `observer.cpp` |
| `SubjectProofs` | theorems about `Subject` |
| `TokenBucket` | `token_frequency_control.cpp` |
| `TokenBucketProofs` | a theorem about `TokenBucket` |
| `WorkingDays` | `mylib_date.py` |
| `NumBaseX` | `num_base_x.cpp` |
| `Utf8Substr` | `utf8_substr.cpp` |
| `MCUtilities` | the six above with their bounds, one behaviour for each |

`PROJECT.json` maps every definition to the lines it models. Definitions whose
comment begins with "Faulty variant" are not part of a model: each is a
plausible slip in the definition that follows it, kept to show that some
property notices it.

### ReadWriteLock

The variables have the names of the class's fields. `pc` places each thread
between two points at which another can run: after the unprotected read of
`valid_`, at `pthread_mutex_lock`, between the loop test (`Test`) and the update
it guards (`Grant`), in the condition wait, and before the mutex is given back
(`Return`, `Release`). All six lock calls share these steps and differ in what
`Busy` tests and in what `Test` does when it is busy: refuse, or wait.
`unlock()` is `CallUnlock`, `Release` (counter and wake-ups) and `Return`.
`destroy()` is one step per field it reads, as it holds no mutex. `use` is a
history variable: of each thread, whether its hold or its wait is as old as the
`destroy()` under way and unchanged (`"before"`), passed from one to the other
since (`"changed"`), or `"new"`.

pthreads are external. A wait gives the mutex back and sleeps in one step; a
signal wakes one sleeper if there is one; a sleeper may wake spuriously, time
out (timed calls) or be cancelled (`CancelPoints`); locking a destroyed mutex
fails. `pthread_mutex_lock` failing in `unlock()` (line 212, where the code goes
on without it) is part of `Release`: `AfterRelease` then allows both outcomes of
the unprotected update.

### LockFreeQueue

`value`, `next`, `tail` and `publisher` are memory; what the producer has stored
and nobody else may see yet is in `storeBuffer`. `InOrder = TRUE` lets stores
reach memory in program order, as on x86 with a compiler that does not reorder
them; `FALSE` lets them reach it in any order that plain C++ variables permit.
`size` is `std::atomic<int>`, so its update waits for the stores before it.
`Node` is all the memory there is: `delete` gives a node back and `new` may hand
it out again at once with its old contents, or fail.

### CString

One string, operation after operation. A block is `data`, whose length is what
was allocated; `cap` is what the header claims. The sizes of `cstr.h` are
constants. `FitBytes`, `AppendBytes` and the inline case in `Insert` are the
three ways in which the code decides whether to call `realloc`, which differ and
are kept apart. `Become` says what an operation makes of the block: `Written`
gives each byte what the last of the writes that cover it has put there, and
`overrun` records whether one of them went past the block. `round_up_power_2` is
the least power of two that is not below its argument, which its loop goes
through one by one. Operands are values (`Piece`); what `begin` and `len` cut out
of an operand is any of them.

`AppendSelf` is `cstr_append(s, s)`, in which the operand is the string itself:
what is read of it is then what the block holds at that moment.

Three cases are kept behind the constant `Cases`, because the code loses
characters in them (see the findings): `"short_copy"`, a `cstr_copy` that shrinks
the block below the string, `"one_solid"`, a `cstr_trim_tail` of a string
whose only solid character is the first, and `"self_moved"`, a `cstr_append` of a
string to itself that has to move the block and so reads freed memory. With
`Cases = {}` the program stays clear of them.

### CStringSearch

A behaviour types a text and a pattern and calls one search. Each round of a loop
is a step: `FillTable` is a round of `kmp_next_table`, `KmpStep`,
`BoyerMooreStep` and `SundayStep` are rounds of the searches, `CountStep` and
`SundayReturns` are the loop of `cstr_count_str` around Sunday's search. `place`
says in which loop the search is; `i`, `j`, `k` are the code's. The comparison of a
window with the pattern, the tables of Boyer-Moore and Sunday and the scans are
single loops without a jump and are operators; the good-suffix table keeps the
order of its two passes, since the later assignment wins. The byte behind the
window of Sunday's search is, at the end of the text, any byte (`ByteAt`). `hits`
is a history variable. No operator is RECURSIVE, so that the module can be
proved about.

### ObjectPool

A push is two steps, `PushElement` (construct the element at `finish`) and
`MoveFinish`, and so is a take: release the front object, then pop. `mutex` is
held across the steps of `init`, `take_one` and `add_one`, and not across those
of the deleter (`ReturnCall`, `ReturnPush`). So the size test of `add_one`
(`AddCall`) is a step apart from its push (`AddElement`, `AddPush`): a deleter may
push between them. The history variable `returned` counts the pushes that do.
`LonePushes` says whether the program keeps pushes from overlapping with the push
of a deleter by means of its own; a push between a test and a push is no overlap.

### Singleton

A thread has a stack of calls of `Instance()`, since a constructor may ask for
another type; each call is at a place between two steps another thread can see:
the test without the lock (`Look`), the spinning (`Pass`), the second test
(`Check`), the constructor (`New`, `Construct`, `Throw`), the assignment
(`Store`), the clearing of the flag (`Leave`). `Build` chooses the version: with
`"spin"` all types share the gate `lock_`, with `"once"` each type has a control
of `pthread_once`, which is open again after a constructor that threw. Static
cleaners are constructed by the first call for their type and destroyed in
reverse order after `main` has joined its threads (`Exit`, `Clean`). With
`InOrder = FALSE` the pointer may be stored before the constructor has run, as
nothing in the code forbids; the run takes `TRUE`.

### Subject

The list holds nodes, not observers: an iterator belongs to a node, and an
observer may have several. `remove` erases every node of an observer and leaves
the others in their order (`Without`); `push_back` makes a new node, so that the
numbers of the nodes ascend along the list. `stack` holds the notifications under
way, each with the node whose `Update()` runs; between two steps, the innermost
`Update()` may call any operation. `Cases` keeps apart the two things the class
cannot stand, an observer removed while a `NotifyAll` stands at it and one
registered twice.

### TokenBucket

`Grant` takes any clock reading that is not before the last. The units of time and
the range of int are constants. `Open` is no step of the program: it moves the
beginning of the window whose grants are counted to the present, so that
`RateBound` speaks of every window.

### WorkingDays, NumBaseX, Utf8Substr

Pure functions. `WorkingDays` counts with one operator for both directions, as
the two loops differ in the sign of a step only; days are numbers, and the tables
are sets that are filled in any way. `NumBaseX` gives `Add` one more argument,
what stands behind the end of the vectors, because the code reads it.
`Utf8Substr` keeps `!=` as the loops' test for the end: a walk that has stepped
over it `Fails`.

## 3. Runs

| Run | Question | Bounds | Result |
|---|---|---|---|
| `rwlock_safety` | does the state of the lock stay right under every call, cancellation and `destroy()`? | 3 threads, 2 calls each | holds |
| `rwlock_progress` | is it a shared/exclusive lock, without lost wake-ups, deadlock or a call that never returns? | 3 threads, 2 calls each, no cancellation, no `destroy()`, no timed writers | holds |
| `rwlock_cancelled_writer` | can cancellation lose a wake-up? | 3 threads, 1 call each | it can |
| `rwlock_cancelled_timed` | does cancellation in a timed call leave the mutex locked? | 2 threads, 1 call each | it does |
| `rwlock_destroyed_in_use` | can `destroy()` take apart a lock that was in use when it began? | 2 threads, 1 call each | it can |
| `queue_fifo` | is the queue a FIFO channel that neither leaks nor touches freed nodes, and does every item pass? | 4 nodes, 5 items, stores in order | holds |
| `queue_reordered` | is that so if stores may be reordered? | 3 nodes, 2 items | no |
| `cstr_buffer` | do block, header and value stay right through every sequence of operations? | sizes 4, 8, 8, +2, 11; a letter, its capital and a blank | holds with `Cases = {}` |
| `cstr_search` | do the searches, the counting and the comparison agree with their definitions? | texts and patterns up to 7 of two characters, every begin | holds |
| `pool_returns` | is no object lost or lent twice while takes race with returns, and what can exceed the maximum? | 3 threads, 4 objects, at most 2 in the pool, 8 pushes | holds with `LonePushes` |
| `pool_lost` | and if a deleter runs during another push? | the same | an object is lost |
| `utilities` | is there one object per type, and does every `Instance()` return? are observers told once? is the rate kept? are days, sums and parts of texts right? | see below | holds, the cases named left out |

Why the bounds are enough:

* Three threads are the fewest with a holder, a waiting reader and a waiting
  writer at once, or two waiters of one kind. Two calls let a thread come back
  after it was woken, refused or timed out.
* Four nodes for five items make the allocator run dry and hand nodes out again;
  both ends of the list meet and part. Three nodes are enough to reorder.
* The sizes of `cstr.h` keep their order and the tests between them. With a
  header of 2 bytes, least block 4, tiny and medium limit 8, step 2 and largest
  block 11, a string of up to 8 characters meets every branch of `cal_fit_cap`:
  the smallest block, powers of two, a tiny block that does not shrink, a larger
  one that does, growth in steps, the largest block and refusal. Nothing else
  bounds a string. The operands are empty, a letter, or a letter between blanks;
  with sub, insert and reverse every order of blanks and letters that the trims
  and moves can tell apart comes about, and capitals by `cstr_toupper`.
* A table of borders goes wrong, if it does, where a border has a border: with
  two characters that takes a pattern of six (`aabaaa`), a text of seven to shift it
  in, and a seventh character to meet the refusal of long patterns.
* A pool of at most two objects and four to make reaches the maximum, passes it
  by returns, and empties; eight pushes let every object go round twice. `init`
  is tried with 0, 2 and a refused 3 objects.

* `utilities`. Singleton: three threads, as in `main`, with two calls each (one
  with `pthread_once`), two types, where the constructor of A asks for B and that
  of B may throw: both gates meet a nested call, a throw, a waiting thread and a
  late comer. Observers: three, four nodes in all, notifications within
  notifications two deep; that is enough for the list to change before, at and
  behind the place of either notification. Bucket: seconds of 4 microseconds and 2
  milliseconds, an int of -8 to 7, capacity 3, rate 2, five seconds: all clock
  readings, with overflow both to negative and round to positive numbers.
  Calendar: 5 days around a weekend may be listed in either table or both, and
  today is any of 10 days. Numbers: up to three digits in base 3, with three kinds
  of characters behind their ends. Texts: up to six bytes of 127, 191, 192, 224
  and 252, that is each side of a threshold and characters of one, two, three and
  six bytes.

Deadlock is checked in `rwlock_progress` and in both queue runs. Elsewhere the
system may stop: threads have made all their calls, all have died, slots are
used up, or no operation on the string remains to be done.

### Fairness

`rwlock_progress` uses weak fairness of each thread's own steps: a thread inside
a call is scheduled, a deadline passes, and a holder calls `unlock()`, as every
user in the file does. It does not assume that a thread makes a call. Weak
fairness of taking the mutex is enough only because each thread makes finitely
many calls (`MaxCalls`); the class itself promises no fairness to waiters.
`EveryCallReturns` is conditional on spurious wake-ups coming to an end.

`queue_fifo` assumes that `Produce()` and `Consum()` go on calling, which is
their loop, that a store does not stay in the buffer for ever, and that a
destructor that was begun finishes. An allocation that fails is not assumed to
succeed later: the consumer frees the node it needs.

`utilities` assumes that a thread inside `Instance()` is scheduled, its
constructor included (weak fairness of `Step`, as the spinning ends when the flag
is seen clear; every thread makes finitely many calls). `EveryInstanceReturns`
is conditional, in the version with the spin flag, on the flag not being lost
(`FlagLost`): a constructor threw, or asks for an object that has yet to be made.

`CString` and `ObjectPool` state no liveness: every operation is a bounded
sequence of steps.

## 4. What the checks show

ReadWriteLock. A writer is alone, `ref_count_` is exactly who holds the lock,
the waiting counters are exactly who is in a wait, and `destroy()` never takes
the lock apart under a hold or a sleep that lasts since before it began, for all
mixes of calls (`rwlock_safety`). Use that changes hands between its reads it does
miss (`rwlock_destroyed_in_use`): a thread that sleeps when `destroy()` begins is
woken by an unlock that leaves `ref_count_` 0, gets the lock once `ref_count_` has
been read, and is no longer waiting when the waiting counters are. Without cancellation, `destroy()` and timed writers no wake-up is
lost, a mix with timed readers and try calls included, although writers are
preferred. Two runs refute what the comment at line 79 claims for cancellation: a writer
cancelled in its wait is still counted until its handler gets the mutex, an
`unlock()` in between signals to no one, and the readers sleep at a free lock;
and the timed calls push no handler at all.

LockFreeQueue. With stores in order the algorithm is right, and the reading of
`size` is off by at most the updates still to come, which makes it -1 (and
`queue_size()` 2^32 - 1) for a moment. With plain C++ stores it is not: nothing
orders the publication after the value.

Cstr. Apart from the cases named, `used <= cap` and `cap` never exceeds the
block, although `cstr_append` may lower `cap` below the block it has. No
operation writes behind the block, and each makes of the value what
`TextBuffer` says. The terminator is lost to exactly three operations
(`TerminatorKept`): `cstr_copy_str`, an append that fills the capacity, and a
trim of a string of blanks. Appending a string to itself doubles it as long as
the block stays where it is.

Cstr searches. All three find the first occurrence from every `begin`, Sunday's
whatever byte follows the text, so that a missing terminator does not mislead
it. `cstr_count_str` counts occurrences that do not overlap, but misses one that
touches the one before; `CountsApart` says that it counts no overlapping ones, and
as many as there can be where no two occurrences touch. The scans for a character
or a prefix and the comparison agree with the searches and with each other
(`ScansAgree`).

ObjectPool. A take may run during a return, and no object is lost or handed out
empty, as the two work at different ends of the queue (reads and writes of one
end are taken to be atomic). Two pushes at once lose an object. The maximum is
exceeded by returns, by a second `init` after one that threw, and by an `add_one`
under which objects come back between its test and its push: by as many as these,
never by more.

Singleton. If a pointer reaches memory after what it points to, both versions
make one object per type and hand out nothing else, through nested and failed
constructors, and destroy it once (`SingletonIsOnePerType`). Without that order
the first test hands out an object whose constructor has not run. Only the
version with `pthread_once` lets every call return: the flag that all types share
is lost to a constructor that throws or that asks for another new object.

Observer. Callbacks may add, remove and notify as they like: everybody in the
list, newcomers included, is told once and in order, and deleted once
(`SubjectSound`), except for the two `Cases`.

Token bucket. `RateBound` holds, with one surplus that the code really grants: up
to one millisecond's tokens for every end of a second between two calls, where a
negative difference of microseconds is rounded up. Overflow never gives a token
too many. The bucket may starve, and hold a negative number (see the findings).

Calendar. The counts are exact in both directions over every calendar within the
bounds, days that are both holiday and workday included.

NumBaseX. `Add` is right when the second number is one digit longer than the
first, and, if what is read behind the vectors counts as zero, when it is not longer
and not empty. For equal lengths it always reads behind the first vector.

UTF-8. Valid text is split into its characters, and a part of any text, valid or
not, is the characters it names, unless the last one is cut short.

## 5. What is proved

Every theorem holds for all values of the constants that satisfy the assumption
of its module (`LockAssumption`, `QueueAssumption`, ...), which TLC evaluates on
the instances it checks. Where the code keeps a promise only under a condition,
the condition is a hypothesis of the theorem, and a finding or a run shows what
happens without it.

| Module | Hypothesis | Theorems: what is proved of `Spec` |
|---|---|---|
| `ReadWriteLockProofs`, first part | none | `Invariance`, `TypeCorrect` (`TypeOK`), `MutualExclusionHolds` (`MutualExclusion`), `RefCountIsExact` (`RefCountMatchesHolders`), `Refinement` (`ImplementsSharedExclusive`) |
| the same, second part | none | `WaitInvariance`, `LastingUseIsRefused` (`DestroyRefusesLastingUse`) |
| | no timed call is cancelled | `WaitersAreCounted` (`WaitingCountsMatchSleepers`), `NoMutexInTheGrave` (`NoAbandonedMutex`) |
| | `WritersStay` | `NoWakeUpIsLost` (`NoStrandedWaiter`) |
| `LockFreeQueueProofs` | `InOrder` | `Invariance`, `TypeCorrect` (`TypeOK`), `ReadsAreSafe` (`ReadsOnlyPublished`), `EmptyIsEmpty` (`EmptyAnswerIsRight`), `SizeIsKept` (`SizeAccounts`), `NodesAreOwned` (`NoUseAfterFree`), `NodesAreCounted` (`NoLeak`), `Refinement` (`ImplementsFifo`) |
| `ObjectPoolProofs` | `LonePushes` | `Invariance`, `TypeCorrect` (`TypeOK`), `ObjectsAreKept` (`NoObjectLost`), `HandlesAreFull` (`NoEmptyHandle`), `ExcessIsOfReturns` (`OnlyReturnsExceed`), `Refinement` (`ImplementsIdlePool`) |
| `CStringProofs` | `StaysInBlock` | `Invariance`, `TypeCorrect` (`TypeOK`), `HeaderIsTrue` (`SizesAgree`), `WritesStayInside` (`NoOverrun`), `TerminatorIsKept` (`TerminatorKept`) |
| | `Cases = {}` | `Refinement` (`ImplementsText`) |
| `CStringSearchProofs` | none | `Invariance`, `TableIsRight` (`TableHoldsBorders`), `KmpIsRight` (`KmpIsFirst`), `BoyerMooreIsRight` (`BoyerMooreIsFirst`), `SundayIsRight` (`SundayIsFirst`), `CountingIsRight` (`CountsApart`), `ScansAreRight` (`ScansAgree`), `SearchesAdvance` (no loop stands still) |
| `SingletonProofs` | `NeedsTypes`, `InOrder` | `Invariance`, `Refinement` (`ImplementsOnePerType`) |
| `SubjectProofs` | `Cases = {}` | `Invariance`, `SubjectIsSound` (`SubjectSound`) |
| `TokenBucketProofs` | `BucketAssumption` | `RateIsKept` (`RateBound`) |

### ReadWriteLock: the holders

For every finite `Thread`, every choice of `Calls`, `CancelPoints` and
`MayDestroy`, and every `MaxCalls`. `MutualExclusion` is not inductive: it says
nothing of a thread that has found the lock free and is about to take it. `IInv`
adds that such a thread owns the mutex (`Ownership`) and that what it found is
still so (`GrantStillValid`). That would be all but for `destroy()`. It can mark
the lock invalid under threads that hold it; these return from `unlock()` without
undoing their count, so that `ref_count_` is no longer the number of readers but
only at least it (`RefSafe`) and is bounded by the threads that are idle or hold
the lock (`RefBound`); and it can destroy the mutex, after which nobody is between
the test and the update (`DestroyedIsDrained`). The step that releases the lock
without the mutex is harmless because of that last part. The refinement maps the
update in `Grant` to taking a hold, the update in `Release` to giving it back, and
all else to a stutter; `MutualExclusion` and `Ownership` are what the abstract
guards need.

### ReadWriteLock: the sleepers and the end

`WaitInv` adds to `IInv` who is counted. The counters are not the sleepers: a
thread cancelled in a timed call stays counted for ever, as a ghost
(`CountsAreExact`, `Ghost`). With the ghosts the statement is inductive under any
cancellation, and without cancelled timed calls it is
`WaitingCountsMatchSleepers`. `GraveMutex` says that only such a thread dies with
the mutex.

`destroy()` reads three counters one after the other and holds no mutex, so what
it read first may have changed when it reads the next. `DestroyStages` says what
each read settles for good: of those that the counter was about, none is left whose
hold or wait is as `destroy()` found it. A hold or a wait that lasts is therefore met
by the read of its counter, and no more than that is true: a thread that goes from
waiting to holding can be missed by all three. That ghosts are counted only makes
`destroy()` refuse more often, so that `LastingUseIsRefused` needs no hypothesis.

`NoWakeUpIsLost` needs `WritersStay`: no timed writer, no cancellation of writers,
no `destroy()`. It is about any mix of all other calls, timed and cancelled
readers included. Its invariant `AwakeInv` says that when the lock is free and
somebody sleeps, somebody else is on the way to the test (`SomeoneComes`): the
unlock that frees the lock wakes a writer if one is counted, and as writers leave
the wait in no other way, a counted writer either sleeps or is on its way. A
cancelled writer breaks this, which `rwlock_cancelled_writer` shows; a reader that
leaves does not, since readers are woken all at once. The hypothesis leaves out no
more than it has to: a writer that times out takes the wake-up along just as a
cancelled one does (see the findings).

### LockFreeQueue

The invariant describes the memory between any two steps of the two threads and
the store buffer. `Linked` says that there is a list of nodes without repetition,
one for each item that is published and not consumed and one spare, that the rest
is free, and that `head`, `publisher` and `myTail` point into it; `Buffered` says,
by the number of stores that are left in the buffer, how much of the new node is
in memory. That list is not a variable: the invariant says that some function
`cell` from items to nodes exists, and each step that publishes, unlinks or
allocates shows the next one. Numbering the items makes the order of the channel
arithmetic (`InSequence`), so that the refinement needs no induction over
sequences: publishing is `Put`, unlinking is `Take`, all else stutters.

### ObjectPool

An object is in at most one place (`AtMostOnePlace`: lent, in the hands of an
operation, or queued) and in at least one if it was made (`SomePlace`). A push in
two steps is safe because nobody moves `finish` between them (`PushFits`); a take
because only the first element can be empty, and only while its taker has the
mutex (`EmptyFront`). What `init` has found about sizes is still so at its push; what
`add_one` has found is so but for the objects that came back since, which
`returned` counts (`SizesStand`). All of it is for programs in which no push overlaps with that of a
deleter; `pool_lost` shows what happens in others.

### CString

For all sizes in the order that `CStringAssumption` gives them, all operands and
any number of operations. The invariant is `TypeOK /\ SizesAgree /\ NoOverrun`; it
is inductive in programs that avoid `"short_copy"` and `"self_moved"`
(`StaysInBlock`), as both leave `used` above `cap`. Each operation is the same
argument: the block it works in has `Room` for the new capacity, and its writes
are `GoodWrite`s. So the lemmas are about `cal_fit_cap` (a size that it accepts
holds what was asked for and is not above `MaxSize`: `FitIsEnough`, which needs
`MidiumMax` to be a power of two, or the power next to a size below it might pass
the largest block), about `Block`, and about `Written`.

The refinement reads the new value off the writes: which write covers a place
last, and what it has put there. The trims are about the first and the last solid
character, which are least and greatest elements of a set of positions and exist
because `<` is well-founded on the naturals (`WFMin` of the library); this takes
the place of an induction over the string.

### CStringSearch

For every set of character codes, all texts and patterns and any limit
`SearchMax`. A search that is a state machine needs no induction over its text:
the invariant says what a loop knows at each of its rounds.

`TableGrows` is about the filling of the table: `k` is a border of what is behind,
and no border of what is ahead is longer than `k + 1`. Falling back keeps this
because the borders of a border are the shorter borders of the whole
(`BorderOfBorder`), and the table, by the part of it that is filled, names the
longest. `KmpLooks` is about its use: the first `j` characters match, and no
occurrence begins between `begin` and `i - j`. A mismatch moves `i - j` over places
that only a longer border could have made an occurrence (`FallBackIsSafe`).

`ShiftLooks` says of the other two that no occurrence begins between `begin` and
`i`; the work is in the shifts. An occurrence inside a shift would put a character
of the pattern where it is not (`BadCharIsSafe`, `SundayShiftIsSafe`), or the good
suffix at an index at which the table would have seen it (`GoodSuffixIsSafe`): the
table keeps the last index of the first pass, and what is left over for the second
pass is a suffix at the front of the pattern, the longest of which wins. The shift
of Sunday by the byte behind the text ends the search, whatever the byte.

`CountLooks` says that the hits are occurrences with a character between any two
(`HitsApart`), and that every occurrence so far is overlapped or touched by a hit
(`Met`). Where no two occurrences touch, disjoint occurrences are met by different
hits, so that there are no more of them than of hits: the pigeon hole is
`FS_Injection` of the library.

That a search returns is a liveness property; what can be proved of it is that no
loop stands still (`SearchesAdvance`): each round makes a bounded measure grow. For
Knuth-Morris-Pratt that needs the invariant as well, as to fall back is to try a
shorter prefix only because the table holds proper borders.

### Singleton

For any threads, types, constructors (nested and throwing) and both versions.
Calls that have passed a gate are alone behind it and keep it closed (`Alone`,
`Guarded`), also those deeper in a stack, which are in a constructor (`Nested`).
So what the second test has found stays true until the pointer is stored: at
`new` and at `construct` no object of the type was made, at `store` there is one
without a pointer (`Placed`). `Kept` is the other half: an object that was made is
reached by its pointer, or was deleted, or is about to be stored, so that the
cleaners miss none; `AtExit` says that they run when no call does. The proof that
a call that throws leaves this so differs for the two versions: with the flag the
gate stays closed for ever, with `pthread_once` it opens with the calls gone.

### Subject

For any observers, any length of the list and any depth of callbacks, in programs
that neither register an observer twice nor remove one that is being told
(`Cases = {}`; with either the property is violated, see the findings). What a
notification has told is a list of its own, and the list of observers changes under
it, so `SubjectSound` is not inductive. The invariant uses the numbers of the
nodes: they ascend along the list (`NodesInOrder`), and what a `NotifyAll` has told
ascends too, ends with its place, and has in common with the list just the nodes
up to that place (`ToldInOrder`). A new node has the greatest number, so it lies ahead
of every iterator; an erased node leaves the rest as it was, and as the iterator's own
node stays, it still has a successor. `WithoutIs` is about the erasure: counting the
nodes that stay numbers them without a gap (`Ranks`).

### TokenBucket

`RateBound` needs one strengthening, that the bucket never holds less than the
least int: then the sum in line 19 cannot fall below the range and wrap to a large
number, and an overflow at the upper end only takes tokens away (`WrapsDown`). The
rest is arithmetic: what rounding may add to one call (`ElapsedBound`, from
`Rounding`) adds up over calls to `Countable`.

### What the proofs corrected

Trying to prove the models found places where they were wrong although every run
passed, since the values in the runs did not tell the difference:

* `cal_fit_cap`: two arms of a CASE overlapped, so that TLA+ left the result open
  where the code takes the first.
* `Dequeue` of the queue could run again after the destructor.
* `OnlyReturnsExceed` left out that a second `init` also adds above the maximum.
* The assumptions of `CString` (that `MidiumMax` is a power of two) and of
  `ObjectPool` (at least one slot) were silent.

### Only model-checked, and why

* `EveryCallReturns`, `EveryItemGetsThrough`, `EveryInstanceReturns`: liveness under
  fairness is outside the prover's reach.
* `CountsWorkingDays`, `AddsUp`, `SubstrIsPart`: the modules compute with RECURSIVE
  operators, and their reference definitions (the n-th working day, the value of a
  row of digits, the characters of a text) are recursive themselves. What they
  return for every input needs induction over data.
* The compositions in `MCUtilities`: `SubjectSound`, `RateBound` and
  `SingletonIsOnePerType` are checked there of one instance each; the theorems are
  about the components, as `MCUtilities` reaches the RECURSIVE operators.

## 6. What is not modelled

* `ReadWriteLock::init` failing; return codes of `unlock()`; an `unlock()` by a
  thread that holds nothing, which the class cannot tell from a proper one; `main`
  and its threads (263 on), which only call these operations.
* The queue with two producers or two consumers, which its first line excludes.
  Loads of the consumer are taken in order.
* A string inserted into or copied over itself; positions behind the end and
  an empty operand with a begin behind it; a failing `malloc`; the character
  classes of `cstr.c`, single loops over the characters; characters above 127 in a
  pattern.
* `ZSpinLock` and `ZMutexLock`: from C++11 on the file does not compile, before
  every method is one call of pthreads.
* Objects used by destructors that run behind the cleaner of their singleton;
  observers that are destroyed by others while they are registered; a clock that
  is set back; the formatting methods of `MylibDate`.
* Destruction of a pool while handles are out; the data race of `pool_` below
  the level of its two ends.
* The other components marked `not_modelled` in `PROJECT.json`, which only wrap a
  clock, a socket, a file, a terminal or a build tool.

## 7. What could be added

The model covers what keeps state, and what is proved covers the safety of every
component that is concurrent, long-lived or searches. What is left:

1. `WorkingDays`, `NumBaseX` and `Utf8Substr` with their loops as steps, as in
   `CStringSearch`. For the digits the invariant would speak of the value of a row
   of digits, which is a sum and needs an induction of its own; for the days and the
   characters, least counterexamples might do.
2. A string inserted into or copied over itself, with the block as addresses rather
   than as a sequence of bytes.
