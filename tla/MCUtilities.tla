----------------------------- MODULE MCUtilities -----------------------------
(***************************************************************************)
(* Model checking of the small utilities, which know nothing of each       *)
(* other: a behaviour picks one of them and follows it, while the others   *)
(* stay as they are.  The two versions of the singleton are two of them.   *)
(***************************************************************************)
EXTENDS Integers, Sequences, TLC

CONSTANTS
    t1, t2, t3,     \* threads
    A, B,           \* types of singletons; the constructor of A asks for B
    o1, o2, o3      \* observers

VARIABLES
    utility,
    calls, left, instance_, objects, held, cleaners, exiting, gone, given, threw,
    observers_, pointee, stack, deletions, alive,
    token_num_, tv_sec, tv_usec, granted, opened, saved,
    holidays, workdays, today,
    num1, num2,
    input

Needs == (A :> {B}) @@ (B :> {})

Shared == INSTANCE Singleton WITH
    Build <- "spin", Thread <- {t1, t2, t3}, Type <- {A, B},
    MayThrow <- {B}, InOrder <- TRUE, MaxCalls <- 2
Once == INSTANCE Singleton WITH
    Build <- "once", Thread <- {t1, t2, t3}, Type <- {A, B},
    MayThrow <- {B}, InOrder <- TRUE, MaxCalls <- 1
Subj == INSTANCE Subject WITH
    Observer <- {o1, o2, o3}, MaxObservers <- 3, Cases <- {}, MaxNodes <- 4, MaxDepth <- 2
Bucket == INSTANCE TokenBucket WITH
    capacity_ <- 3, token_rate_ <- 2, MsPerSec <- 2, UsPerMs <- 2, IntMax <- 7, MaxSec <- 4
Days == INSTANCE WorkingDays WITH ConfigDays <- 4 .. 8, LastToday <- 9
Sum == INSTANCE NumBaseX WITH Base <- 3, MaxDigits <- 3
Utf8 == INSTANCE Utf8Substr WITH Byte <- {127, 191, 192, 224, 252}, MaxBytes <- 6

singleton == <<calls, left, instance_, objects, held, cleaners, exiting, gone, given, threw>>
subject == <<observers_, pointee, stack, deletions, alive>>
bucket == <<token_num_, tv_sec, tv_usec, granted, opened, saved>>
days == <<holidays, workdays, today>>
numbers == <<num1, num2>>
vars == <<utility, singleton, subject, bucket, days, numbers, input>>

Init ==
    /\ utility \in {"shared flag", "once", "subject", "bucket", "days", "sum", "utf8"}
    /\ IF utility = "once" THEN Once!Init ELSE Shared!Init
    /\ Subj!Init /\ Bucket!Init /\ Days!Init /\ Sum!Init /\ Utf8!Init
    /\ utility # "bucket" => tv_usec = 0

\* The utility follows its next-state relation, and nothing else changes.
Follow(name, next, others) == utility = name /\ next /\ UNCHANGED <<utility, others>>

NotSingleton == <<subject, bucket, days, numbers, input>>
Next ==
    \/ Follow("shared flag", Shared!Next, NotSingleton)
    \/ Follow("once", Once!Next, NotSingleton)
    \/ Follow("subject", Subj!Next, <<singleton, bucket, days, numbers, input>>)
    \/ Follow("bucket", Bucket!Next, <<singleton, subject, days, numbers, input>>)
    \/ Follow("days", Days!Next, <<singleton, subject, bucket, numbers, input>>)
    \/ Follow("sum", Sum!Next, <<singleton, subject, bucket, days, input>>)
    \/ Follow("utf8", Utf8!Next, <<singleton, subject, bucket, days, numbers>>)

\* A thread in a call of Instance() is scheduled, or its constructor goes on.
Fairness ==
    \A t \in {t1, t2, t3} :
        /\ WF_vars(Follow("shared flag", Shared!Step(t), NotSingleton))
        /\ WF_vars(Follow("once", Once!Step(t), NotSingleton))

Spec == Init /\ [][Next]_vars /\ Fairness

------------------------------------------------------------------------------
(* The properties of the modules, of the utility that is followed.          *)

\* Both versions of the singleton implement one object per type.
SingletonIsOnePerType == Shared!ImplementsOnePerType

\* Every call of Instance() returns; in the version with the spin flag, as long
\* as the flag is not lost.
EveryInstanceReturns ==
    /\ utility = "shared flag" => Shared!EveryCallReturns
    /\ utility = "once" => Once!EveryCallReturns

\* Notifications stay valid and tell every observer once, whatever callbacks do.
SubjectSound == utility = "subject" => Subj!SubjectSound

\* No window grants more than its time and the tokens saved before it.
RateBound == utility = "bucket" => Bucket!RateBound

\* Working days are counted right, ahead and back.
CountsWorkingDays == utility = "days" => Days!CountsWorkingDays

\* The result of Add is the sum, where the code can get it right.
AddsUp == utility = "sum" => Sum!AddsUp

\* The part of a text is what its characters say.
SubstrIsPart == utility = "utf8" => Utf8!SubstrIsPart
==============================================================================
